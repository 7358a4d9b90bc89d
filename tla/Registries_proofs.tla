-------------------------- MODULE Registries_proofs --------------------------
(***************************************************************************)
(* Proofs for the registries.                                              *)
(*                                                                         *)
(* MqttSubscriptions: however retries, denials, losses of the connection   *)
(* and of the session overlap, no attribute is forgotten, and none counts  *)
(* as subscribed that the broker does not know and is not asked for, but   *)
(* those it went wrong with.  MqttPublications: the books are right about what the broker *)
(* keeps.  LocalRegistry: the shared file loses nothing, and what a scan   *)
(* reports is true and told once.                                          *)
(***************************************************************************)
EXTENDS MqttSubscriptions, MqttPublications, LocalRegistry,
        FiniteSetTheorems, SequenceTheorems, TLAPS

(***************************************************************************)
(* Sequences                                                               *)
(***************************************************************************)

(* Every position of K is the n-th for one n, and every n has its position.*)
LEMMA NthIsOnto ==
  ASSUME NEW m \in Nat, NEW K \in SUBSET (1..m)
  PROVE  /\ IsFiniteSet(K) /\ Cardinality(K) \in Nat
         /\ \A n \in 1..Cardinality(K) : Nth(K, n) \in K
         /\ \A k \in K : \E n \in 1..Cardinality(K) : Nth(K, n) = k
<1> DEFINE upTo(k) == {j \in K : j <= k}
           rank == [k \in K |-> Cardinality(upTo(k))]
           ranks == 1..Cardinality(K)
<1>0. \A k \in K : k \in Int
  OBVIOUS
<1>1. IsFiniteSet(K) /\ Cardinality(K) \in Nat
  <2>1. IsFiniteSet(1..m)
    BY FS_Interval
  <2>2. IsFiniteSet(K)
    BY <2>1, FS_Subset
  <2> QED
    BY <2>2, FS_CardinalityType
<1>2. \A k \in K : /\ IsFiniteSet(upTo(k)) /\ Cardinality(upTo(k)) \in Nat
                   /\ Cardinality(upTo(k)) <= Cardinality(K)
  <2> SUFFICES ASSUME NEW k \in K
               PROVE  /\ IsFiniteSet(upTo(k)) /\ Cardinality(upTo(k)) \in Nat
                      /\ Cardinality(upTo(k)) <= Cardinality(K)
    OBVIOUS
  <2>1. upTo(k) \in SUBSET K
    OBVIOUS
  <2> HIDE DEF upTo
  <2> QED
    BY <1>1, <2>1, FS_Subset, FS_CardinalityType
<1>3. \A k \in K : Cardinality(upTo(k)) \in ranks
  <2> SUFFICES ASSUME NEW k \in K
               PROVE  Cardinality(upTo(k)) \in ranks
    OBVIOUS
  <2>1. upTo(k) # {}
    OBVIOUS
  <2> HIDE DEF upTo
  <2>2. Cardinality(upTo(k)) # 0
    BY <1>2, <2>1, FS_EmptySet
  <2> QED
    BY <1>1, <1>2, <2>2
<1>4. \A k, l \in K : Cardinality(upTo(k)) = Cardinality(upTo(l)) => ~(k < l)
  <2> SUFFICES ASSUME NEW k \in K, NEW l \in K, k < l,
                      Cardinality(upTo(k)) = Cardinality(upTo(l))
               PROVE  FALSE
    OBVIOUS
  <2>0. k \in Int /\ l \in Int /\ k < l /\ l <= l /\ ~(l <= k)
    BY <1>0
  <2>1. upTo(k) \in SUBSET upTo(l) /\ l \in upTo(l) /\ l \notin upTo(k)
    <3>1. \A j \in K : j <= k => j <= l
      BY <1>0, <2>0
    <3> QED
      BY <2>0, <3>1, Zenon
  <2> HIDE DEF upTo
  <2>2. upTo(k) = upTo(l)
    BY <1>2, <2>1, FS_Subset
  <2> QED
    BY <2>1, <2>2
<1>5. \A k, l \in K : Cardinality(upTo(k)) = Cardinality(upTo(l)) => k = l
  BY <1>4
<1> HIDE DEF upTo
<1>6. rank \in Injection(K, ranks)
  <2>1. rank \in [K -> ranks]
    BY <1>3
  <2>2. \A k, l \in K : rank[k] = rank[l] => k = l
    BY <1>5
  <2> QED
    BY <2>1, <2>2 DEF Injection, IsInjective
<1>7. IsFiniteSet(ranks) /\ Cardinality(ranks) = Cardinality(K)
  BY <1>1, FS_Interval
<1>8. rank \in Surjection(K, ranks)
  <2> HIDE DEF rank, ranks
  <2> QED
    BY <1>1, <1>6, <1>7, FS_Injection
<1>9. \A n \in ranks : \E k \in K : Cardinality(upTo(k)) = n
  BY <1>8 DEF Surjection
<1>10. \A n : Nth(K, n) = CHOOSE k \in K : Cardinality(upTo(k)) = n
  BY DEF Nth, upTo
<1>11. \A n \in ranks : Nth(K, n) \in K /\ Cardinality(upTo(Nth(K, n))) = n
  BY <1>9, <1>10
<1>12. \A k \in K : Nth(K, Cardinality(upTo(k))) = k
  BY <1>3, <1>5, <1>11
<1> QED
  BY <1>1, <1>3, <1>11, <1>12

(* Select takes what is at the positions of K, and nothing else.           *)
LEMMA SelectElements ==
  ASSUME NEW S, NEW s \in Seq(S), NEW K \in SUBSET DOMAIN s, NEW T,
         \A k \in K : s[k] \in T
  PROVE  /\ Select(s, K) \in Seq(T)
         /\ Range(Select(s, K)) = {s[k] : k \in K}
<1>1. Len(s) \in Nat /\ K \in SUBSET (1..Len(s))
  BY LenProperties
<1>2. /\ Cardinality(K) \in Nat
      /\ \A n \in 1..Cardinality(K) : Nth(K, n) \in K
      /\ \A k \in K : \E n \in 1..Cardinality(K) : Nth(K, n) = k
  BY <1>1, NthIsOnto
<1>3. Select(s, K) \in [1..Cardinality(K) -> T]
  BY <1>2 DEF Select
<1>4. Select(s, K) \in Seq(T)
  BY <1>2, <1>3
<1> QED
  BY <1>2, <1>4 DEF Select, Range

LEMMA RemoveAtElements ==
  ASSUME NEW S, NEW s \in Seq(S), NEW k \in DOMAIN s
  PROVE  /\ RemoveAt(s, k) \in Seq(S)
         /\ Range(s) \subseteq Range(RemoveAt(s, k)) \cup {s[k]}
<1> DEFINE first == SubSeq(s, 1, k - 1)
           last == SubSeq(s, k + 1, Len(s))
<1>1. Len(s) \in Nat /\ k \in 1..Len(s) /\ \A i \in 1..Len(s) : s[i] \in S
  BY LenProperties, ElementOfSeq
<1>2. /\ first \in Seq(S) /\ Len(first) = k - 1
      /\ \A i \in 1..(k - 1) : first[i] = s[i]
  <2>1. 1 \in Int /\ k - 1 \in Int /\ \A i \in 1..(k - 1) : s[i] \in S
    BY <1>1
  <2>2. /\ first \in Seq(S) /\ Len(first) = IF 1 <= k - 1 THEN (k - 1) - 1 + 1 ELSE 0
        /\ \A i \in 1..((k - 1) - 1 + 1) : first[i] = s[1 + i - 1]
    BY <2>1, SubSeqProperties
  <2> QED
    BY <1>1, <2>2
<1>3. /\ last \in Seq(S) /\ Len(last) = Len(s) - k
      /\ \A i \in 1..(Len(s) - k) : last[i] = s[k + i]
  <2>1. k + 1 \in Int /\ Len(s) \in Int /\ \A i \in (k + 1)..Len(s) : s[i] \in S
    BY <1>1
  <2>2. /\ last \in Seq(S)
        /\ Len(last) = IF k + 1 <= Len(s) THEN Len(s) - (k + 1) + 1 ELSE 0
        /\ \A i \in 1..(Len(s) - (k + 1) + 1) : last[i] = s[(k + 1) + i - 1]
    BY <2>1, SubSeqProperties
  <2> QED
    BY <1>1, <2>2
<1>4. RemoveAt(s, k) = first \o last
  BY DEF RemoveAt
<1> HIDE DEF first, last
<1>5. /\ first \o last \in Seq(S) /\ Len(first \o last) = Len(s) - 1
      /\ \A i \in 1..(Len(s) - 1) :
           (first \o last)[i] = IF i <= k - 1 THEN first[i] ELSE last[i - (k - 1)]
  <2>1. Len(first) + Len(last) = Len(s) - 1
    BY <1>1, <1>2, <1>3
  <2>2. /\ first \o last \in Seq(S) /\ Len(first \o last) = Len(first) + Len(last)
        /\ \A i \in 1..(Len(first) + Len(last)) :
             (first \o last)[i] = IF i <= Len(first) THEN first[i] ELSE last[i - Len(first)]
    BY <1>2, <1>3, ConcatProperties
  <2> QED
    BY <1>2, <2>1, <2>2
<1>6. ASSUME NEW j \in DOMAIN s, j # k
      PROVE  \E i \in 1..(Len(s) - 1) : (first \o last)[i] = s[j]
  <2>1. j \in 1..Len(s)
    BY LenProperties
  <2>2. CASE j < k
    <3>1. j \in 1..(Len(s) - 1) /\ j \in 1..(k - 1)
      BY <1>1, <2>1, <2>2
    <3> QED
      BY <1>2, <1>5, <3>1
  <2>3. CASE j > k
    <3>1. j - 1 \in 1..(Len(s) - 1) /\ ~(j - 1 <= k - 1)
      BY <1>1, <2>1, <2>3
    <3>2. (first \o last)[j - 1] = last[(j - 1) - (k - 1)]
      BY <1>5, <3>1
    <3>3. (j - 1) - (k - 1) \in 1..(Len(s) - k) /\ k + ((j - 1) - (k - 1)) = j
      BY <1>1, <2>1, <2>3
    <3> QED
      BY <1>3, <3>1, <3>2, <3>3
  <2>4. j < k \/ j > k
    BY <1>1, <1>6, <2>1
  <2> QED
    BY <2>2, <2>3, <2>4
<1>7. DOMAIN (first \o last) = 1..(Len(s) - 1)
  BY <1>5, LenProperties
<1>8. \A i \in 1..(Len(s) - 1) : (first \o last)[i] \in Range(first \o last)
  BY <1>7 DEF Range
<1>9. ASSUME NEW e \in Range(s)
      PROVE  e \in Range(first \o last) \cup {s[k]}
  <2>1. PICK j \in DOMAIN s : e = s[j]
    BY DEF Range
  <2> QED
    BY <1>6, <1>8, <2>1
<1> QED
  BY <1>4, <1>5, <1>9

LEMMA AppendElements ==
  ASSUME NEW S, NEW s \in Seq(S), NEW e \in S
  PROVE  Append(s, e) \in Seq(S) /\ Range(Append(s, e)) = Range(s) \cup {e}
<1>1. /\ Append(s, e) \in Seq(S) /\ Len(Append(s, e)) = Len(s) + 1 /\ Len(s) \in Nat
      /\ \A i \in 1..Len(s) : Append(s, e)[i] = s[i]
      /\ Append(s, e)[Len(s) + 1] = e
  BY AppendProperties, LenProperties
<1>2. Range(Append(s, e)) = {Append(s, e)[i] : i \in 1..(Len(s) + 1)}
  BY <1>1, RangeEquality
<1>3. Range(s) = {s[i] : i \in 1..Len(s)}
  BY RangeEquality
<1>4. 1..(Len(s) + 1) = (1..Len(s)) \cup {Len(s) + 1}
  BY <1>1
<1> QED
  BY <1>1, <1>2, <1>3, <1>4

LEMMA TailElements ==
  ASSUME NEW S, NEW s \in Seq(S), s # <<>>
  PROVE  /\ Head(s) \in S /\ Tail(s) \in Seq(S)
         /\ Range(s) = Range(Tail(s)) \cup {Head(s)}
<1>1. /\ Head(s) \in S /\ Tail(s) \in Seq(S) /\ Len(Tail(s)) = Len(s) - 1
      /\ \A i \in 1..Len(Tail(s)) : Tail(s)[i] = s[i + 1]
  BY HeadTailProperties
<1>2. Len(s) \in Nat /\ Len(s) > 0 /\ Head(s) = s[1]
  BY EmptySeq, LenProperties
<1>3. Range(s) = {s[i] : i \in 1..Len(s)} /\ Range(Tail(s)) = {Tail(s)[i] : i \in 1..Len(Tail(s))}
  BY <1>1, RangeEquality
<1>4. \A i \in 1..Len(s) : i = 1 \/ i - 1 \in 1..Len(Tail(s))
  BY <1>1, <1>2
<1>5. \A i \in 1..Len(Tail(s)) : i + 1 \in 1..Len(s)
  BY <1>1, <1>2
<1>6. \A i \in 1..Len(s) : s[i] = Head(s) \/ \E j \in 1..Len(Tail(s)) : s[i] = Tail(s)[j]
  BY <1>1, <1>2, <1>4
<1>7. \A j \in 1..Len(Tail(s)) : \E i \in 1..Len(s) : s[i] = Tail(s)[j]
  BY <1>1, <1>5
<1> QED
  BY <1>2, <1>3, <1>6, <1>7

(***************************************************************************)
(* The invariant                                                           *)
(***************************************************************************)

Packet == Messages \cup SubAcks

(* The client has asked for a and is not answered, or is about to be told  *)
(* that it cannot.                                                         *)
Asked(a) ==
  \/ \E c \in Range(calls) : a \in c.subs
  \/ \E r \in Range(refused) : a \in r.attrs

RealOrAsked == \A a \in subscribedAttrs : a \in brokerSubs \cup cut \/ Asked(a)

(* What the client will not ask for again is subscribed, or went wrong: of *)
(* what is in a timer, and of what a SUBSCRIBE leaves out.                 *)
Known ==
  /\ resubscribeTopics \ subscribedAttrs \subseteq cut
  /\ \A t \in Range(timers) : t.attrs \subseteq cut
  /\ \A c \in Range(calls) : c.attrs \ c.subs \subseteq cut
  /\ \A p \in Range(down) : p.type = "suback" => p.call.attrs \ p.call.subs \subseteq cut

Inv == TypeOK /\ NeverForgotten /\ RealOrAsked /\ Known

LEMMA InvSuffices == Inv => SubscriptionsInv
BY DEF Inv, SubscriptionsInv, RealOrAsked, Asked, SubscribedIsReal, Range

LEMMA PacketKinds ==
  /\ \A p \in Packet : p.type = "message" => p \in Messages /\ p.attr \in Subs /\ p.value \in 0..MaxVersion
  /\ \A p \in Packet : p.type = "suback" => p \in SubAcks /\ p.call \in Calls
  /\ \A p \in Packet : p.type \in {"message", "suback"}
  /\ \A p \in Messages : p.type = "message" /\ p \in Packet
  /\ \A p \in SubAcks : p.type = "suback" /\ p \in Packet
BY DEF Packet, Messages, SubAcks

LEMMA RequestFields ==
  /\ \A c \in Requests : c.attrs \subseteq Subs /\ c.retries \in 0..Long
  /\ \A D \in SUBSET Subs, r \in 0..Long :
       Request(D, r) \in Requests /\ Request(D, r).attrs = D /\ Request(D, r).retries = r
BY DEF Requests, Request

LEMMA CallFields ==
  /\ \A c \in Calls : c.attrs \subseteq Subs /\ c.subs \subseteq Subs
  /\ \A D, E \in SUBSET Subs :
       Call(D, E) \in Calls /\ Call(D, E).attrs = D /\ Call(D, E).subs = E
BY DEF Calls, Call

LEMMA RetriesInRange == Retries \in 0..Long /\ Long \in Nat
BY ClientAssumption DEF Long

LEMMA InitialInv == Init => Inv
<1> SUFFICES ASSUME Init
             PROVE  Inv
  OBVIOUS
<1>1. TypeOK
  <2>1. /\ calls \in Seq(Calls) /\ timers \in Seq(Requests) /\ refused \in Seq(Requests)
        /\ down \in Seq(Messages \cup SubAcks)
    BY DEF Init
  <2>2. errors \in 0..MaxErrors /\ drops \in 0..MaxDrops
    BY ClientAssumption DEF Init
  <2>3. peer \in [Subs -> 0..MaxVersion] /\ told \in [Subs -> 0..MaxVersion]
    BY SubscriptionsAssumption DEF Init
  <2>4. connected \in BOOLEAN /\ invalid \subseteq Subs
    BY SubscriptionsAssumption DEF Init
  <2> QED
    BY <2>1, <2>2, <2>3, <2>4 DEF Init, TypeOK
<1>2. NeverForgotten /\ RealOrAsked
  BY DEF Init, NeverForgotten, RealOrAsked
<1>3. Known
  BY DEF Init, Known, Range
<1> QED
  BY <1>1, <1>2, <1>3 DEF Inv

(* _subscribeWithRetries for D, when everything in the maps before is in T *)
(* or in U: what it is not granted at once, or leaves out, went wrong.     *)
LEMMA SubscribeInv ==
  ASSUME Inv, NEW T \in SUBSET Subs, NEW U \in SUBSET subscribedAttrs, NEW D \in SUBSET Subs,
         NEW r \in 0..Long, subscribeWithRetries(T, U, D, r),
         wanted \cup wanted' \subseteq T \cup U \cup D, wanted' \subseteq Subs, T \cap U = {},
         subscribedAttrs \subseteq U \cup D,
         connected' => T \ D \subseteq cut', D \cap resubscribeTopics \subseteq cut',
         cut \subseteq cut', cut' \subseteq Subs,
         connected' \in BOOLEAN, timers' \in Seq(Requests), Range(timers') \subseteq Range(timers),
         U # {} => brokerSubs' = brokerSubs,
         brokerSubs' \in {brokerSubs, {}}, down' \in {down, <<>>},
         UNCHANGED <<invalid, errors, drops, peer, told>>
  PROVE  Inv'
<1>1. TypeOK /\ NeverForgotten /\ RealOrAsked /\ Known
  BY DEF Inv
<1> DEFINE subs == D \ resubscribeTopics
<1>2. calls \in Seq(Calls) /\ refused \in Seq(Requests)
  BY <1>1 DEF TypeOK
<1>3. /\ calls' \in Seq(Calls) /\ Range(calls) \subseteq Range(calls')
      /\ \A c \in Range(calls') : c \in Range(calls) \/ c.attrs \ c.subs \subseteq cut'
      /\ refused' \in Seq(Requests) /\ Range(refused) \subseteq Range(refused')
      /\ \/ /\ attrsToSubTo' = T \ D /\ subscribedAttrs' = U \cup D
            /\ resubscribeTopics' = resubscribeTopics
            /\ \A a \in D : \E e \in Range(refused') : a \in e.attrs
         \/ /\ attrsToSubTo' = T \ D /\ subscribedAttrs' = U \cup D
            /\ resubscribeTopics' = resubscribeTopics \cup subs
            /\ \A a \in D : a \in cut' \/ \E c \in Range(calls') : a \in c.subs
         \/ /\ attrsToSubTo' = T \cup D /\ subscribedAttrs' = U \ D
            /\ resubscribeTopics' = resubscribeTopics /\ D \subseteq cut'
  <2>1. CASE /\ D \cap invalid # {} /\ attrsToSubTo' = T \ D /\ subscribedAttrs' = U \cup D
             /\ refused' = Append(refused, Request(D, r)) /\ UNCHANGED <<calls, resubscribeTopics>>
    <3>1. Request(D, r) \in Requests /\ Request(D, r).attrs = D
      BY RequestFields
    <3>2. refused' \in Seq(Requests) /\ Range(refused') = Range(refused) \cup {Request(D, r)}
      BY <1>2, <2>1, <3>1, AppendElements
    <3> QED
      BY <1>2, <2>1, <3>1, <3>2
  <2>2. CASE /\ attrsToSubTo' = T \ D /\ subscribedAttrs' = U \cup D
             /\ calls' = Append(calls, Call(D, subs))
             /\ resubscribeTopics' = resubscribeTopics \cup subs /\ UNCHANGED refused
    <3>1. Call(D, subs) \in Calls /\ Call(D, subs).attrs = D /\ Call(D, subs).subs = subs
      BY CallFields
    <3>2. calls' \in Seq(Calls) /\ Range(calls') = Range(calls) \cup {Call(D, subs)}
      <4>1. \A c \in Calls : Append(calls, c) \in Seq(Calls) /\ Range(Append(calls, c)) = Range(calls) \cup {c}
        BY ONLY <1>2, AppendElements
      <4> QED
        BY <2>2, <3>1, <4>1
    <3>3. Call(D, subs) \in Range(calls') /\ Range(calls) \subseteq Range(calls')
      BY <3>2
    <3>4. \A a \in D : a \in cut' \/ \E c \in Range(calls') : a \in c.subs
      <4> SUFFICES ASSUME NEW a \in D, a \notin cut'
                   PROVE  \E c \in Range(calls') : a \in c.subs
        OBVIOUS
      <4>1. a \in Call(D, subs).subs
        BY <3>1
      <4> QED
        BY <3>3, <4>1
    <3>5. \A c \in Range(calls') : c \in Range(calls) \/ c.attrs \ c.subs \subseteq cut'
      <4>1. Call(D, subs).attrs \ Call(D, subs).subs \subseteq cut'
        BY <3>1
      <4> QED
        BY <3>2, <4>1
    <3> QED
      BY <1>2, <2>2, <3>2, <3>3, <3>4, <3>5
  <2>3. CASE /\ subs = {} /\ attrsToSubTo' = T \cup D /\ subscribedAttrs' = U \ D
             /\ UNCHANGED <<calls, resubscribeTopics, refused>>
    BY <1>2, <2>3
  <2> QED
    BY <2>1, <2>2, <2>3 DEF subscribeWithRetries
<1>4. resubscribeTopics \subseteq Subs /\ subscribedAttrs \subseteq Subs
      /\ resubscribeTopics \ subscribedAttrs \subseteq cut
  BY <1>1 DEF TypeOK, Known
<1>5. TypeOK'
  <2>1. /\ wanted' \subseteq Subs /\ attrsToSubTo' \subseteq Subs
        /\ subscribedAttrs' \subseteq Subs /\ brokerSubs' \subseteq Subs
        /\ resubscribeTopics' \subseteq Subs /\ cut' \subseteq Subs
    BY <1>1, <1>3, <1>4 DEF TypeOK
  <2>2. down' \in Seq(Messages \cup SubAcks)
    <3>1. down \in Seq(Messages \cup SubAcks) /\ <<>> \in Seq(Messages \cup SubAcks)
      BY <1>1, EmptySeq DEF TypeOK
    <3> QED
      BY <3>1
  <2> QED
    BY <1>1, <1>3, <2>1, <2>2 DEF TypeOK
<1>6. NeverForgotten'
  <2>1. wanted' \subseteq attrsToSubTo' \cup subscribedAttrs' /\ attrsToSubTo' \cap subscribedAttrs' = {}
    BY <1>3
  <2>2. connected' => attrsToSubTo' \subseteq cut'
    BY <1>3
  <2> QED
    BY <2>1, <2>2 DEF NeverForgotten
<1>7. RealOrAsked'
  <2> SUFFICES ASSUME NEW a \in subscribedAttrs'
               PROVE  a \in brokerSubs' \cup cut' \/ Asked(a)'
    BY DEF RealOrAsked
  <2>1. CASE a \in D
    BY <1>3, <2>1 DEF Asked
  <2>2. CASE a \in U /\ a \notin D
    <3>1. brokerSubs' = brokerSubs
      BY <2>2
    <3>2. a \in brokerSubs \cup cut \/ Asked(a)
      BY <1>1, <2>2 DEF RealOrAsked
    <3>3. Asked(a) => Asked(a)'
      BY <1>3 DEF Asked
    <3> QED
      BY <3>1, <3>2, <3>3
  <2> QED
    BY <1>3, <2>1, <2>2
<1>8. Known'
  <2>1. resubscribeTopics' \ subscribedAttrs' \subseteq cut'
    BY <1>3, <1>4
  <2>2. \A c \in Range(calls') : c.attrs \ c.subs \subseteq cut'
    BY <1>1, <1>3 DEF Known
  <2>3. \A p \in Range(down') : p \in Range(down)
    BY DEF Range
  <2> QED
    BY <1>1, <2>1, <2>2, <2>3 DEF Known
<1> QED
  BY <1>5, <1>6, <1>7, <1>8 DEF Inv

LEMMA DiscoverInv ==
  ASSUME Inv, NEW S \in SUBSET Subs, discoverAttributes(S)
  PROVE  Inv'
<1>1. TypeOK /\ NeverForgotten /\ RealOrAsked /\ Known
  BY DEF Inv
<1> DEFINE subs == S \ subscribedAttrs
<1>2. /\ wanted' = wanted \cup S
      /\ UNCHANGED <<invalid, timers, connected, errors, drops, brokerSubs, peer, down, told, cut>>
  BY DEF discoverAttributes, linkVars
<1>3. CASE connected
  <2>1. subscribeWithRetries(attrsToSubTo, subscribedAttrs, subs, Retries)
    BY <1>3 DEF discoverAttributes
  <2>2. /\ attrsToSubTo \in SUBSET Subs /\ subscribedAttrs \in SUBSET Subs /\ wanted \subseteq Subs
        /\ connected \in BOOLEAN /\ timers \in Seq(Requests) /\ cut \subseteq Subs
    BY <1>1 DEF TypeOK
  <2>3. wanted \cup wanted' \subseteq attrsToSubTo \cup subscribedAttrs \cup subs
    BY <1>1, <1>2 DEF NeverForgotten
  <2>4. attrsToSubTo \cap subscribedAttrs = {} /\ attrsToSubTo \subseteq cut
    BY <1>1, <1>3 DEF NeverForgotten
  <2>5. /\ subs \in SUBSET Subs /\ wanted' \subseteq Subs
        /\ subscribedAttrs \in SUBSET subscribedAttrs
    BY <1>2, <2>2
  <2>6. connected' \in BOOLEAN /\ timers' \in Seq(Requests) /\ Range(timers') \subseteq Range(timers)
    BY <1>2, <2>2
  <2>7. subs \cap resubscribeTopics \subseteq cut' /\ (connected' => attrsToSubTo \ subs \subseteq cut')
        /\ cut \subseteq cut' /\ cut' \subseteq Subs
    BY <1>1, <1>2, <2>2, <2>4 DEF Known
  <2>8. brokerSubs' = brokerSubs /\ down' = down /\ UNCHANGED <<invalid, errors, drops, peer, told>>
    BY <1>2
  <2>9. Retries \in 0..Long
    BY RetriesInRange
  <2>10. subscribedAttrs \subseteq subscribedAttrs \cup subs
    OBVIOUS
  <2> HIDE DEF subs
  <2> QED
    BY <2>1, <2>2, <2>3, <2>4, <2>5, <2>6, <2>7, <2>8, <2>9, <2>10, SubscribeInv
<1>4. CASE ~connected
  <2>1. /\ attrsToSubTo' = attrsToSubTo \cup subs
        /\ UNCHANGED <<subscribedAttrs, calls, resubscribeTopics, refused>>
    BY <1>4 DEF discoverAttributes
  <2>2. TypeOK' /\ NeverForgotten'
    BY <1>1, <1>2, <1>4, <2>1 DEF TypeOK, NeverForgotten
  <2>3. RealOrAsked' /\ Known'
    BY <1>1, <1>2, <2>1 DEF RealOrAsked, Asked, Known
  <2> QED
    BY <2>2, <2>3 DEF Inv
<1> QED
  BY <1>3, <1>4

LEMMA StopDiscoveringInv ==
  ASSUME Inv, NEW S \in SUBSET Subs, stopDiscoveringAttributes(S)
  PROVE  Inv'
<1>1. TypeOK' /\ NeverForgotten'
  BY DEF Inv, stopDiscoveringAttributes, TypeOK, NeverForgotten, linkVars
<1>2. RealOrAsked' /\ Known'
  BY DEF Inv, stopDiscoveringAttributes, RealOrAsked, Asked, Known
<1> QED
  BY <1>1, <1>2 DEF Inv

(* Without the session, what the client has asked for before went wrong.   *)
LEMMA ConnectInv ==
  ASSUME Inv, NEW sessionPresent \in BOOLEAN, Connect(sessionPresent)
  PROVE  Inv'
<1>1. TypeOK /\ NeverForgotten /\ Known
  BY DEF Inv
<1> DEFINE kept == Kept(sessionPresent)
           toSub == attrsToSubTo \cup (subscribedAttrs \ kept)
<1>2. /\ subscribeWithRetries(toSub, kept, toSub, Retries)
      /\ connected' = TRUE
      /\ UNCHANGED <<invalid, wanted, timers, errors, drops, peer, told>>
      /\ \/ sessionPresent /\ brokerSubs' = brokerSubs /\ down' = down /\ cut' = cut
         \/ /\ ~sessionPresent /\ brokerSubs' = {} /\ down' = <<>>
            /\ cut' = cut \cup (subscribedAttrs \cap resubscribeTopics)
  BY DEF Connect
<1>3. /\ kept \in SUBSET subscribedAttrs /\ (kept # {} => sessionPresent)
      /\ sessionPresent => kept = subscribedAttrs
  BY DEF Kept
<1> HIDE DEF kept
<1>4. /\ toSub \in SUBSET Subs /\ wanted \subseteq Subs /\ timers \in Seq(Requests)
      /\ wanted \cup wanted' \subseteq toSub \cup kept \cup toSub
      /\ toSub \cap kept = {} /\ subscribedAttrs \subseteq kept \cup toSub
      /\ cut \subseteq cut' /\ cut' \subseteq Subs
  BY <1>1, <1>2, <1>3 DEF TypeOK, NeverForgotten
<1>5. toSub \cap resubscribeTopics \subseteq cut'
  BY <1>1, <1>2, <1>3 DEF NeverForgotten, Known
<1> HIDE DEF toSub
<1>6. connected' \in BOOLEAN /\ (connected' => toSub \ toSub \subseteq cut')
  BY <1>2
<1>7. /\ wanted' \subseteq Subs /\ timers' \in Seq(Requests)
      /\ Range(timers') \subseteq Range(timers)
  BY <1>2, <1>4
<1>8. /\ kept # {} => brokerSubs' = brokerSubs
      /\ brokerSubs' \in {brokerSubs, {}} /\ down' \in {down, <<>>}
      /\ UNCHANGED <<invalid, errors, drops, peer, told>>
  BY <1>2, <1>3
<1>9. subscribeWithRetries(toSub, kept, toSub, Retries)
  BY <1>2
<1> QED
  BY <1>3, <1>4, <1>5, <1>6, <1>7, <1>8, <1>9, RetriesInRange, SubscribeInv

LEMMA RetryInv ==
  ASSUME Inv, NEW k \in DOMAIN timers, Retry(k)
  PROVE  Inv'
<1>1. TypeOK /\ NeverForgotten /\ RealOrAsked /\ Known
  BY DEF Inv
<1> DEFINE t == timers[k]
<1>2. /\ timers \in Seq(Requests) /\ t \in Requests
      /\ t.attrs \in SUBSET Subs /\ t.retries \in 0..Long /\ t.attrs \subseteq cut
  <2>1. timers \in Seq(Requests) /\ t \in Requests
    BY <1>1, ElementOfSeq, LenProperties DEF TypeOK
  <2>2. t \in Range(timers)
    BY DEF Range
  <2> QED
    BY <1>1, <2>1, <2>2, RequestFields DEF Known
<1>3. timers' \in Seq(Requests) /\ Range(timers') \subseteq Range(timers)
  <2>1. timers' = RemoveAt(timers, k) /\ timers \in Seq(Range(timers))
    BY <1>2, LenProperties DEF Retry, Range
  <2>2. timers' \in Seq(Requests) /\ timers' \in Seq(Range(timers))
    BY <1>2, <2>1, RemoveAtElements
  <2> QED
    BY <2>2, RangeOfSeq
<1>4. UNCHANGED <<invalid, wanted, connected, errors, drops, brokerSubs, peer, down, told, cut>>
  BY DEF Retry, linkVars
<1> HIDE DEF t
<1>5. /\ attrsToSubTo \in SUBSET Subs /\ subscribedAttrs \in SUBSET subscribedAttrs
      /\ wanted' \subseteq Subs /\ connected' \in BOOLEAN /\ cut' \subseteq Subs
      /\ wanted \cup wanted' \subseteq attrsToSubTo \cup subscribedAttrs \cup t.attrs
      /\ attrsToSubTo \cap subscribedAttrs = {}
      /\ connected' => attrsToSubTo \ t.attrs \subseteq cut'
  BY <1>1, <1>4 DEF TypeOK, NeverForgotten
<1>6. CASE \E r \in 0..Long : subscribeWithRetries(attrsToSubTo, subscribedAttrs, t.attrs, r)
  <2>1. PICK r \in 0..Long : subscribeWithRetries(attrsToSubTo, subscribedAttrs, t.attrs, r)
    BY <1>6
  <2>2. /\ brokerSubs' = brokerSubs /\ down' = down
        /\ UNCHANGED <<invalid, errors, drops, peer, told>>
    BY <1>4
  <2>3. /\ t.attrs \in SUBSET Subs /\ t.attrs \cap resubscribeTopics \subseteq cut'
        /\ cut \subseteq cut' /\ subscribedAttrs \subseteq subscribedAttrs \cup t.attrs
    BY <1>2, <1>4
  <2> QED
    BY <1>3, <1>5, <2>1, <2>2, <2>3, SubscribeInv
<1>7. CASE UNCHANGED <<attrsToSubTo, subscribedAttrs, calls, resubscribeTopics, refused>>
  <2>1. TypeOK' /\ NeverForgotten'
    BY <1>1, <1>3, <1>4, <1>7 DEF TypeOK, NeverForgotten
  <2>2. RealOrAsked' /\ Known'
    BY <1>1, <1>3, <1>4, <1>7 DEF RealOrAsked, Asked, Known
  <2> QED
    BY <2>1, <2>2 DEF Inv
<1> QED
  BY <1>2, <1>6, <1>7, RetriesInRange DEF Retry, t

LEMMA FailInv ==
  ASSUME Inv, Fail
  PROVE  Inv'
<1>1. TypeOK /\ NeverForgotten /\ RealOrAsked /\ Known
  BY DEF Inv
<1> DEFINE call == Head(refused)
<1>2. /\ call \in Requests /\ call.attrs \subseteq Subs /\ call.retries \in 0..Long
      /\ refused' \in Seq(Requests) /\ Range(refused) = Range(refused') \cup {call}
  BY <1>1, TailElements, RequestFields DEF TypeOK, Fail
<1>3. /\ UNCHANGED <<invalid, wanted, resubscribeTopics, connected, errors, drops, calls,
                     brokerSubs, peer, down, told>>
      /\ cut' = cut \cup call.attrs
      /\ BackOff(call)
  BY DEF Fail, linkVars
<1>4. timers \in Seq(Requests)
  BY <1>1 DEF TypeOK
<1> HIDE DEF call
<1>5. PICK again \in Requests :
        /\ timers' = Append(timers, again) /\ again.attrs = call.attrs
        /\ \/ UNCHANGED <<attrsToSubTo, subscribedAttrs>>
           \/ /\ attrsToSubTo' = attrsToSubTo \cup call.attrs
              /\ subscribedAttrs' = subscribedAttrs \ call.attrs
  <2>1. CASE call.retries # 0
    <3>1. call.retries - 1 \in 0..Long
      BY <1>2, <2>1, RetriesInRange
    <3>2. /\ Request(call.attrs, call.retries - 1) \in Requests
          /\ Request(call.attrs, call.retries - 1).attrs = call.attrs
      BY <1>2, <3>1, RequestFields
    <3> QED
      BY <1>3, <2>1, <3>2 DEF BackOff
  <2>2. CASE call.retries = 0
    <3>1. Request(call.attrs, Long) \in Requests /\ Request(call.attrs, Long).attrs = call.attrs
      BY <1>2, RequestFields, RetriesInRange
    <3> QED
      BY <1>3, <2>2, <3>1 DEF BackOff
  <2> QED
    BY <2>1, <2>2
<1>6. timers' \in Seq(Requests) /\ Range(timers') = Range(timers) \cup {again}
  BY <1>4, <1>5, AppendElements
<1>7. TypeOK' /\ NeverForgotten'
  BY <1>1, <1>2, <1>3, <1>5, <1>6 DEF TypeOK, NeverForgotten
<1>8. RealOrAsked'
  <2>1. \A a : a \notin call.attrs /\ Asked(a) => Asked(a)'
    BY <1>2, <1>3 DEF Asked
  <2> QED
    BY <1>1, <1>3, <1>5, <2>1 DEF RealOrAsked
<1>9. Known'
  BY <1>1, <1>3, <1>5, <1>6 DEF Known
<1> QED
  BY <1>7, <1>8, <1>9 DEF Inv

LEMMA ReceiveInv ==
  ASSUME Inv, Receive
  PROVE  Inv'
<1>1. TypeOK /\ NeverForgotten /\ RealOrAsked /\ Known
  BY DEF Inv
<1> DEFINE p == Head(down)
<1>2. /\ p \in Packet /\ down' \in Seq(Packet)
      /\ Range(down) = Range(down') \cup {p}
  BY <1>1, TailElements DEF TypeOK, Receive, Packet
<1>3. UNCHANGED <<invalid, wanted, timers, refused, connected, errors, drops, calls, brokerSubs, peer, cut>>
  BY DEF Receive, linkVars
<1>4. \/ /\ p.type = "message"
         /\ told' = IF Listens(p.attr) THEN [told EXCEPT ![p.attr] = p.value] ELSE told
         /\ UNCHANGED <<attrsToSubTo, subscribedAttrs, resubscribeTopics>>
      \/ p.type = "suback" /\ Acknowledged(p.call, p.granted) /\ UNCHANGED told
  BY DEF Receive
<1> HIDE DEF p
<1>5. \A a : Asked(a) => Asked(a)'
  BY <1>3 DEF Asked
<1>6. CASE p.type = "message"
  <2>1. told' \in [Subs -> 0..MaxVersion]
    <3>1. told \in [Subs -> 0..MaxVersion] /\ p.attr \in Subs /\ p.value \in 0..MaxVersion
      BY <1>1, <1>2, <1>6, PacketKinds DEF TypeOK
    <3> QED
      BY <1>4, <1>6, <3>1
  <2>2. UNCHANGED <<attrsToSubTo, subscribedAttrs, resubscribeTopics>>
    BY <1>4, <1>6
  <2>3. TypeOK' /\ NeverForgotten'
    BY <1>1, <1>2, <1>3, <2>1, <2>2 DEF TypeOK, NeverForgotten, Packet
  <2>4. RealOrAsked'
    BY <1>1, <1>3, <1>5, <2>2 DEF RealOrAsked
  <2>5. Known'
    BY <1>1, <1>2, <1>3, <2>2 DEF Known
  <2> QED
    BY <2>3, <2>4, <2>5 DEF Inv
<1>7. CASE p.type = "suback"
  <2> DEFINE denied == p.call.attrs \ p.call.subs
  <2>1. /\ attrsToSubTo' = attrsToSubTo \cup denied
        /\ subscribedAttrs' = subscribedAttrs \ denied
        /\ resubscribeTopics' \subseteq resubscribeTopics
        /\ told' = told
    BY <1>4, <1>7 DEF Acknowledged
  <2>2. denied \subseteq Subs /\ denied \subseteq cut
    <3>1. denied \subseteq Subs
      BY <1>2, <1>7, PacketKinds, CallFields
    <3> QED
      BY <1>1, <1>2, <1>7, <3>1 DEF Known
  <2> HIDE DEF denied
  <2>3. TypeOK' /\ NeverForgotten'
    BY <1>1, <1>2, <1>3, <2>1, <2>2 DEF TypeOK, NeverForgotten, Packet
  <2>4. RealOrAsked'
    BY <1>1, <1>3, <1>5, <2>1 DEF RealOrAsked
  <2>5. Known'
    BY <1>1, <1>2, <1>3, <2>1, <2>2 DEF Known
  <2> QED
    BY <2>3, <2>4, <2>5 DEF Inv
<1> QED
  BY <1>4, <1>6, <1>7

LEMMA MessageType ==
  ASSUME TypeOK, NEW a \in Subs
  PROVE  Message(a) \in Messages /\ Message(a) \in Packet
BY PacketKinds DEF TypeOK, Message, Messages

LEMMA SetToSeqElements ==
  ASSUME NEW S, IsFiniteSet(S)
  PROVE  Cardinality(S) \in Nat /\ SetToSeq(S) \in [1..Cardinality(S) -> S]
<1>1. Cardinality(S) \in Nat /\ ExistsBijection(1..Cardinality(S), S)
  BY FS_CardinalityType
<1>2. \E f \in [1..Cardinality(S) -> S] : IsInjective(f)
  BY <1>1 DEF ExistsBijection, Bijection, Injection
<1> QED
  BY <1>1, <1>2 DEF SetToSeq

LEMMA ConcatTwice ==
  ASSUME NEW S, NEW s \in Seq(S), NEW t \in Seq(S), NEW u \in Seq(S)
  PROVE  /\ (s \o t) \o u \in Seq(S)
         /\ Range((s \o t) \o u) = Range(s) \cup Range(t) \cup Range(u)
<1>1. PICK st \in Seq(S) : st = s \o t
  BY ConcatProperties
<1>2. Range(st) = Range(s) \cup Range(t)
  BY <1>1, RangeConcatenation
<1>3. st \o u \in Seq(S) /\ Range(st \o u) = Range(st) \cup Range(u)
  BY ConcatProperties, RangeConcatenation
<1> QED
  BY <1>1, <1>2, <1>3

(* A SUBSCRIBE that is answered is subscribed to, or denied.               *)
LEMMA GrantInv ==
  ASSUME Inv, NEW granted \in SUBSET Subs, Grant(granted)
  PROVE  Inv'
<1>1. TypeOK /\ NeverForgotten /\ RealOrAsked /\ Known
  BY DEF Inv
<1> DEFINE call == Head(calls)
           values == [k \in 1..Cardinality(granted) |-> Message(SetToSeq(granted)[k])]
           ack == <<SubAck(call, granted)>>
<1>2. /\ call \in Calls /\ call.subs \subseteq Subs
      /\ calls' \in Seq(Calls) /\ Range(calls) = Range(calls') \cup {call}
  BY <1>1, TailElements, CallFields DEF TypeOK, Grant
<1>3. SubAck(call, granted) \in SubAcks /\ SubAck(call, granted) \in Packet
  BY <1>2, PacketKinds DEF SubAck, SubAcks
<1>4. ack \in Seq(Packet) /\ Range(ack) = {SubAck(call, granted)}
  BY <1>3 DEF Range
<1>5. values \in Seq(Messages)
  <2>1. IsFiniteSet(granted)
    BY SubscriptionsAssumption, FS_Subset
  <2>2. Cardinality(granted) \in Nat /\ SetToSeq(granted) \in [1..Cardinality(granted) -> granted]
    BY <2>1, SetToSeqElements
  <2>3. \A k \in 1..Cardinality(granted) : Message(SetToSeq(granted)[k]) \in Messages
    BY <1>1, <2>2, MessageType
  <2> QED
    BY <2>2, <2>3
<1>6. values \in Seq(Packet) /\ Range(values) \subseteq Messages
  BY <1>5, RangeOfSeq, SeqMonotonic DEF Packet
<1>7. down \in Seq(Packet)
  BY <1>1 DEF TypeOK, Packet
<1>8. /\ UNCHANGED <<invalid, wanted, attrsToSubTo, subscribedAttrs, timers, resubscribeTopics, refused,
                     connected, drops, peer, told>>
      /\ brokerSubs' = brokerSubs \cup granted /\ cut' = cut \cup (call.subs \ granted)
      /\ down' \in {down \o values \o ack, down \o ack \o values}
      /\ errors' \in {errors, errors + 1} /\ errors' <= MaxErrors
  BY DEF Grant, nodeVars
<1> HIDE DEF call, values, ack
<1>9. /\ down' \in Seq(Packet)
      /\ Range(down') = Range(down) \cup Range(values) \cup {SubAck(call, granted)}
  <2>1. /\ (down \o values) \o ack \in Seq(Packet)
        /\ Range((down \o values) \o ack) = Range(down) \cup Range(values) \cup Range(ack)
    BY <1>4, <1>6, <1>7, ConcatTwice
  <2>2. /\ (down \o ack) \o values \in Seq(Packet)
        /\ Range((down \o ack) \o values) = Range(down) \cup Range(ack) \cup Range(values)
    BY <1>4, <1>6, <1>7, ConcatTwice
  <2>5. down' = (down \o values) \o ack \/ down' = (down \o ack) \o values
    BY <1>8
  <2>6. CASE down' = (down \o values) \o ack
    BY <1>4, <2>1, <2>6
  <2>7. CASE down' = (down \o ack) \o values
    BY <1>4, <2>2, <2>7
  <2> QED
    BY <2>5, <2>6, <2>7
<1>10. errors' \in 0..MaxErrors
  BY <1>1, <1>8, ClientAssumption DEF TypeOK
<1>11. TypeOK' /\ NeverForgotten'
  BY <1>1, <1>2, <1>8, <1>9, <1>10 DEF TypeOK, NeverForgotten, Packet
<1>12. RealOrAsked'
  <2>1. \A a : Asked(a) => Asked(a)' \/ a \in call.subs
    BY <1>2, <1>8 DEF Asked
  <2> QED
    BY <1>1, <1>8, <2>1 DEF RealOrAsked
<1>13. Known'
  <2>1. SubAck(call, granted).call = call /\ call.attrs \ call.subs \subseteq cut
    BY <1>1, <1>2 DEF SubAck, Known
  <2>2. \A q \in Range(values) : q.type # "suback"
    BY <1>6, PacketKinds
  <2>3. \A q \in Range(down') : q.type = "suback" => q.call.attrs \ q.call.subs \subseteq cut
    BY <1>1, <1>9, <2>1, <2>2 DEF Known
  <2> QED
    BY <1>1, <1>2, <1>8, <2>3 DEF Known
<1> QED
  BY <1>11, <1>12, <1>13 DEF Inv

LEMMA PublishInv ==
  ASSUME Inv, NEW a \in Subs, Publish(a)
  PROVE  Inv'
<1>1. TypeOK /\ NeverForgotten /\ RealOrAsked /\ Known
  BY DEF Inv
<1>2. UNCHANGED <<invalid, wanted, attrsToSubTo, subscribedAttrs, timers, resubscribeTopics, refused,
                  connected, errors, drops, calls, brokerSubs, told, cut>>
  BY DEF Publish, nodeVars, linkVars
<1>3. peer' \in [Subs -> 0..MaxVersion] /\ peer[a] + 1 \in 0..MaxVersion
  BY <1>1, SubscriptionsAssumption DEF Publish, TypeOK
<1> DEFINE m == [Message(a) EXCEPT !.value = @ + 1]
<1>4. m \in Messages
  BY <1>3 DEF Message, Messages
<1>5. down \in Seq(Packet) /\ m \in Packet /\ m.type # "suback"
  BY <1>1, <1>4, PacketKinds DEF TypeOK, Packet
<1> HIDE DEF m
<1>6. down' \in Seq(Packet) /\ Range(down') \subseteq Range(down) \cup {m}
  <2>1. CASE down' = down
    BY <1>5, <2>1
  <2>2. CASE down' = Append(down, m)
    BY <1>5, <2>2, AppendElements
  <2> QED
    BY <2>1, <2>2 DEF Publish, m
<1>7. TypeOK' /\ NeverForgotten'
  BY <1>1, <1>2, <1>3, <1>6 DEF TypeOK, NeverForgotten, Packet
<1>8. RealOrAsked'
  BY <1>1, <1>2 DEF RealOrAsked, Asked
<1>9. Known'
  BY <1>1, <1>2, <1>5, <1>6 DEF Known
<1> QED
  BY <1>7, <1>8, <1>9 DEF Inv

(* The client forgets the SUBSCRIBEs that are not answered.                *)
LEMMA DropInv ==
  ASSUME Inv, Drop
  PROVE  Inv'
<1>1. TypeOK /\ NeverForgotten /\ RealOrAsked /\ Known
  BY DEF Inv
<1> DEFINE kept == Select(down, Packets("message"))
<1>2. /\ down \in Seq(Packet) /\ \A k \in DOMAIN down : down[k] \in Packet
      /\ calls \in Seq(Calls) /\ \A k \in DOMAIN calls : calls[k] \in Calls
  BY <1>1, ElementOfSeq, LenProperties DEF TypeOK, Packet
<1>3. /\ UNCHANGED <<invalid, wanted, attrsToSubTo, subscribedAttrs, timers, resubscribeTopics, refused,
                     errors, brokerSubs, peer, told>>
      /\ connected' = FALSE /\ drops' = drops + 1 /\ drops < MaxDrops
      /\ calls' = <<>> /\ cut' = cut \cup UNION {calls[k].subs : k \in DOMAIN calls}
      /\ down' \in {kept, <<>>}
  BY DEF Drop, LoseConnection, nodeVars
<1>4. kept \in Seq(Messages) /\ Range(kept) \subseteq Messages
  <2>1. Packets("message") \in SUBSET DOMAIN down
    BY DEF Packets
  <2>2. \A k \in Packets("message") : down[k] \in Messages
    BY <1>2, PacketKinds DEF Packets
  <2>3. kept \in Seq(Messages)
    BY <1>2, <2>1, <2>2, SelectElements
  <2> QED
    BY <2>3, RangeOfSeq
<1> HIDE DEF kept
<1>5. down' \in Seq(Packet) /\ Range(down') \subseteq Messages
  <2>1. <<>> \in Seq(Packet) /\ Range(<<>>) = {}
    BY EmptySeq DEF Range
  <2>2. kept \in Seq(Packet)
    BY <1>4, SeqMonotonic DEF Packet
  <2> QED
    BY <1>3, <1>4, <2>1, <2>2
<1>6. calls' \in Seq(Calls) /\ Range(calls') = {}
  BY <1>3, EmptySeq DEF Range
<1>7. \A c \in Range(calls) : c.subs \subseteq cut'
  BY <1>3 DEF Range
<1>8. cut' \subseteq Subs
  BY <1>1, <1>2, <1>3, CallFields DEF TypeOK
<1>9. TypeOK' /\ NeverForgotten'
  <2>1. drops' \in 0..MaxDrops
    BY <1>1, <1>3, ClientAssumption DEF TypeOK
  <2>2. connected' \in BOOLEAN
    BY <1>3
  <2> QED
    BY <1>1, <1>3, <1>5, <1>6, <1>8, <2>1, <2>2 DEF TypeOK, NeverForgotten, Packet
<1>10. RealOrAsked'
  <2>1. \A a : Asked(a) => Asked(a)' \/ a \in cut'
    BY <1>3, <1>7 DEF Asked
  <2> QED
    BY <1>1, <1>3, <2>1 DEF RealOrAsked
<1>11. Known'
  <2>1. \A q \in Range(down') : q.type # "suback"
    BY <1>5, PacketKinds
  <2> QED
    BY <1>1, <1>3, <1>6, <2>1 DEF Known
<1> QED
  BY <1>9, <1>10, <1>11 DEF Inv

LEMMA InvPreserved == Inv /\ [Next]_vars => Inv'
<1> SUFFICES ASSUME Inv, [Next]_vars
             PROVE  Inv'
  OBVIOUS
<1>1. CASE \E S \in SUBSET Subs : S # {} /\ (discoverAttributes(S) \/ stopDiscoveringAttributes(S))
  BY <1>1, DiscoverInv, StopDiscoveringInv
<1>2. CASE Again
  BY <1>2, FailInv, RetryInv DEF Again
<1>3. CASE \E a \in Subs : Publish(a)
  BY <1>3, PublishInv
<1>4. CASE Drop
  BY <1>4, DropInv
<1>5. CASE Link
  <2>1. TRUE \in BOOLEAN /\ FALSE \in BOOLEAN
    OBVIOUS
  <2> QED
    BY <1>5, <2>1, ConnectInv, ReceiveInv, GrantInv DEF Link
<1>6. CASE UNCHANGED vars
  BY <1>6 DEF vars, nodeVars, linkVars, Inv, TypeOK, NeverForgotten, RealOrAsked, Asked, Known
<1> QED
  BY <1>1, <1>2, <1>3, <1>4, <1>5, <1>6 DEF Next

(* For any set of attributes, number of retries and quality of service:    *)
(* what the application discovers stays in one of the registry's maps, and *)
(* what counts as subscribed is subscribed at the broker, or asked for, or *)
(* went wrong in one of the ways of cut; and only that waits while the     *)
(* node is connected (mqttregistry.js:70-109, 192-285).                    *)
THEOREM NothingForgotten == Spec => []SubscriptionsInv
BY InitialInv, InvPreserved, InvSuffices, PTL DEF Spec

-----------------------------------------------------------------------------
(***************************************************************************)
(* MqttPublications                                                        *)
(***************************************************************************)
LEMMA ToSetIsRange == \A s : ToSet(s) = Range(s)
BY DEF ToSet, Range

LEMMA SequencesOfPublications ==
  ASSUME NEW s \in Seq(Publications)
  PROVE  /\ s # <<>> => /\ Head(s) \in Publications /\ Tail(s) \in Seq(Publications)
                        /\ Range(s) = Range(Tail(s)) \cup {Head(s)}
         /\ \A c \in Publications : /\ Append(s, c) \in Seq(Publications)
                                    /\ Range(Append(s, c)) = Range(s) \cup {c}
         /\ \A k \in DOMAIN s : /\ s[k] \in Publications
                                /\ RemoveAt(s, k) \in Seq(Publications)
                                /\ Range(s) \subseteq Range(RemoveAt(s, k)) \cup {s[k]}
<1>1. s # <<>> => /\ Head(s) \in Publications /\ Tail(s) \in Seq(Publications)
                  /\ Range(s) = Range(Tail(s)) \cup {Head(s)}
  BY TailElements
<1>2. \A c \in Publications : /\ Append(s, c) \in Seq(Publications)
                              /\ Range(Append(s, c)) = Range(s) \cup {c}
  BY AppendElements
<1>3. \A k \in DOMAIN s : /\ s[k] \in Publications
                          /\ RemoveAt(s, k) \in Seq(Publications)
                          /\ Range(s) \subseteq Range(RemoveAt(s, k)) \cup {s[k]}
  BY RemoveAtElements
<1> QED
  BY <1>1, <1>2, <1>3

LEMMA MakesPublications ==
  /\ \A a \in All, v \in 1..MaxTime : Pub(a, v) \in Publications /\ Pub(a, v).attr = a
  /\ \A a \in Attrs, r \in 0..(Retries + 1) :
       Unpub(a, r) \in Publications /\ Unpub(a, r).attr = a
  /\ \A c \in Publications :
       /\ c.attr \in All /\ c.op \in {"pub", "unpub"}
       /\ c.op = "pub" => c.value \in 1..MaxTime
       /\ c.op = "unpub" => c.attr \in Attrs /\ c.retries \in 0..(Retries + 1)
BY ClientAssumption, PublicationsAssumption DEF Publications, Pub, Unpub, All

(* What a connection publishes again and takes back. *)
LEMMA RepublishedAre ==
  ASSUME NEW attrs \in [All -> 0..MaxTime]
  PROVE  Republish(attrs) \in Seq(Publications)
<1> DEFINE present == In(attrs)
           s == SetToSeq(present)
<1>1. IsFiniteSet(present)
  <2>1. IsFiniteSet(All)
    BY FS_AddElement, ClientAssumption, PublicationsAssumption DEF All
  <2>2. present \in SUBSET All
    BY DEF In
  <2> QED
    BY <2>1, <2>2, FS_Subset
<1>2. Cardinality(present) \in Nat /\ s \in [1..Cardinality(present) -> present]
  BY <1>1, SetToSeqElements
<1>3. \A k \in 1..Cardinality(present) : s[k] \in All /\ attrs[s[k]] \in 1..MaxTime
  BY <1>2, ClientAssumption, PublicationsAssumption DEF In, Absent
<1>4. Republish(attrs) = [k \in 1..Cardinality(present) |-> Pub(s[k], attrs[s[k]])]
  BY <1>2 DEF Republish
<1> QED
  BY <1>2, <1>3, <1>4, MakesPublications

LEMMA UnpublishedAre ==
  ASSUME NEW attrs \in SUBSET Attrs
  PROVE  Unpublish(attrs) \in Seq(Publications)
<1> DEFINE s == SetToSeq(attrs)
<1>1. IsFiniteSet(attrs)
  BY FS_Subset, ClientAssumption, PublicationsAssumption
<1>2. Cardinality(attrs) \in Nat /\ s \in [1..Cardinality(attrs) -> attrs]
  BY <1>1, SetToSeqElements
<1>3. \A k \in 1..Cardinality(attrs) : s[k] \in Attrs /\ Retries \in 0..(Retries + 1)
  BY <1>2, ClientAssumption, PublicationsAssumption
<1>4. Unpublish(attrs) = [k \in 1..Cardinality(attrs) |-> Unpub(s[k], Retries)]
  BY <1>2 DEF Unpublish
<1> QED
  BY <1>2, <1>3, <1>4, MakesPublications

LEMMA PubsInitially == PubInit => PublicationsInv
<1> SUFFICES ASSUME PubInit
             PROVE  PublicationsInv
  OBVIOUS
<1>1. NoAttrs \in [All -> 0..MaxTime] /\ NoAttrs \in [All -> WillPayload..MaxTime]
  BY ClientAssumption, PublicationsAssumption DEF NoAttrs, Absent, WillPayload
<1> QED
  <2>0. <<>> \in Seq(Publications)
    OBVIOUS
  <2>1. PubTypeOK
    <3>1. /\ calls = <<>> /\ timers = <<>> /\ attrsToRemove = {} /\ connected = FALSE /\ running = FALSE
          /\ publishedAttrs = NoAttrs /\ attrsToPublish = NoAttrs /\ retained = NoAttrs
      BY DEF PubInit
    <3>2. time \in 0..MaxTime /\ errors \in 0..MaxErrors /\ drops \in 0..MaxDrops
      BY ClientAssumption, PublicationsAssumption DEF PubInit
    <3> QED
      BY <1>1, <2>0, <3>1, <3>2 DEF PubTypeOK
  <2>2. ~running /\ ~connected
    BY DEF PubInit
  <2> QED
    BY <2>1, <2>2 DEF PublicationsInv, StatusNotForgotten, BooksAreRight

LEMMA PubsApplication ==
  ASSUME PublicationsInv,
         registerAndDiscover \/ \E a \in Attrs : addAttributes(a) \/ removeAttributes(a)
  PROVE  PublicationsInv'
<1> USE ClientAssumption, PublicationsAssumption DEF Absent, bookVars
<1>0. PubTypeOK /\ StatusNotForgotten /\ BooksAreRight
  BY DEF PublicationsInv
<1>1. CASE registerAndDiscover
  <2>1. attrsToPublish' = [NoAttrs EXCEPT ![Status] = time + 1] /\ time + 1 \in 1..MaxTime
        /\ attrsToPublish' \in [All -> 0..MaxTime] /\ attrsToPublish'[Status] # Absent
    BY <1>0, <1>1 DEF registerAndDiscover, NoAttrs, All, PubTypeOK
  <2>2. PubTypeOK'
    BY <1>0, <1>1, <2>1 DEF registerAndDiscover, PubTypeOK
  <2>3. StatusNotForgotten'
    BY <2>1 DEF StatusNotForgotten, In, All
  <2>4. BooksAreRight'
    BY <1>0, <1>1, ToSetIsRange DEF registerAndDiscover, BooksAreRight, In, Pending
  <2> QED
    BY <2>2, <2>3, <2>4 DEF PublicationsInv
<1>2. ASSUME NEW a \in Attrs, addAttributes(a) \/ removeAttributes(a) PROVE PublicationsInv'
  <2>1. a \in All /\ a # Status /\ time + 1 \in 1..MaxTime /\ Retries \in 0..(Retries + 1)
    BY <1>0, <1>2 DEF addAttributes, removeAttributes, All, PubTypeOK
  <2>2. /\ UNCHANGED <<running, publishedAttrs, connected, timers, errors, drops, retained>>
        /\ time' = time + 1
        /\ attrsToRemove' \subseteq Attrs
    BY <1>0, <1>2 DEF addAttributes, removeAttributes, PubTypeOK
  <2>3. /\ attrsToPublish' \in [All -> 0..MaxTime]
        /\ attrsToPublish'[Status] = attrsToPublish[Status]
    <3>1. attrsToPublish' \in {attrsToPublish, [attrsToPublish EXCEPT ![a] = time + 1],
                              [attrsToPublish EXCEPT ![a] = Absent]}
      BY <1>2 DEF addAttributes, removeAttributes
    <3>2. attrsToPublish \in [All -> 0..MaxTime] /\ time + 1 \in 0..MaxTime /\ Absent \in 0..MaxTime
      BY <1>0, <2>1 DEF PubTypeOK
    <3>3. \A v \in 0..MaxTime : /\ [attrsToPublish EXCEPT ![a] = v] \in [All -> 0..MaxTime]
                                /\ [attrsToPublish EXCEPT ![a] = v][Status] = attrsToPublish[Status]
      BY <2>1, <3>2 DEF All
    <3>4. CASE attrsToPublish' = attrsToPublish
      BY <3>2, <3>4
    <3>5. ASSUME NEW v \in 0..MaxTime, attrsToPublish' = [attrsToPublish EXCEPT ![a] = v]
          PROVE  /\ attrsToPublish' \in [All -> 0..MaxTime]
                 /\ attrsToPublish'[Status] = attrsToPublish[Status]
      BY <3>3, <3>5
    <3> QED
      BY <3>1, <3>2, <3>4, <3>5
  <2>4. calls' \in Seq(Publications) /\ Range(calls) \subseteq Range(calls')
    <3>1. calls' \in {calls, Append(calls, Pub(a, time + 1)), Append(calls, Unpub(a, Retries))}
      BY <1>2 DEF addAttributes, removeAttributes
    <3>2. Pub(a, time + 1) \in Publications /\ Unpub(a, Retries) \in Publications
      BY <2>1, MakesPublications
    <3>3. calls \in Seq(Publications)
      BY <1>0 DEF PubTypeOK
    <3>4. ASSUME NEW c \in Publications
          PROVE  Append(calls, c) \in Seq(Publications) /\ Range(calls) \subseteq Range(Append(calls, c))
      BY <3>3, SequencesOfPublications
    <3> QED
      BY <3>1, <3>2, <3>3, <3>4
  <2>5. PubTypeOK'
    BY <1>0, <2>1, <2>2, <2>3, <2>4 DEF PubTypeOK
  <2>6. StatusNotForgotten'
    BY <1>0, <2>2, <2>3 DEF StatusNotForgotten, In
  <2>7. BooksAreRight'
    BY <1>0, <2>2, <2>4, ToSetIsRange DEF BooksAreRight, In, Pending
  <2> QED
    BY <2>5, <2>6, <2>7 DEF PublicationsInv
<1> QED
  BY <1>1, <1>2

LEMMA PubsConnect ==
  ASSUME PublicationsInv, ConnectPub
  PROVE  PublicationsInv'
<1> DEFINE again == [a \in All |-> IF publishedAttrs[a] # Absent THEN publishedAttrs[a]
                                                                ELSE attrsToPublish[a]]
<1>0. PubTypeOK /\ StatusNotForgotten
  BY DEF PublicationsInv
<1>1. again \in [All -> 0..MaxTime] /\ NoAttrs \in [All -> 0..MaxTime]
  BY <1>0, ClientAssumption, PublicationsAssumption DEF PubTypeOK, NoAttrs, Absent
<1>2. /\ running /\ running' = running /\ connected' = TRUE
      /\ attrsToPublish' = again /\ publishedAttrs' = NoAttrs
      /\ calls' = calls \o Republish(again) \o Unpublish(attrsToRemove)
      /\ UNCHANGED <<time, attrsToRemove, timers, errors, drops, retained>>
  BY DEF ConnectPub
<1>3. calls' \in Seq(Publications)
  <2>1. Republish(again) \in Seq(Publications) /\ Unpublish(attrsToRemove) \in Seq(Publications)
    BY <1>0, <1>1, RepublishedAre, UnpublishedAre DEF PubTypeOK
  <2>2. calls \in Seq(Publications)
    BY <1>0 DEF PubTypeOK
  <2> QED
    BY <1>2, <2>1, <2>2, ConcatTwice
<1>4. PubTypeOK'
  BY <1>0, <1>1, <1>2, <1>3 DEF PubTypeOK
<1>5. StatusNotForgotten'
  BY <1>0, <1>2 DEF StatusNotForgotten, In
<1>6. BooksAreRight'
  BY <1>2 DEF BooksAreRight, In, NoAttrs
<1> QED
  BY <1>4, <1>5, <1>6 DEF PublicationsInv

(* A publication that went well is kept by the broker as it is booked. *)
LEMMA PubsAnswer ==
  ASSUME PublicationsInv, Answer
  PROVE  PublicationsInv'
<1> DEFINE c == Head(calls)
<1>0. PubTypeOK /\ StatusNotForgotten /\ BooksAreRight
  BY DEF PublicationsInv
<1>1. c \in Publications /\ calls' \in Seq(Publications) /\ Range(calls) = Range(calls') \cup {c}
  BY <1>0, SequencesOfPublications DEF Answer, PubTypeOK
<1>2. /\ c.attr \in All /\ c.op \in {"pub", "unpub"}
      /\ c.op = "pub" => c.value \in 1..MaxTime
      /\ c.op = "unpub" => c.attr \in Attrs
  BY <1>1, MakesPublications
<1>3. /\ UNCHANGED <<time, running, connected, timers, errors, drops>>
      /\ retained' = Keep(c) /\ Booked(c)
  BY DEF Answer
<1> HIDE DEF c
<1>4. c.op = "pub" => c.value \in 0..MaxTime /\ c.value \in WillPayload..MaxTime /\ c.value # Absent
  BY <1>2, ClientAssumption, PublicationsAssumption DEF Absent, WillPayload
<1>5. Absent \in 0..MaxTime /\ Absent \in WillPayload..MaxTime
  BY ClientAssumption, PublicationsAssumption DEF Absent, WillPayload
<1>6. retained' \in [All -> WillPayload..MaxTime]
  BY <1>0, <1>2, <1>3, <1>4, <1>5 DEF Keep, PubTypeOK
<1>7. CASE c.op = "pub"
  <2>1. /\ publishedAttrs' = [publishedAttrs EXCEPT ![c.attr] = c.value]
        /\ attrsToPublish' = [attrsToPublish EXCEPT ![c.attr] = Absent]
        /\ attrsToRemove' = attrsToRemove
        /\ retained' = [retained EXCEPT ![c.attr] = c.value]
    BY <1>3, <1>7 DEF Booked, Keep
  <2>2. PubTypeOK'
    BY <1>0, <1>1, <1>2, <1>3, <1>4, <1>5, <1>6, <1>7, <2>1 DEF PubTypeOK
  <2>3. StatusNotForgotten'
    BY <1>0, <1>2, <1>3, <1>4, <1>7, <2>1 DEF StatusNotForgotten, In, PubTypeOK, All
  <2>4. BooksAreRight'
    <3> SUFFICES ASSUME connected', NEW a \in In(publishedAttrs'), retained'[a] # publishedAttrs'[a]
                 PROVE  Pending(a)'
      BY DEF BooksAreRight, In
    <3>1. a \in All /\ a # c.attr /\ publishedAttrs'[a] = publishedAttrs[a] /\ retained'[a] = retained[a]
      BY <1>0, <1>2, <2>1 DEF In, PubTypeOK
    <3>2. Pending(a)
      BY <1>0, <1>3, <3>1 DEF BooksAreRight, In
    <3> QED
      BY <1>1, <1>3, <3>1, <3>2, ToSetIsRange DEF Pending
  <2> QED
    BY <2>2, <2>3, <2>4 DEF PublicationsInv
<1>8. CASE c.op = "unpub"
  <2>1. /\ publishedAttrs' = [publishedAttrs EXCEPT ![c.attr] = Absent]
        /\ attrsToPublish' = attrsToPublish
        /\ attrsToRemove' = attrsToRemove \ {c.attr}
        /\ retained' = [retained EXCEPT ![c.attr] = Absent]
    BY <1>3, <1>8 DEF Booked, Keep
  <2>2. PubTypeOK'
    BY <1>0, <1>1, <1>2, <1>3, <1>5, <1>6, <2>1 DEF PubTypeOK
  <2>3. StatusNotForgotten'
    BY <1>0, <1>2, <1>3, <1>8, <2>1, ClientAssumption, PublicationsAssumption
       DEF StatusNotForgotten, In, PubTypeOK, All
  <2>4. BooksAreRight'
    <3> SUFFICES ASSUME connected', NEW a \in In(publishedAttrs'), retained'[a] # publishedAttrs'[a]
                 PROVE  Pending(a)'
      BY DEF BooksAreRight, In
    <3>1. a \in All /\ a # c.attr /\ publishedAttrs'[a] = publishedAttrs[a] /\ retained'[a] = retained[a]
      BY <1>0, <1>2, <2>1 DEF In, PubTypeOK
    <3>2. Pending(a)
      BY <1>0, <1>3, <3>1 DEF BooksAreRight, In
    <3> QED
      BY <1>1, <1>3, <3>1, <3>2, ToSetIsRange DEF Pending
  <2> QED
    BY <2>2, <2>3, <2>4 DEF PublicationsInv
<1> QED
  BY <1>2, <1>7, <1>8

LEMMA PubsFail ==
  ASSUME PublicationsInv, FailPub
  PROVE  PublicationsInv'
<1> DEFINE c == Head(calls)
<1>0. PubTypeOK /\ StatusNotForgotten /\ BooksAreRight
  BY DEF PublicationsInv
<1>1. c \in Publications /\ calls' \in Seq(Publications) /\ Range(calls) = Range(calls') \cup {c}
  BY <1>0, SequencesOfPublications DEF FailPub, PubTypeOK
<1>2. /\ c.attr \in All /\ c.op \in {"pub", "unpub"}
      /\ c.op = "pub" => c.value \in 1..MaxTime
      /\ c.op = "unpub" => c.attr \in Attrs /\ c.retries \in 0..(Retries + 1)
  BY <1>1, MakesPublications
<1>3. /\ UNCHANGED <<time, running, connected, drops, publishedAttrs, attrsToPublish, attrsToRemove>>
      /\ errors' = errors + 1 /\ errors < MaxErrors
      /\ retained' \in {retained, Keep(c)} /\ BackOffPub(c)
  BY DEF FailPub, bookVars
<1> HIDE DEF c
<1>4. PICK t \in Publications : timers' = Append(timers, t) /\ t.attr = c.attr
  <2>1. CASE c.op = "pub"
    BY <1>1, <1>3, <2>1 DEF BackOffPub
  <2>2. CASE c.op = "unpub" /\ c.retries > 0
    <3>1. c.retries - 1 \in 0..(Retries + 1)
      BY <1>2, <2>2, ClientAssumption, PublicationsAssumption
    <3> QED
      BY <1>2, <1>3, <2>2, <3>1, MakesPublications DEF BackOffPub
  <2>3. CASE c.op = "unpub" /\ ~(c.retries > 0)
    <3>1. Retries + 1 \in 0..(Retries + 1)
      BY ClientAssumption, PublicationsAssumption
    <3> QED
      BY <1>2, <1>3, <2>3, <3>1, MakesPublications DEF BackOffPub
  <2> QED
    BY <1>2, <2>1, <2>2, <2>3
<1>5. timers' \in Seq(Publications) /\ Range(timers') = Range(timers) \cup {t}
  BY <1>0, <1>4, SequencesOfPublications DEF PubTypeOK
<1>6. /\ retained' \in [All -> WillPayload..MaxTime]
      /\ \A a \in All : a # c.attr => retained'[a] = retained[a]
  <2>1. Absent \in WillPayload..MaxTime /\ (c.op = "pub" => c.value \in WillPayload..MaxTime)
    BY <1>2, ClientAssumption, PublicationsAssumption DEF Absent, WillPayload
  <2> QED
    BY <1>0, <1>2, <1>3, <2>1 DEF Keep, PubTypeOK
<1>7. errors' \in 0..MaxErrors
  BY <1>0, <1>3, ClientAssumption, PublicationsAssumption DEF PubTypeOK
<1>8. PubTypeOK' /\ StatusNotForgotten'
  BY <1>0, <1>1, <1>3, <1>5, <1>6, <1>7 DEF PubTypeOK, StatusNotForgotten, In
<1>9. BooksAreRight'
  <2> SUFFICES ASSUME connected', NEW a \in In(publishedAttrs), retained'[a] # publishedAttrs[a]
               PROVE  Pending(a)'
    BY <1>3 DEF BooksAreRight, In
  <2>1. CASE a = c.attr
    BY <1>4, <1>5, <2>1, ToSetIsRange DEF Pending
  <2>2. CASE a # c.attr
    <3>1. Pending(a)
      BY <1>0, <1>3, <1>6, <2>2 DEF BooksAreRight, In
    <3> QED
      BY <1>1, <1>5, <2>2, <3>1, ToSetIsRange DEF Pending
  <2> QED
    BY <2>1, <2>2
<1> QED
  BY <1>8, <1>9 DEF PublicationsInv

LEMMA PubsRetry ==
  ASSUME PublicationsInv, NEW k \in DOMAIN timers, RetryPub(k)
  PROVE  PublicationsInv'
<1> DEFINE t == timers[k]
<1>0. PubTypeOK /\ StatusNotForgotten /\ BooksAreRight
  BY DEF PublicationsInv
<1>1. t \in Publications /\ timers' \in Seq(Publications) /\ Range(timers) \subseteq Range(timers') \cup {t}
  BY <1>0, SequencesOfPublications DEF RetryPub, PubTypeOK
<1>2. /\ t.op = "pub" => t.value \in 1..MaxTime
      /\ t.op = "unpub" => t.attr \in Attrs
      /\ t.op \in {"pub", "unpub"} /\ Retries \in 0..(Retries + 1)
  BY <1>1, MakesPublications, ClientAssumption, PublicationsAssumption
<1>3. UNCHANGED <<time, running, connected, drops, publishedAttrs, attrsToPublish, attrsToRemove,
                  errors, retained>>
  BY DEF RetryPub, bookVars
<1>4. \/ calls' = calls /\ ~connected
      \/ \E u \in Publications : calls' = Append(calls, u) /\ u.attr = t.attr
  <2>1. \/ calls' = calls /\ ~connected
        \/ calls' = Append(calls, t)
        \/ t.op # "pub" /\ calls' = Append(calls, Unpub(t.attr, Retries))
    BY DEF RetryPub
  <2> QED
    BY <1>1, <1>2, <2>1, MakesPublications
<1> HIDE DEF t
<1>5. calls' \in Seq(Publications) /\ Range(calls) \subseteq Range(calls')
      /\ (connected => \E u \in Range(calls') : u.attr = t.attr)
  <2>0. calls \in Seq(Publications)
    BY <1>0 DEF PubTypeOK
  <2>1. CASE calls' = calls /\ ~connected
    BY <2>0, <2>1
  <2>2. ASSUME NEW u \in Publications, calls' = Append(calls, u), u.attr = t.attr
        PROVE  calls' \in Seq(Publications) /\ Range(calls') = Range(calls) \cup {u}
    BY <2>0, <2>2, SequencesOfPublications
  <2> QED
    BY <1>4, <2>1, <2>2
<1>6. PubTypeOK' /\ StatusNotForgotten'
  BY <1>0, <1>1, <1>3, <1>5 DEF PubTypeOK, StatusNotForgotten, In
<1>7. BooksAreRight'
  <2> SUFFICES ASSUME connected, NEW a \in In(publishedAttrs), retained[a] # publishedAttrs[a]
               PROVE  Pending(a)'
    BY <1>3 DEF BooksAreRight, In
  <2>1. Pending(a)
    BY <1>0 DEF BooksAreRight
  <2>2. PICK u \in Range(calls) \cup Range(timers) : u.attr = a
    BY <2>1, ToSetIsRange DEF Pending
  <2>3. u \in Range(calls') \cup Range(timers') \/ u = t
    BY <1>1, <1>5, <2>2
  <2> QED
    BY <1>5, <2>2, <2>3, ToSetIsRange DEF Pending
<1> QED
  BY <1>6, <1>7 DEF PublicationsInv

LEMMA PubsLoss ==
  ASSUME PublicationsInv, DropPub \/ Crash
  PROVE  PublicationsInv'
<1>0. PubTypeOK /\ StatusNotForgotten
  BY DEF PublicationsInv
<1>1. retained' \in [All -> WillPayload..MaxTime] /\ drops' \in 0..MaxDrops /\ connected' = FALSE
  <2>1. retained' \in {retained, [retained EXCEPT ![Status] = WillPayload]}
    BY DEF DropPub, LoseConnection, Crash
  <2>2. WillPayload \in WillPayload..MaxTime
    BY ClientAssumption, PublicationsAssumption DEF WillPayload
  <2>3. retained \in [All -> WillPayload..MaxTime]
    BY <1>0 DEF PubTypeOK
  <2>4. [retained EXCEPT ![Status] = WillPayload] \in [All -> WillPayload..MaxTime]
    BY <2>2, <2>3
  <2>5. drops' = drops + 1 /\ drops < MaxDrops /\ drops \in 0..MaxDrops /\ connected' = FALSE
    BY <1>0 DEF DropPub, LoseConnection, Crash, PubTypeOK
  <2> QED
    BY <2>1, <2>3, <2>4, <2>5, ClientAssumption, PublicationsAssumption
<1>2. BooksAreRight'
  BY <1>1 DEF BooksAreRight
<1>3. CASE DropPub
  BY <1>0, <1>1, <1>2, <1>3 DEF DropPub, LoseConnection, bookVars, PublicationsInv, PubTypeOK,
     StatusNotForgotten, In
<1>4. CASE Crash
  <2>1. NoAttrs \in [All -> 0..MaxTime]
    BY ClientAssumption, PublicationsAssumption DEF NoAttrs, Absent
  <2>2. calls' = <<>> /\ timers' = <<>> /\ running' = FALSE /\ attrsToRemove' = {}
        /\ publishedAttrs' = NoAttrs /\ attrsToPublish' = NoAttrs /\ UNCHANGED <<time, errors>>
    BY <1>4 DEF Crash
  <2>3. <<>> \in Seq(Publications)
    OBVIOUS
  <2>4. PubTypeOK'
    BY <1>0, <1>1, <2>1, <2>2, <2>3 DEF PubTypeOK
  <2> QED
    BY <1>2, <2>2, <2>4 DEF PublicationsInv, StatusNotForgotten
<1> QED
  BY <1>3, <1>4

LEMMA PubsPreserved == PublicationsInv /\ [PubNext]_pubVars => PublicationsInv'
<1> SUFFICES ASSUME PublicationsInv, [PubNext]_pubVars
             PROVE  PublicationsInv'
  OBVIOUS
<1>1. CASE PubNext
  BY <1>1, PubsApplication, PubsConnect, PubsAnswer, PubsFail, PubsRetry, PubsLoss
     DEF PubNext, RetrySomePub
<1>2. CASE UNCHANGED pubVars
  BY <1>2 DEF pubVars, bookVars, PublicationsInv, PubTypeOK, StatusNotForgotten, BooksAreRight,
     In, Pending
<1> QED
  BY <1>1, <1>2

(* However publications fail, are repeated or overtaken by removals, and   *)
(* connections, sessions and the node itself are lost: what the            *)
(* application added and did not remove is in one of the two maps, and     *)
(* while connected the broker keeps what counts as published, unless       *)
(* something is still under way.                                           *)
THEOREM PublishedIsKept == PubSpec => []PublicationsInv
<1> QED
  BY PubsInitially, PubsPreserved, PTL DEF PubSpec

-----------------------------------------------------------------------------
(***************************************************************************)
(* LocalRegistry                                                           *)
(***************************************************************************)
LocalLabels == {"down", "open", "format", "await", "hung", "idle", "load", "save", "scan"}

(* What each state of a node says of its other variables. *)
NodeOK(n) ==
  /\ InSection(n) => lock = n /\ (data[n] # NULL \/ (registered[n] /\ checkWait[n] >= Interval))
  /\ data[n] # NULL => Up(n) /\ ~registered[n]
  /\ registered[n] => Up(n) /\ store[n] # NULL
  /\ nodes[n] # NULL <=> pc[n] = "save"
  /\ scanWait[n] > 0 => n \in Watchers /\ Up(n)
  /\ pc[n] = "scan" => scanWait[n] >= Interval
  /\ lastScanAt[n] # Never => n \in Watchers /\ Up(n) /\ lastScanAt[n] <= scanWait[n]

(* What a node is about to write differs from the file in its own entry.   *)
RewriteOK(n) ==
  pc[n] = "save" => /\ nodes[n][n] # NULL
                    /\ \A m \in Nodes \ {n} : nodes[n][m] = store[m]

LocalTypes == LocalTypeOK /\ \A n \in Nodes : NodeOK(n) /\ RewriteOK(n)

(* An entry that is registered is as young as its node's last check-in.    *)
Punctual(m) ==
  /\ data[m] # NULL => data[m].lastCheckIn <= StartDelay
  /\ registered[m] => store[m].lastCheckIn <= checkWait[m] + StartDelay
  /\ pc[m] = "save" =>
       IF registered[m] THEN nodes[m][m].lastCheckIn + Interval <= checkWait[m]
                        ELSE nodes[m][m] = data[m]

(* A mark as offline is what the application was told last.                *)
MarksAreTold == \A n \in Nodes : \A m \in currentOfflineMachs[n] : view[n][m] = "offline"

(* What the application believes is remembered for the next scan.          *)
BeliefsAreKept ==
  \A n \in Nodes :
    /\ believed[n] \subseteq prevMachs[n] /\ prevMachs[n] \subseteq Present
    /\ believed[n] # {} => attrsToDiscover[n]

(* Values grow on their way from the application into the file and on to   *)
(* the application of another node.                                        *)
Stored(m) == IF store[m] = NULL THEN 0 ELSE store[m].attr
Newer(n, m, v) == heard[n][m] < v /\ Stored(m) < v

Ordered(n, m) ==
  /\ heard[n][m] <= version[m] /\ Stored(m) <= version[m]
  /\ data[m] # NULL /\ data[m].attr # 0 => data[m].attr <= version[m] /\ Newer(n, m, data[m].attr)
  /\ attrsToAdd[m] # 0 =>
       /\ attrsToAdd[m] <= version[m] /\ Newer(n, m, attrsToAdd[m])
       /\ data[m] # NULL => data[m].attr < attrsToAdd[m]
  /\ pc[m] = "save" /\ nodes[m][m].attr # 0 =>
       /\ nodes[m][m].attr <= version[m]
       /\ attrsToAdd[m] # 0 => nodes[m][m].attr < attrsToAdd[m]
       /\ Newer(n, m, nodes[m][m].attr)
          \/ (store[m] # NULL /\ nodes[m][m].attr = store[m].attr
                              /\ nodes[m][m].updatedAt = store[m].updatedAt)

Once(n, m) ==
  pc[n] # "scan" =>
    /\ lastScanAt[n] = Never => heard[n][m] = 0
    /\ store[m] # NULL /\ LooksUpdated(n, m) => heard[n][m] < store[m].attr

UpdateInv == \A n, m \in Nodes : Ordered(n, m) /\ Once(n, m)

-----------------------------------------------------------------------------
(* What a unit of time does to an entry. *)
LEMMA AgedEntry ==
  ASSUME LocalTypeOK, NEW e \in Entries
  PROVE  /\ Aged(e) \in Entries /\ Aged(e) # NULL
         /\ Aged(e).lastCheckIn <= e.lastCheckIn + 1
         /\ Aged(e).attr = e.attr /\ Aged(e).updatedAt = Aging(e.updatedAt)
<1>1. e # NULL
  BY LocalRegistryAssumption
<1>2. \A age \in 0..Old : Aging(age) \in 0..Old
  BY LocalRegistryAssumption DEF LocalTypeOK, Aging, Old, Never
<1>3. Older(e.lastCheckIn) \in 0..Overdue /\ Older(e.lastCheckIn) <= e.lastCheckIn + 1
  BY LocalRegistryAssumption DEF Older, Entries, Overdue
<1>4. Aging(e.createdAt) \in 0..Old /\ Aging(e.updatedAt) \in 0..Old
  BY <1>2 DEF Entries
<1>5. Aged(e) = [lastCheckIn |-> Older(e.lastCheckIn), createdAt |-> Aging(e.createdAt),
                 attr |-> e.attr, updatedAt |-> Aging(e.updatedAt)]
  BY <1>1 DEF Aged, Entries
<1>6. Aged(e) \in Entries
  BY <1>3, <1>4, <1>5 DEF Entries
<1> QED
  BY <1>3, <1>5, <1>6, LocalRegistryAssumption

LEMMA AgedValue ==
  ASSUME LocalTypeOK, NEW e \in Entries \cup {NULL}
  PROVE  Aged(e) \in Entries \cup {NULL} /\ (Aged(e) = NULL <=> e = NULL)
BY AgedEntry DEF Aged

(* What a check-in writes. *)
LEMMA CheckedInEntry ==
  ASSUME LocalTypeOK, NEW n \in Nodes, store[n] # NULL
  PROVE  /\ CheckedIn(n) \in Entries /\ CheckedIn(n) # NULL /\ CheckedIn(n).lastCheckIn = 0
         /\ \/ attrsToAdd[n] # 0 /\ CheckedIn(n).attr = attrsToAdd[n]
            \/ attrsToAdd[n] = 0 /\ CheckedIn(n).attr = 0
            \/ /\ attrsToAdd[n] = 0 /\ CheckedIn(n).attr = store[n].attr
               /\ CheckedIn(n).updatedAt = store[n].updatedAt
<1>1. store[n] \in Entries /\ attrsToAdd[n] \in 0..MaxAdded
  BY DEF LocalTypeOK, Files
<1>2. 0 \in 0..Overdue /\ 0 \in 0..Old /\ 0 \in 0..MaxAdded
  BY LocalRegistryAssumption DEF Overdue, Old
<1>3. CASE attrsToAdd[n] # 0
  <2>1. CheckedIn(n) = [lastCheckIn |-> 0, createdAt |-> store[n].createdAt,
                        attr |-> attrsToAdd[n], updatedAt |-> 0]
    BY <1>1, <1>3 DEF CheckedIn, Entries
  <2>2. CheckedIn(n) \in Entries
    BY <1>1, <1>2, <2>1 DEF Entries
  <2> QED
    BY <1>3, <2>1, <2>2, LocalRegistryAssumption
<1>4. CASE attrsToAdd[n] = 0
  <2> DEFINE kept == IF attrsToDelete[n] THEN 0 ELSE store[n].attr
  <2>1. CheckedIn(n) = [lastCheckIn |-> 0, createdAt |-> store[n].createdAt,
                        attr |-> kept, updatedAt |-> store[n].updatedAt]
    BY <1>1, <1>4 DEF CheckedIn, Entries
  <2>2. kept \in 0..MaxAdded
    BY <1>1, <1>2 DEF Entries
  <2>3. CheckedIn(n) \in Entries
    BY <1>1, <1>2, <2>1, <2>2 DEF Entries
  <2> QED
    BY <1>4, <2>1, <2>3, LocalRegistryAssumption
<1> QED
  BY <1>3, <1>4

LEMMA NewEntry ==
  ASSUME NEW v \in 0..MaxAdded
  PROVE  Entry(v) \in Entries /\ Entry(v) # NULL /\ Entry(v).lastCheckIn = 0 /\ Entry(v).attr = v
<1>1. Entry(v) \in Entries
  BY LocalRegistryAssumption DEF Entry, Entries, Overdue, Old
<1> QED
  BY <1>1, LocalRegistryAssumption DEF Entry

-----------------------------------------------------------------------------
(* Types *)

LEMMA LocalTypesInitially == LocalInit => LocalTypes
<1> SUFFICES ASSUME LocalInit
             PROVE  LocalTypes
  OBVIOUS
<1>1. /\ 0 \in 0..MaxAdded /\ 0 \in 0..MaxCrashes /\ 0 \in 0..(Interval + MaxDelay)
      /\ Never \in 0..(Old - 1) \cup {Never}
  BY LocalRegistryAssumption
<1>2. LocalTypeOK
  BY <1>1 DEF LocalInit, LocalTypeOK, Files
<1>3. \A n \in Nodes : NodeOK(n) /\ RewriteOK(n)
  BY DEF LocalInit, NodeOK, RewriteOK, InSection, Up
<1> QED
  BY <1>2, <1>3 DEF LocalTypes

LEMMA FormatKeeps ==
  ASSUME LocalTypeOK, NEW n \in Nodes, Format(n), ~emptied'
  PROVE  store' = store
BY DEF Format, LocalTypeOK, Files

(* A node that has the lock or waits for it, and goes no further yet.      *)
StillStarting(n) ==
  /\ pc[n] \in {"down", "open", "await"}
  /\ pc' \in {[pc EXCEPT ![n] = l] : l \in {"open", "await", "format", "hung"}}
  /\ initLock' \in {initLock, "held"} /\ overtaken' \in BOOLEAN
  /\ UNCHANGED <<initialized, emptied, store, lock, ownVars, scanVars, timeVars, appVars>>

(* A node that has its storage. *)
Started(n) ==
  /\ pc[n] \in {"open", "format", "await"} /\ KickStart(n) /\ UNCHANGED store
  /\ initialized' \in BOOLEAN /\ initLock' \in {"free", "held", "left"}
  /\ emptied' \in BOOLEAN

LEMMA StartSteps ==
  ASSUME LocalTypeOK, NEW n \in Nodes,
         registerLocally(n) \/ Open(n) \/ Format(n) \/ Await(n), ~emptied'
  PROVE  StillStarting(n) \/ Started(n)
<1> USE DEF startVars, storageVars
<1>1. CASE registerLocally(n)
  BY <1>1 DEF registerLocally, StillStarting, LocalTypeOK
<1>2. CASE Open(n)
  BY <1>2 DEF Open, StillStarting, Started, LocalTypeOK
<1>3. CASE Format(n)
  BY <1>3, FormatKeeps DEF Format, Started
<1>4. CASE Await(n)
  BY <1>4 DEF Await, StillStarting, Started, LocalTypeOK
<1> QED
  BY <1>1, <1>2, <1>3, <1>4

LEMMA LocalTypesStepStart ==
  ASSUME LocalTypes, NEW n \in Nodes,
         registerLocally(n) \/ Open(n) \/ Format(n) \/ Await(n), ~emptied'
  PROVE  LocalTypes'
<1> USE LocalRegistryAssumption
    DEF Files, LocalLabels, startVars, storageVars, ownVars, scanVars, timeVars, appVars, InSection, Up, Never, Old
<1>1. CASE StillStarting(n)
  <2>1. PICK l \in {"open", "await", "format", "hung"} : pc' = [pc EXCEPT ![n] = l]
    BY <1>1 DEF StillStarting
  <2>2. UNCHANGED <<initialized, emptied, store, lock, ownVars, scanVars, timeVars, appVars>>
        /\ initLock' \in {initLock, "held"} /\ overtaken' \in BOOLEAN
        /\ pc[n] \in {"down", "open", "await"}
    BY <1>1 DEF StillStarting
  <2>3. pc' \in [Nodes -> LocalLabels]
    BY <2>1 DEF LocalTypes, LocalTypeOK
  <2>4. LocalTypeOK'
    BY <2>2, <2>3 DEF LocalTypes, LocalTypeOK
  <2>5. \A k \in Nodes : NodeOK(k)' /\ RewriteOK(k)'
    BY <2>1, <2>2 DEF LocalTypes, LocalTypeOK, NodeOK, RewriteOK
  <2> QED
    BY <2>4, <2>5 DEF LocalTypes
<1>2. CASE Started(n)
  <2>1. pc[n] \in {"open", "format", "await"} /\ KickStart(n) /\ UNCHANGED store
        /\ initialized' \in BOOLEAN /\ initLock' \in {"free", "held", "left"}
        /\ emptied' \in BOOLEAN
    BY <1>2 DEF Started
  <2>2. Entry(attrsToAdd[n]) \in Entries /\ Entry(attrsToAdd[n]) # NULL
    BY NewEntry DEF LocalTypes, LocalTypeOK
  <2>3. LocalTypeOK'
    BY <2>1, <2>2 DEF KickStart, LocalTypes, LocalTypeOK
  <2>4. \A k \in Nodes : NodeOK(k)' /\ RewriteOK(k)'
    BY <2>1, <2>2 DEF KickStart, LocalTypes, LocalTypeOK, NodeOK, RewriteOK
  <2> QED
    BY <2>3, <2>4 DEF LocalTypes
<1> QED
  BY <1>1, <1>2, StartSteps DEF LocalTypes

LEMMA LocalTypesStepWrite ==
  ASSUME LocalTypes, NEW n \in Nodes,
         Lock(n) \/ Load(n) \/ SaveAndUnlock(n)
  PROVE  LocalTypes'
<1> USE LocalRegistryAssumption
    DEF Files, LocalLabels, startVars, storageVars, ownVars, scanVars, timeVars, appVars, InSection, Up, Never, Old
<1>1. CASE Lock(n)
  <2>1. LocalTypeOK'
    BY <1>1 DEF Lock, LocalTypes, LocalTypeOK
  <2>2. \A k \in Nodes : NodeOK(k)' /\ RewriteOK(k)'
    BY <1>1 DEF Lock, Held, WantsLock, LocalTypes, LocalTypeOK, NodeOK, RewriteOK
  <2> QED
    BY <2>1, <2>2 DEF LocalTypes
<1>2. CASE Load(n)
  <2>1. PICK e \in Entries : e # NULL /\ nodes' = [nodes EXCEPT ![n] = [store EXCEPT ![n] = e]]
    BY <1>2, CheckedInEntry DEF Load, LocalTypes, LocalTypeOK, NodeOK
  <2>2. [store EXCEPT ![n] = e] \in Files
    BY DEF LocalTypes, LocalTypeOK, Files
  <2>3. [store EXCEPT ![n] = e][n] = e /\ \A m \in Nodes \ {n} : [store EXCEPT ![n] = e][m] = store[m]
    BY DEF LocalTypes, LocalTypeOK
  <2>4. LocalTypeOK'
    <3>1. nodes' \in [Nodes -> Files \cup {NULL}]
      BY <2>1, <2>2 DEF LocalTypes, LocalTypeOK
    <3>2. pc' \in [Nodes -> LocalLabels]
      BY <1>2 DEF Load, LocalTypes, LocalTypeOK
    <3>3. /\ attrsToAdd' \in {attrsToAdd, [attrsToAdd EXCEPT ![n] = 0]}
          /\ attrsToDelete' \in {attrsToDelete, [attrsToDelete EXCEPT ![n] = FALSE]}
      BY <1>2 DEF Load
    <3>4. attrsToAdd' \in [Nodes -> 0..MaxAdded]
      <4>1. attrsToAdd \in [Nodes -> 0..MaxAdded]
        BY DEF LocalTypes, LocalTypeOK
      <4>2. [attrsToAdd EXCEPT ![n] = 0] \in [Nodes -> 0..MaxAdded]
        BY <4>1
      <4> QED
        BY <3>3, <4>1, <4>2
    <3>5. attrsToDelete' \in [Nodes -> BOOLEAN]
      <4>1. attrsToDelete \in [Nodes -> BOOLEAN]
        BY DEF LocalTypes, LocalTypeOK
      <4>2. [attrsToDelete EXCEPT ![n] = FALSE] \in [Nodes -> BOOLEAN]
        BY <4>1
      <4> QED
        BY <3>3, <4>1, <4>2
    <3> QED
      BY <1>2, <3>1, <3>2, <3>4, <3>5 DEF Load, LocalTypes, LocalTypeOK
  <2>5. \A k \in Nodes : NodeOK(k)' /\ RewriteOK(k)'
    <3> SUFFICES ASSUME NEW k \in Nodes
                 PROVE  NodeOK(k)' /\ RewriteOK(k)'
      OBVIOUS
    <3>1. NodeOK(k) /\ RewriteOK(k)
      BY DEF LocalTypes
    <3>2. CASE k = n
      <4>1. nodes'[n] = [store EXCEPT ![n] = e] /\ pc[n] = "load" /\ pc'[n] = "save"
        BY <1>2, <2>1 DEF Load, LocalTypes, LocalTypeOK
      <4>2. UNCHANGED <<store, lock, data, registered, scanVars, timeVars>>
        BY <1>2 DEF Load
      <4>3. RewriteOK(n)'
        BY <2>1, <2>3, <4>1, <4>2 DEF RewriteOK
      <4>4. NodeOK(n)'
        BY <2>2, <3>1, <3>2, <4>1, <4>2 DEF NodeOK
      <4> QED
        BY <3>2, <4>3, <4>4
    <3>3. CASE k # n
      BY <1>2, <3>1, <3>3 DEF Load, LocalTypes, LocalTypeOK, NodeOK, RewriteOK
    <3> QED
      BY <3>2, <3>3
  <2> QED
    BY <2>4, <2>5 DEF LocalTypes
<1>3. CASE SaveAndUnlock(n)
  <2>1. NextCheckIn(n) \in 0..(Interval + MaxDelay)
    BY <1>3 DEF SaveAndUnlock, NextCheckIn, LocalTypes, LocalTypeOK, NodeOK
  <2>2. LocalTypeOK'
    BY <1>3, <2>1 DEF SaveAndUnlock, LocalTypes, LocalTypeOK, NodeOK
  <2>3. \A k \in Nodes \ {n} : ~InSection(k)
    BY <1>3 DEF SaveAndUnlock, LocalTypes, NodeOK
  <2>4. store'[n] # NULL /\ \A m \in Nodes \ {n} : store'[m] = store[m]
    BY <1>3 DEF SaveAndUnlock, LocalTypes, RewriteOK
  <2>5. \A k \in Nodes : NodeOK(k)' /\ RewriteOK(k)'
    BY <1>3, <2>1, <2>3, <2>4 DEF SaveAndUnlock, LocalTypes, LocalTypeOK, NodeOK, RewriteOK
  <2> QED
    BY <2>2, <2>5 DEF LocalTypes
<1> QED
  BY <1>1, <1>2, <1>3

LEMMA LocalTypesStepScan ==
  ASSUME LocalTypes, NEW n \in Nodes, Scan(n) \/ ScanEnd(n)
  PROVE  LocalTypes'
<1> USE LocalRegistryAssumption
    DEF Files, LocalLabels, startVars, storageVars, ownVars, scanVars, timeVars, appVars, InSection, Up, Never, Old
<1>1. CASE Scan(n)
  <2>1. /\ Found(n) \subseteq Nodes /\ Updated(n) \subseteq Found(n)
        /\ Online(n) \subseteq Nodes /\ Offline(n) \subseteq Nodes /\ Remembered(n) \subseteq Nodes
    BY DEF Found, Updated, Online, Offline, Remembered, Present
  <2>2. \A m \in Updated(n) : store[m].attr \in 0..MaxAdded
    BY DEF Updated, Found, Present, LocalTypes, LocalTypeOK, Entries
  <2>3. \A m \in Nodes : heard[n][m] \in 0..MaxAdded /\ view[n][m] \in {"unknown", "online", "offline"}
    BY DEF LocalTypes, LocalTypeOK
  <2>4. heard' \in [Nodes -> [Nodes -> 0..MaxAdded]]
    BY <1>1, <2>2, <2>3 DEF Scan, LocalTypes, LocalTypeOK
  <2>5. view' \in [Nodes -> [Nodes -> {"unknown", "online", "offline"}]]
    BY <1>1, <2>3 DEF Scan, LocalTypes, LocalTypeOK
  <2>6. /\ currentOfflineMachs' \in [Nodes -> SUBSET Nodes] /\ prevMachs' \in [Nodes -> SUBSET Nodes]
        /\ believed' \in [Nodes -> SUBSET Nodes]
    BY <1>1, <2>1 DEF Scan, LocalTypes, LocalTypeOK
  <2>7. LocalTypeOK'
    BY <1>1, <2>4, <2>5, <2>6 DEF Scan, LocalTypes, LocalTypeOK
  <2>8. \A k \in Nodes : NodeOK(k)' /\ RewriteOK(k)'
    BY <1>1 DEF Scan, Scans, LocalTypes, LocalTypeOK, NodeOK, RewriteOK
  <2> QED
    BY <2>7, <2>8 DEF LocalTypes
<1>2. CASE ScanEnd(n)
  <2>1. scanWait[n] - Interval \in 0..(Interval + MaxDelay)
    BY <1>2 DEF ScanEnd, LocalTypes, LocalTypeOK, NodeOK
  <2>2. LocalTypeOK'
    BY <1>2, <2>1 DEF ScanEnd, LocalTypes, LocalTypeOK
  <2>3. \A k \in Nodes : NodeOK(k)' /\ RewriteOK(k)'
    BY <1>2, <2>1 DEF ScanEnd, LocalTypes, LocalTypeOK, NodeOK, RewriteOK
  <2> QED
    BY <2>2, <2>3 DEF LocalTypes
<1> QED
  BY <1>1, <1>2

LEMMA LocalTypesStepApp ==
  ASSUME LocalTypes, NEW n \in Nodes,
         \/ addLocally(n) \/ removeLocally(n)
         \/ discoverLocally(n) \/ stopDiscoveringLocally(n)
         \/ CrashNode(n)
  PROVE  LocalTypes'
<1> USE LocalRegistryAssumption
    DEF Files, LocalLabels, startVars, storageVars, ownVars, scanVars, timeVars, appVars, InSection, Up, Never, Old
<1>1. CASE addLocally(n)
  BY <1>1 DEF addLocally, LocalTypes, LocalTypeOK, NodeOK, RewriteOK
<1>2. CASE removeLocally(n)
  BY <1>2 DEF removeLocally, LocalTypes, LocalTypeOK, NodeOK, RewriteOK
<1>3. CASE discoverLocally(n)
  BY <1>3 DEF discoverLocally, LocalTypes, LocalTypeOK, NodeOK, RewriteOK
<1>4. CASE stopDiscoveringLocally(n)
  BY <1>4 DEF stopDiscoveringLocally, LocalTypes, LocalTypeOK, NodeOK, RewriteOK
<1>5. CASE CrashNode(n)
  <2>1. LocalTypeOK'
    BY <1>5 DEF CrashNode, LocalTypes, LocalTypeOK
  <2>2. \A k \in Nodes : NodeOK(k)' /\ RewriteOK(k)'
    BY <1>5 DEF CrashNode, LocalTypes, LocalTypeOK, NodeOK, RewriteOK
  <2> QED
    BY <2>1, <2>2 DEF LocalTypes
<1> QED
  BY <1>1, <1>2, <1>3, <1>4, <1>5

LEMMA LocalTypesStepTick ==
  ASSUME LocalTypes, Tick
  PROVE  LocalTypes'
<1> USE LocalRegistryAssumption
    DEF Files, LocalLabels, startVars, storageVars, ownVars, scanVars, timeVars, appVars, InSection, Up, Never, Old
<1>1. LocalTypeOK
  BY DEF LocalTypes
<1>2. \A e \in Entries \cup {NULL} : Aged(e) \in Entries \cup {NULL} /\ (Aged(e) = NULL <=> e = NULL)
  BY <1>1, AgedValue
<1>3. store' \in Files /\ data' \in Files
  BY <1>1, <1>2 DEF Tick, LocalTypeOK
<1>4. \A k \in Nodes : nodes[k] # NULL =>
        nodes'[k] = [m \in Nodes |-> Aged(nodes[k][m])] /\ nodes'[k] \in Files
  BY <1>1, <1>2 DEF Tick, LocalTypeOK
<1>5. \A k \in Nodes : nodes[k] = NULL => nodes'[k] = NULL
  BY DEF Tick
<1>6. \A k \in Nodes : (nodes'[k] # NULL <=> nodes[k] # NULL)
  BY <1>4, <1>5
<1>7. \A k \in Nodes : /\ lastScanAt[k] # Never => lastScanAt[k] <= scanWait[k] /\ k \in Watchers /\ Up(k)
                       /\ Up(k) => scanWait[k] < Interval + MaxDelay
                       /\ registered[k] => Up(k) /\ checkWait[k] < Interval + MaxDelay
  BY <1>1 DEF Tick, Late, LocalTypes, LocalTypeOK, NodeOK
<1>8. lastScanAt' \in [Nodes -> 0..(Old - 1) \cup {Never}]
  BY <1>1, <1>7 DEF Tick, LocalTypeOK
<1>9. checkWait' \in [Nodes -> 0..(Interval + MaxDelay)] /\ scanWait' \in [Nodes -> 0..(Interval + MaxDelay)]
  BY <1>1, <1>7 DEF Tick, LocalTypeOK
<1>10. LocalTypeOK'
  BY <1>1, <1>3, <1>4, <1>5, <1>6, <1>8, <1>9 DEF Tick, LocalTypeOK
<1>11. \A k \in Nodes : (data'[k] # NULL <=> data[k] # NULL) /\ (store'[k] # NULL <=> store[k] # NULL)
  BY <1>1, <1>2 DEF Tick, LocalTypeOK
<1>12. \A k \in Nodes : NodeOK(k)'
  BY <1>1, <1>6, <1>7, <1>11 DEF Tick, LocalTypes, LocalTypeOK, NodeOK
<1>13. \A k \in Nodes : RewriteOK(k)'
  <2> SUFFICES ASSUME NEW k \in Nodes, pc'[k] = "save"
               PROVE  nodes'[k][k] # NULL /\ \A m \in Nodes \ {k} : nodes'[k][m] = store'[m]
    BY DEF RewriteOK
  <2>1. pc[k] = "save" /\ nodes[k] # NULL /\ nodes[k] \in Files
    BY <1>1 DEF Tick, LocalTypes, LocalTypeOK, NodeOK
  <2>2. \A m \in Nodes : nodes'[k][m] = Aged(nodes[k][m]) /\ store'[m] = Aged(store[m])
    BY <1>4, <2>1 DEF Tick
  <2>3. nodes[k][k] \in Entries /\ nodes[k][k] # NULL /\ \A m \in Nodes \ {k} : nodes[k][m] = store[m]
    BY <2>1 DEF LocalTypes, RewriteOK
  <2> QED
    BY <1>2, <2>2, <2>3
<1> QED
  BY <1>10, <1>12, <1>13 DEF LocalTypes

LEMMA LocalTypesStep ==
  ASSUME LocalTypes, [LocalNext]_localVars, ~emptied'
  PROVE  LocalTypes'
<1>1. CASE LocalNext
  BY <1>1, LocalTypesStepStart, LocalTypesStepWrite, LocalTypesStepScan, LocalTypesStepApp,
     LocalTypesStepTick DEF LocalNext, Work, App
<1>2. CASE UNCHANGED localVars
  BY <1>2 DEF localVars, startVars, storageVars, ownVars, scanVars, timeVars, appVars,
              LocalTypes, LocalTypeOK, NodeOK, RewriteOK, InSection, Up
<1> QED
  BY <1>1, <1>2

-----------------------------------------------------------------------------
(* Who writes into the file *)

LEMMA StoreSteps ==
  ASSUME LocalTypeOK, [LocalNext]_localVars
  PROVE  \/ UNCHANGED store \/ Tick \/ \E n \in Nodes : SaveAndUnlock(n)
         \/ emptied' /\ \E n \in Nodes : Format(n)
<1> USE DEF storageVars
<1>1. ASSUME NEW n \in Nodes, Work(n)
      PROVE  UNCHANGED store \/ SaveAndUnlock(n) \/ (emptied' /\ Format(n))
  BY <1>1, FormatKeeps DEF Work, Open, Await, Lock, Load, Scan, ScanEnd
<1>2. ASSUME NEW n \in Nodes, App(n) PROVE UNCHANGED store
  BY <1>2 DEF App, registerLocally, addLocally, removeLocally, discoverLocally,
              stopDiscoveringLocally
<1>3. ASSUME NEW n \in Nodes, CrashNode(n) PROVE UNCHANGED store
  BY <1>3 DEF CrashNode
<1>4. CASE UNCHANGED localVars
  BY <1>4 DEF localVars
<1> QED
  BY <1>1, <1>2, <1>3, <1>4 DEF LocalNext

LEMMA SavesOwnEntry ==
  ASSUME LocalTypes, NEW n \in Nodes, SaveAndUnlock(n)
  PROVE  /\ pc[n] = "save" /\ store'[n] = nodes[n][n] /\ store'[n] # NULL
         /\ \A m \in Nodes \ {n} : store'[m] = store[m]
BY DEF SaveAndUnlock, LocalTypes, RewriteOK

LEMMA EntryStays ==
  ASSUME LocalTypes, [LocalNext]_localVars, ~emptied', NEW m \in Nodes, store[m] # NULL
  PROVE  store'[m] # NULL
<1>1. CASE Tick
  BY <1>1, AgedEntry DEF Tick, LocalTypes, LocalTypeOK, Files
<1>2. CASE \E n \in Nodes : SaveAndUnlock(n)
  BY <1>2, SavesOwnEntry
<1> QED
  BY <1>1, <1>2, StoreSteps DEF LocalTypes

(* Until the bins are prepared nobody has an entry; and as long as nobody  *)
(* was overtaken, one node at most has the initial lock, and the bins are  *)
(* not prepared while it prepares them.                                    *)
Unprepared ==
  ~initialized => \A n \in Nodes : store[n] = NULL /\ ~Up(n)
Preparing(n) == pc[n] \in {"open", "format"}
OnePrepares ==
  ~overtaken =>
    \A n \in Nodes : Preparing(n) =>
      /\ initLock = "held"
      /\ pc[n] = "format" => ~initialized
      /\ \A m \in Nodes \ {n} : ~Preparing(m)
StartInv == Unprepared /\ OnePrepares

LEMMA UnpreparedStep ==
  ASSUME LocalTypes, Unprepared, [LocalNext]_localVars
  PROVE  Unprepared'
<1> USE DEF startVars, storageVars
<1>0. LocalTypeOK
  BY DEF LocalTypes
<1> SUFFICES ASSUME ~initialized', NEW m \in Nodes
             PROVE  (store[m] = NULL /\ ~Up(m))'
  BY DEF Unprepared
<1>1. ASSUME NEW n \in Nodes, Work(n) PROVE ~initialized
  BY <1>1 DEF Work, Open, Prepared, Format, Await, Lock, Load, SaveAndUnlock, Scan, ScanEnd
<1>2. ASSUME NEW n \in Nodes, App(n) \/ CrashNode(n) PROVE ~initialized
  BY <1>2 DEF App, registerLocally, addLocally, removeLocally, discoverLocally,
              stopDiscoveringLocally, CrashNode
<1>3. ~initialized
  BY <1>1, <1>2 DEF LocalNext, Tick, localVars
<1>4. store[m] = NULL /\ ~Up(m) /\ \A n \in Nodes : ~Up(n)
  BY <1>3 DEF Unprepared
<1>5. ASSUME NEW n \in Nodes, Work(n) PROVE (store[m] = NULL /\ ~Up(m))'
  <2>1. ~(Lock(n) \/ Load(n) \/ SaveAndUnlock(n) \/ Scan(n) \/ ScanEnd(n))
    BY <1>4 DEF Up, Lock, WantsLock, Load, SaveAndUnlock, Scan, Scans, ScanEnd
  <2>2. ~Format(n)
    BY DEF Format
  <2> QED
    BY <1>0, <1>3, <1>4, <1>5, <2>1, <2>2 DEF Work, Open, Prepared, Await, Up, LocalTypeOK
<1>6. ASSUME NEW n \in Nodes, App(n) \/ CrashNode(n) PROVE (store[m] = NULL /\ ~Up(m))'
  BY <1>0, <1>4, <1>6 DEF App, registerLocally, addLocally, removeLocally, discoverLocally,
              stopDiscoveringLocally, CrashNode, Up, LocalTypeOK
<1>7. CASE Tick
  BY <1>4, <1>7 DEF Tick, Aged, Up
<1>8. CASE UNCHANGED localVars
  BY <1>4, <1>8 DEF localVars, Up
<1> QED
  BY <1>5, <1>6, <1>7, <1>8 DEF LocalNext

LEMMA OnePreparesStep ==
  ASSUME LocalTypeOK, OnePrepares, [LocalNext]_localVars
  PROVE  OnePrepares'
<1> USE DEF startVars, storageVars
<1> SUFFICES ASSUME ~overtaken', NEW n \in Nodes, Preparing(n)'
             PROVE  /\ initLock' = "held"
                    /\ pc'[n] = "format" => ~initialized'
                    /\ \A m \in Nodes \ {n} : ~Preparing(m)'
  BY DEF OnePrepares
<1> DEFINE Goal == /\ initLock' = "held"
                   /\ pc'[n] = "format" => ~initialized'
                   /\ \A m \in Nodes \ {n} : ~Preparing(m)'
<1>1. CASE UNCHANGED <<initLock, initialized, overtaken>>
           /\ \A k \in Nodes : Preparing(k)' => Preparing(k) /\ pc'[k] = pc[k]
  BY <1>1 DEF OnePrepares
<1>2. ASSUME NEW k \in Nodes, registerLocally(k) PROVE Goal
  <2>1. ~overtaken /\ UNCHANGED initialized
    BY <1>2 DEF registerLocally, LocalTypeOK
  <2>2. CASE pc' = [pc EXCEPT ![k] = "await"] /\ UNCHANGED <<initLock, overtaken>>
    <3>1. \A m \in Nodes : Preparing(m)' => Preparing(m) /\ pc'[m] = pc[m]
      BY <2>2 DEF Preparing, LocalTypeOK
    <3> QED
      BY <1>1, <2>1, <2>2, <3>1
  <2>3. CASE pc' = [pc EXCEPT ![k] = "open"] /\ initLock' = "held" /\ initLock # "held"
    <3>1. \A m \in Nodes : ~Preparing(m)
      BY <2>1, <2>3 DEF OnePrepares
    <3> QED
      BY <2>3, <3>1 DEF Preparing, LocalTypeOK
  <2> QED
    BY <1>2, <2>2, <2>3 DEF registerLocally
<1>3. ASSUME NEW k \in Nodes, Open(k) PROVE Goal
  <2>1. Preparing(k) /\ ~overtaken /\ UNCHANGED initialized
    BY <1>3 DEF Open, Preparing, KickStart
  <2>2. initLock = "held" /\ \A m \in Nodes \ {k} : ~Preparing(m)
    BY <2>1 DEF OnePrepares
  <2>3. \A m \in Nodes \ {k} : ~Preparing(m)'
    BY <1>3, <2>2 DEF Open, KickStart, Preparing, LocalTypeOK
  <2>4. n = k
    BY <2>3
  <2> QED
    BY <1>3, <2>1, <2>2, <2>3, <2>4 DEF Open, Prepared, KickStart, Preparing, LocalTypeOK
<1>4. ASSUME NEW k \in Nodes, Format(k) PROVE Goal
  <2>1. Preparing(k) /\ ~overtaken /\ pc' = [pc EXCEPT ![k] = "idle"]
    BY <1>4 DEF Format, Preparing, KickStart
  <2>2. \A m \in Nodes \ {k} : ~Preparing(m)
    BY <2>1 DEF OnePrepares
  <2> QED
    BY <2>1, <2>2 DEF Preparing, LocalTypeOK
<1>5. ASSUME NEW k \in Nodes, Await(k) PROVE Goal
  BY <1>1, <1>5 DEF Await, KickStart, Preparing, LocalTypeOK
<1>6. ASSUME NEW k \in Nodes, \/ Lock(k) \/ Load(k) \/ SaveAndUnlock(k) \/ Scan(k) \/ ScanEnd(k)
                              \/ addLocally(k) \/ removeLocally(k)
                              \/ discoverLocally(k) \/ stopDiscoveringLocally(k)
      PROVE  Goal
  <2>1. UNCHANGED <<initLock, initialized, overtaken>>
    BY <1>6 DEF Lock, Load, SaveAndUnlock, Scan, ScanEnd, addLocally, removeLocally,
                discoverLocally, stopDiscoveringLocally
  <2>2. pc' = pc \/ \E l \in {"idle", "load", "save", "scan"} : pc' = [pc EXCEPT ![k] = l]
    BY <1>6 DEF Lock, Load, SaveAndUnlock, Scan, ScanEnd, addLocally, removeLocally,
                discoverLocally, stopDiscoveringLocally
  <2> QED
    BY <1>1, <2>1, <2>2 DEF Preparing, LocalTypeOK
<1>7. ASSUME NEW k \in Nodes, CrashNode(k) PROVE Goal
  <2>1. pc' = [pc EXCEPT ![k] = "down"] /\ UNCHANGED <<initialized, overtaken>>
        /\ initLock' = IF Preparing(k) /\ initLock = "held" THEN "left" ELSE initLock
    BY <1>7 DEF CrashNode, Preparing
  <2>2. n # k /\ Preparing(n) /\ pc'[n] = pc[n]
    BY <2>1 DEF Preparing, LocalTypeOK
  <2>3. ~Preparing(k)
    BY <2>1, <2>2 DEF OnePrepares
  <2> QED
    BY <1>1, <2>1, <2>2, <2>3 DEF Preparing, LocalTypeOK
<1>8. CASE Tick \/ UNCHANGED localVars
  BY <1>1, <1>8 DEF Tick, localVars, Preparing
<1> QED
  BY <1>2, <1>3, <1>4, <1>5, <1>6, <1>7, <1>8 DEF LocalNext, Work, App

(* When entries are lost the model ends, and nobody changes them then.     *)
LEMMA EmptiedForGood ==
  ASSUME [LocalNext]_localVars, emptied
  PROVE  UNCHANGED localVars
BY DEF LocalNext

LEMMA NotYetEmptied ==
  ASSUME [LocalNext]_localVars, ~emptied'
  PROVE  ~emptied
BY EmptiedForGood DEF localVars, storageVars, startVars

LEMMA OwnEntryStep ==
  ASSUME LocalTypes, StartInv, [LocalNext]_localVars
  PROVE  [\A n \in Nodes : \/ store'[n] \in {store[n], Aged(store[n])}
                           \/ pc[n] = "save"
                           \/ emptied' /\ overtaken]_localVars
<1>1. CASE Tick
  BY <1>1 DEF Tick
<1>2. CASE \E n \in Nodes : SaveAndUnlock(n)
  BY <1>2, SavesOwnEntry
<1>3. ASSUME NEW n \in Nodes, Format(n), emptied'
      PROVE  overtaken
  <2> SUFFICES ASSUME ~overtaken
               PROVE  FALSE
    OBVIOUS
  <2>1. ~initialized
    BY <1>3 DEF Format, StartInv, OnePrepares, Preparing
  <2>2. \A m \in Nodes : store[m] = NULL
    BY <2>1 DEF StartInv, Unprepared
  <2> QED
    BY <1>3, <2>2 DEF Format
<1> QED
  BY <1>1, <1>2, <1>3, StoreSteps DEF LocalTypes

(* Rewriting the whole file takes nothing back that another node wrote     *)
(* meanwhile, whoever crashed with the lock in hand; and a node that finds *)
(* the bins unprepared finds them empty, unless it was overtaken while it  *)
(* had the initial lock (localregistry.js:66, 84-95, 157, 202).            *)
THEOREM NobodyElseWrites == LocalSpec => OwnEntryOnly
<1> DEFINE I == emptied \/ (LocalTypes /\ StartInv)
<1>1. LocalInit => I
  BY LocalTypesInitially DEF LocalInit, StartInv, Unprepared, OnePrepares, Preparing, Up
<1>2. I /\ [LocalNext]_localVars => I'
  BY LocalTypesStep, UnpreparedStep, OnePreparesStep, NotYetEmptied DEF StartInv, LocalTypes
<1>3. I /\ [LocalNext]_localVars =>
        [\A n \in Nodes : \/ store'[n] \in {store[n], Aged(store[n])}
                          \/ pc[n] = "save"
                          \/ emptied' /\ overtaken]_localVars
  BY OwnEntryStep, EmptiedForGood
<1> QED
  BY <1>1, <1>2, <1>3, PTL DEF LocalSpec, OwnEntryOnly

-----------------------------------------------------------------------------
(* What the application was told *)

LEMMA ScannedByScan ==
  ASSUME LocalTypeOK, [LocalNext]_localVars, NEW n \in Nodes, Scanned(n)
  PROVE  Scan(n)
<1> USE DEF Scanned, LocalTypeOK
<1>1. ASSUME NEW k \in Nodes, Work(k), ~Scan(k) PROVE FALSE
  BY <1>1 DEF Work, Open, Format, Await, KickStart, Lock, Load, SaveAndUnlock, ScanEnd
<1>2. ASSUME NEW k \in Nodes, Scan(k) PROVE k = n
  BY <1>2 DEF Scan
<1>3. ASSUME NEW k \in Nodes, App(k) PROVE FALSE
  BY <1>3 DEF App, registerLocally, addLocally, removeLocally, discoverLocally,
              stopDiscoveringLocally
<1>4. ASSUME NEW k \in Nodes, CrashNode(k) PROVE FALSE
  BY <1>4 DEF CrashNode
<1>5. ~Tick
  BY DEF Tick
<1>6. ~UNCHANGED localVars
  BY DEF localVars
<1> QED
  BY <1>1, <1>2, <1>3, <1>4, <1>5, <1>6 DEF LocalNext

LEMMA MarksStep ==
  ASSUME LocalTypeOK, MarksAreTold, [LocalNext]_localVars
  PROVE  MarksAreTold'
<1> USE DEF scanVars, appVars, MarksAreTold
<1>1. ASSUME NEW n \in Nodes, Scan(n) PROVE MarksAreTold'
  <2> SUFFICES ASSUME NEW k \in Nodes, NEW m \in currentOfflineMachs'[k]
               PROVE  view'[k][m] = "offline"
    OBVIOUS
  <2>1. CASE k = n
    <3>1. m \in (currentOfflineMachs[n] \cup Offline(n)) \ Online(n) /\ m \in Nodes
      BY <1>1, <2>1 DEF Scan, LocalTypeOK, Offline, Found, Present
    <3>2. view'[n][m] = IF m \in Offline(n) THEN "offline" ELSE view[n][m]
      BY <1>1, <3>1 DEF Scan, LocalTypeOK
    <3> QED
      BY <2>1, <3>1, <3>2
  <2>2. CASE k # n
    BY <1>1, <2>2 DEF Scan, LocalTypeOK
  <2> QED
    BY <2>1, <2>2
<1>2. ASSUME NEW n \in Nodes, Work(n), ~Scan(n) PROVE MarksAreTold'
  BY <1>2 DEF Work, Open, Format, Await, KickStart, Lock, Load, SaveAndUnlock, ScanEnd
<1>3. ASSUME NEW n \in Nodes, App(n) PROVE MarksAreTold'
  BY <1>3 DEF App, registerLocally, addLocally, removeLocally, discoverLocally,
              stopDiscoveringLocally
<1>4. ASSUME NEW n \in Nodes, CrashNode(n) PROVE MarksAreTold'
  BY <1>4 DEF CrashNode, LocalTypeOK
<1>5. CASE Tick
  BY <1>5 DEF Tick
<1>6. CASE UNCHANGED localVars
  BY <1>6 DEF localVars
<1> QED
  BY <1>1, <1>2, <1>3, <1>4, <1>5, <1>6 DEF LocalNext

(* In a scan the application hears of what is overdue, unless its mark     *)
(* says that it has.                                                       *)
LEMMA OfflineStep ==
  ASSUME LocalTypeOK, MarksAreTold, [LocalNext]_localVars
  PROVE  [\A n, m \in Nodes :
            Scanned(n) /\ m \in Found(n) /\ IsOverdue(m) => view'[n][m] = "offline"]_localVars
<1> SUFFICES ASSUME NEW n \in Nodes, NEW m \in Nodes, Scanned(n), m \in Found(n), IsOverdue(m)
             PROVE  view'[n][m] = "offline"
  OBVIOUS
<1>1. Scan(n)
  BY ScannedByScan
<1>2. m \notin Online(n)
  BY DEF Online, LooksNew
<1>3. view'[n][m] = IF m \in Offline(n) THEN "offline" ELSE view[n][m]
  BY <1>1, <1>2 DEF Scan, LocalTypeOK
<1>4. m \in Offline(n) \/ m \in currentOfflineMachs[n]
  BY DEF Offline
<1> QED
  BY <1>3, <1>4 DEF MarksAreTold

(* After a scan the last word on a node that missed two check-ins is       *)
(* "offline", whatever was marked before.                                  *)
THEOREM DeathIsTold == LocalSpec => LastWordIsOffline
<1> DEFINE I == emptied \/ (LocalTypes /\ MarksAreTold)
<1>1. LocalInit => I
  BY LocalTypesInitially DEF LocalInit, MarksAreTold
<1>2. I /\ [LocalNext]_localVars => I'
  BY LocalTypesStep, MarksStep, NotYetEmptied DEF LocalTypes
<1>3. I /\ [LocalNext]_localVars =>
        [\A n, m \in Nodes :
           Scanned(n) /\ m \in Found(n) /\ IsOverdue(m) => view'[n][m] = "offline"]_localVars
  BY OfflineStep, EmptiedForGood DEF LocalTypes
<1> QED
  BY <1>1, <1>2, <1>3, PTL DEF LocalSpec, LastWordIsOffline

LEMMA BeliefsStep ==
  ASSUME LocalTypes, BeliefsAreKept, [LocalNext]_localVars, ~emptied'
  PROVE  BeliefsAreKept'
<1>0. LocalTypeOK /\ Present \subseteq Present'
  BY EntryStays DEF Present, LocalTypes
<1> USE DEF ownVars, scanVars, appVars, storageVars
<1>1. ASSUME NEW n \in Nodes, Scan(n) PROVE BeliefsAreKept'
  <2>1. /\ believed'[n] = (believed[n] \cup Updated(n)) \ Removed(n)
        /\ prevMachs'[n] = Remembered(n)
        /\ UNCHANGED <<attrsToDiscover, store>>
        /\ \A k \in Nodes \ {n} : believed'[k] = believed[k] /\ prevMachs'[k] = prevMachs[k]
    BY <1>0, <1>1 DEF Scan, LocalTypeOK
  <2>2. believed'[n] \subseteq Remembered(n)
    BY <2>1 DEF BeliefsAreKept, Updated, LooksUpdated, Removed, Remembered, Found
  <2>3. Remembered(n) \subseteq Present /\ (Remembered(n) # {} => attrsToDiscover[n])
    BY DEF Remembered, Found
  <2>4. Present' = Present
    BY <2>1 DEF Present
  <2> QED
    BY <2>1, <2>2, <2>3, <2>4 DEF BeliefsAreKept
<1>2. ASSUME NEW n \in Nodes, Work(n), ~Scan(n) PROVE BeliefsAreKept'
  <2>1. UNCHANGED <<believed, prevMachs, attrsToDiscover>>
    BY <1>2 DEF Work, Open, Format, Await, KickStart, Lock, Load, SaveAndUnlock, ScanEnd
  <2> QED
    BY <1>0, <2>1 DEF BeliefsAreKept
<1>3. ASSUME NEW n \in Nodes, App(n) PROVE BeliefsAreKept'
  <2>1. UNCHANGED <<prevMachs, store>>
    BY <1>3 DEF App, registerLocally, addLocally, removeLocally, discoverLocally,
                stopDiscoveringLocally
  <2>2. \/ UNCHANGED <<believed, attrsToDiscover>>
        \/ believed' = believed /\ attrsToDiscover' = [attrsToDiscover EXCEPT ![n] = TRUE]
        \/ /\ believed' = [believed EXCEPT ![n] = {}]
           /\ attrsToDiscover' = [attrsToDiscover EXCEPT ![n] = FALSE]
    BY <1>3 DEF App, registerLocally, addLocally, removeLocally, discoverLocally,
                stopDiscoveringLocally
  <2>3. \A k \in Nodes : \/ believed'[k] = {}
                         \/ believed'[k] = believed[k] /\ (attrsToDiscover[k] => attrsToDiscover'[k])
    BY <1>0, <2>2 DEF LocalTypeOK
  <2> QED
    BY <1>0, <2>1, <2>3 DEF BeliefsAreKept
<1>4. ASSUME NEW n \in Nodes, CrashNode(n) PROVE BeliefsAreKept'
  BY <1>0, <1>4 DEF CrashNode, LocalTypeOK, BeliefsAreKept
<1>5. CASE Tick
  BY <1>0, <1>5 DEF Tick, BeliefsAreKept
<1>6. CASE UNCHANGED localVars
  BY <1>6 DEF localVars, BeliefsAreKept, Present
<1> QED
  BY <1>1, <1>2, <1>3, <1>4, <1>5, <1>6 DEF LocalNext

LEMMA RemovalStep ==
  ASSUME LocalTypeOK, BeliefsAreKept, [LocalNext]_localVars
  PROVE  [\A n \in Nodes : Scanned(n) => \A m \in believed'[n] : store[m].attr # 0]_localVars
<1> SUFFICES ASSUME NEW n \in Nodes, Scanned(n), NEW m \in believed'[n]
             PROVE  store[m].attr # 0
  OBVIOUS
<1>1. believed'[n] = (believed[n] \cup Updated(n)) \ Removed(n)
  BY ScannedByScan DEF Scan, LocalTypeOK
<1>2. CASE m \in Updated(n)
  BY <1>2 DEF Updated, LooksUpdated
<1>3. CASE m \in believed[n]
  BY <1>1, <1>3 DEF BeliefsAreKept, Found, Removed
<1> QED
  BY <1>1, <1>2, <1>3

(* After a scan the application does not believe in an attribute that is   *)
(* gone from the file.                                                     *)
THEOREM NothingGoneIsBelieved == LocalSpec => RemovalIsNoticed
<1> DEFINE I == emptied \/ (LocalTypes /\ BeliefsAreKept)
<1>1. LocalInit => I
  BY LocalTypesInitially DEF LocalInit, BeliefsAreKept
<1>2. I /\ [LocalNext]_localVars => I'
  BY LocalTypesStep, BeliefsStep, NotYetEmptied
<1>3. I /\ [LocalNext]_localVars =>
        [\A n \in Nodes : Scanned(n) => \A m \in believed'[n] : store[m].attr # 0]_localVars
  BY RemovalStep, EmptiedForGood DEF LocalTypes
<1> QED
  BY <1>1, <1>2, <1>3, PTL DEF LocalSpec, RemovalIsNoticed

-----------------------------------------------------------------------------
(* Check-ins *)

LEMMA CheckInStep ==
  ASSUME LocalTypes, NEW m \in Nodes, Punctual(m), [LocalNext]_localVars, ~emptied'
  PROVE  Punctual(m)'
<1> USE DEF storageVars, ownVars, scanVars, timeVars, appVars, Punctual
<1>0. LocalTypeOK /\ NodeOK(m)
  BY DEF LocalTypes
<1>1. ASSUME NEW n \in Nodes, Started(n) PROVE Punctual(m)'
  <2>1. pc[n] \in {"open", "format", "await"} /\ KickStart(n) /\ UNCHANGED store
    BY <1>1 DEF Started
  <2>2. UNCHANGED <<registered, store, checkWait, nodes>> /\ pc' = [pc EXCEPT ![n] = "idle"]
        /\ data' = [data EXCEPT ![n] = Entry(attrsToAdd[n])]
    BY <2>1 DEF KickStart
  <2>3. Entry(attrsToAdd[n]).lastCheckIn = 0
    BY DEF Entry
  <2> QED
    BY <1>0, <2>1, <2>2, <2>3, LocalRegistryAssumption DEF LocalTypeOK
<1>2. ASSUME NEW n \in Nodes, Load(n) PROVE Punctual(m)'
  <2>1. CASE m = n
    <3>1. UNCHANGED <<registered, store, checkWait, data>> /\ InSection(n)
      BY <1>2 DEF Load, InSection
    <3>2. CASE data[n] # NULL
      BY <1>0, <1>2, <2>1, <3>1, <3>2 DEF Load, LocalTypeOK, NodeOK, Files
    <3>3. CASE data[n] = NULL
      <4>1. registered[n] /\ checkWait[n] >= Interval /\ store[n] # NULL
        BY <1>0, <2>1, <3>1, <3>3 DEF NodeOK
      <4>2. nodes'[n][n] = CheckedIn(n)
        BY <1>0, <1>2, <3>3 DEF Load, LocalTypeOK, Files
      <4>3. CheckedIn(n).lastCheckIn = 0
        BY <1>0, <4>1, CheckedInEntry
      <4> QED
        BY <1>0, <2>1, <3>1, <3>3, <4>1, <4>2, <4>3, LocalRegistryAssumption DEF LocalTypeOK
    <3> QED
      BY <3>2, <3>3
  <2>2. CASE m # n
    BY <1>0, <1>2, <2>2 DEF Load, LocalTypeOK
  <2> QED
    BY <2>1, <2>2
<1>3. ASSUME NEW n \in Nodes, SaveAndUnlock(n) PROVE Punctual(m)'
  <2>1. CASE m = n
    <3>1. /\ pc[n] = "save" /\ pc'[n] = "idle" /\ store'[n] = nodes[n][n] /\ data'[n] = NULL
          /\ registered'[n] = TRUE /\ checkWait'[n] = NextCheckIn(n)
      BY <1>0, <1>3, SavesOwnEntry DEF SaveAndUnlock, LocalTypeOK
    <3>2. nodes[n][n] \in Entries
      BY <1>0, <3>1 DEF LocalTypes, LocalTypeOK, RewriteOK, NodeOK, Files
    <3>3. nodes[n][n].lastCheckIn \in Nat /\ checkWait[n] \in Nat
      BY <1>0, <3>2 DEF Entries, LocalTypeOK
    <3>4. CASE registered[n]
      <4>1. nodes[n][n].lastCheckIn <= (checkWait[n] - Interval) + StartDelay
        BY <2>1, <3>1, <3>3, <3>4, LocalRegistryAssumption
      <4> QED
        BY <2>1, <3>1, <3>4, <4>1 DEF NextCheckIn
    <3>5. CASE ~registered[n]
      <4>1. data[n] # NULL /\ nodes[n][n] = data[n]
        BY <1>0, <2>1, <3>1, <3>5 DEF NodeOK, InSection
      <4>2. nodes[n][n].lastCheckIn <= 0 + StartDelay
        BY <2>1, <4>1, LocalRegistryAssumption
      <4> QED
        BY <2>1, <3>1, <3>5, <4>2 DEF NextCheckIn
    <3> QED
      BY <3>4, <3>5
  <2>2. CASE m # n
    BY <1>0, <1>3, <2>2, SavesOwnEntry DEF SaveAndUnlock, LocalTypeOK
  <2> QED
    BY <2>1, <2>2
<1>4. ASSUME NEW n \in Nodes, CrashNode(n) PROVE Punctual(m)'
  BY <1>0, <1>4 DEF CrashNode, LocalTypeOK
<1>5. ASSUME Tick PROVE Punctual(m)'
  <2>1. UNCHANGED <<pc, registered>> /\ data'[m] = Aged(data[m]) /\ store'[m] = Aged(store[m])
    BY <1>5 DEF Tick
  <2>2. data'[m] # NULL => data'[m].lastCheckIn <= StartDelay
    <3> SUFFICES ASSUME data[m] # NULL PROVE data'[m].lastCheckIn <= StartDelay
      BY <2>1 DEF Aged
    <3>1. data[m] \in Entries /\ data[m].lastCheckIn \in Nat /\ data[m].lastCheckIn < StartDelay
      BY <1>0, <1>5 DEF LocalTypeOK, Entries, NodeOK, Tick
    <3>2. Aged(data[m]) \in Entries /\ Aged(data[m]).lastCheckIn <= data[m].lastCheckIn + 1
      BY <1>0, <3>1, AgedEntry
    <3>3. Aged(data[m]).lastCheckIn \in Nat
      BY <3>2 DEF Entries
    <3> QED
      BY <2>1, <3>1, <3>2, <3>3, LocalRegistryAssumption
  <2>3. ASSUME registered[m] PROVE store'[m].lastCheckIn <= checkWait'[m] + StartDelay
    <3>1. store[m] \in Entries /\ store[m].lastCheckIn \in Nat /\ checkWait[m] \in Nat
          /\ checkWait'[m] = checkWait[m] + 1
      BY <1>0, <1>5, <2>3 DEF LocalTypeOK, Entries, NodeOK, Files, Tick
    <3>2. Aged(store[m]) \in Entries /\ Aged(store[m]).lastCheckIn <= store[m].lastCheckIn + 1
      BY <1>0, <3>1, AgedEntry
    <3>3. Aged(store[m]).lastCheckIn \in Nat
      BY <3>2 DEF Entries
    <3> QED
      BY <2>1, <2>3, <3>1, <3>2, <3>3, LocalRegistryAssumption
  <2>4. ASSUME pc[m] = "save"
        PROVE  IF registered[m] THEN nodes'[m][m].lastCheckIn + Interval <= checkWait'[m]
                                ELSE nodes'[m][m] = data'[m]
    <3>1. nodes[m] # NULL /\ nodes[m][m] \in Entries
      BY <1>0, <2>4 DEF LocalTypes, LocalTypeOK, NodeOK, RewriteOK, Files
    <3>2. nodes'[m][m] = Aged(nodes[m][m])
      BY <1>5, <3>1 DEF Tick
    <3>3. ASSUME registered[m] PROVE nodes'[m][m].lastCheckIn + Interval <= checkWait'[m]
      <4>1. nodes[m][m].lastCheckIn \in Nat /\ checkWait[m] \in Nat /\ checkWait'[m] = checkWait[m] + 1
        BY <1>0, <1>5, <3>1, <3>3 DEF LocalTypeOK, Entries, Tick
      <4>2. Aged(nodes[m][m]) \in Entries /\ Aged(nodes[m][m]).lastCheckIn <= nodes[m][m].lastCheckIn + 1
        BY <1>0, <3>1, AgedEntry
      <4>3. Aged(nodes[m][m]).lastCheckIn \in Nat
        BY <4>2 DEF Entries
      <4> QED
        BY <2>4, <3>2, <3>3, <4>1, <4>2, <4>3, LocalRegistryAssumption
    <3> QED
      BY <2>1, <2>4, <3>2, <3>3
  <2> QED
    BY <2>1, <2>2, <2>3, <2>4
<1>6. ASSUME NEW n \in Nodes,
             \/ StillStarting(n) \/ Lock(n) \/ Scan(n) \/ ScanEnd(n)
             \/ addLocally(n) \/ removeLocally(n)
             \/ discoverLocally(n) \/ stopDiscoveringLocally(n)
      PROVE  Punctual(m)'
  <2>1. UNCHANGED <<data, registered, store, checkWait, nodes>>
    BY <1>6 DEF StillStarting, Lock, Scan, ScanEnd, addLocally, removeLocally,
                discoverLocally, stopDiscoveringLocally
  <2>2. pc'[m] = "save" => pc[m] = "save"
    BY <1>0, <1>6 DEF StillStarting, Lock, Scan, ScanEnd, addLocally, removeLocally,
                discoverLocally, stopDiscoveringLocally, LocalTypeOK
  <2> QED
    BY <2>1, <2>2
<1>7. CASE UNCHANGED localVars
  BY <1>7 DEF localVars
<1> QED
  BY <1>0, <1>1, <1>2, <1>3, <1>4, <1>5, <1>6, <1>7, StartSteps DEF LocalNext, Work, App

LEMMA PunctualIsOnline ==
  ASSUME LocalTypes, NEW m \in Nodes, Punctual(m), registered[m]
  PROVE  ~IsOverdue(m)
<1>1. store[m] \in Entries /\ checkWait[m] \in 0..(Interval + MaxDelay)
  BY DEF LocalTypes, LocalTypeOK, NodeOK, Files
<1>2. store[m].lastCheckIn \in Nat /\ store[m].lastCheckIn <= checkWait[m] + StartDelay
  BY <1>1 DEF Entries, Punctual
<1> QED
  BY <1>1, <1>2, LocalRegistryAssumption DEF IsOverdue

(* A node that has registered and runs is not reported offline, as long as *)
(* no check-in is late by more than MaxDelay.                              *)
THEOREM RunningIsOnline == LocalSpec => NoFalseAlarm
<1> DEFINE I == emptied \/ (LocalTypes /\ \A m \in Nodes : Punctual(m))
<1>1. LocalInit => I
  BY LocalTypesInitially DEF LocalInit, Punctual
<1>2. I /\ [LocalNext]_localVars => I'
  BY LocalTypesStep, CheckInStep, NotYetEmptied
<1>3. I /\ [LocalNext]_localVars =>
        [\A n, m \in Nodes : Scanned(n) /\ m \in Offline(n) => ~registered[m]]_localVars
  BY PunctualIsOnline, EmptiedForGood DEF Offline
<1> QED
  BY <1>1, <1>2, <1>3, PTL DEF LocalSpec, NoFalseAlarm

-----------------------------------------------------------------------------
(* Updates *)

LEMMA LocalNumbers ==
  ASSUME LocalTypeOK, NEW n \in Nodes, NEW m \in Nodes
  PROVE  /\ heard[n][m] \in Nat /\ version[m] \in Nat /\ attrsToAdd[m] \in Nat
         /\ Stored(m) \in Nat /\ lastScanAt[n] \in Nat
         /\ store[m] # NULL => store[m] \in Entries /\ store[m].attr \in Nat /\ store[m].updatedAt \in Nat
         /\ data[m] # NULL => data[m] \in Entries /\ data[m].attr \in Nat
<1>1. store[m] # NULL => store[m] \in Entries
  BY DEF LocalTypeOK, Files
<1>2. data[m] # NULL => data[m] \in Entries
  BY DEF LocalTypeOK
<1>3. heard[n][m] \in Nat /\ version[m] \in Nat /\ attrsToAdd[m] \in Nat /\ lastScanAt[n] \in Nat
  BY LocalRegistryAssumption DEF LocalTypeOK, Old, Never
<1> QED
  BY <1>1, <1>2, <1>3, LocalRegistryAssumption DEF Entries, Stored

(* An action that touches none of this leaves the order of the values. *)
LEMMA UpdatesFramed ==
  ASSUME UpdateInv, UNCHANGED <<store, data, nodes, attrsToAdd, version, heard, lastScanAt>>,
         \A k \in Nodes : (pc'[k] = "save" => pc[k] = "save") /\ (pc'[k] = "scan" <=> pc[k] = "scan")
  PROVE  UpdateInv'
BY DEF UpdateInv, Ordered, Once, Newer, Stored, LooksUpdated

LEMMA UpdatesStepStart ==
  ASSUME LocalTypes, UpdateInv, NEW k \in Nodes, Started(k)
  PROVE  UpdateInv'
<1>1. /\ pc[k] \in {"open", "format", "await"} /\ pc' = [pc EXCEPT ![k] = "idle"]
      /\ data' = [data EXCEPT ![k] = Entry(attrsToAdd[k])]
      /\ attrsToAdd' = [attrsToAdd EXCEPT ![k] = 0]
      /\ UNCHANGED <<store, nodes, version, heard, lastScanAt>>
  BY DEF Started, KickStart, scanVars, appVars
<1>2. LocalTypeOK
  BY DEF LocalTypes
<1>3. Entry(attrsToAdd[k]).attr = attrsToAdd[k]
  BY DEF Entry
<1> SUFFICES ASSUME NEW n \in Nodes, NEW m \in Nodes
             PROVE  Ordered(n, m)' /\ Once(n, m)'
  BY DEF UpdateInv
<1>4. Ordered(n, m) /\ Once(n, m)
  BY DEF UpdateInv
<1>5. Ordered(n, m)'
  <2>1. CASE m = k
    <3>1. /\ pc'[m] # "save" /\ attrsToAdd'[m] = 0 /\ data'[m].attr = attrsToAdd[m]
          /\ UNCHANGED <<heard[n][m], version[m], Stored(m)>>
      BY <1>1, <1>2, <1>3, <2>1 DEF LocalTypeOK, Stored
    <3> QED
      BY <1>4, <3>1 DEF Ordered, Newer
  <2>2. CASE m # k
    <3>1. UNCHANGED <<pc[m], attrsToAdd[m], data[m], heard[n][m], version[m], Stored(m), nodes[m], store[m]>>
      BY <1>1, <1>2, <2>2 DEF LocalTypeOK, Stored
    <3> QED
      BY <1>4, <3>1 DEF Ordered, Newer
  <2> QED
    BY <2>1, <2>2
<1>6. Once(n, m)'
  BY <1>1, <1>2, <1>4 DEF Once, LooksUpdated, LocalTypeOK
<1> QED
  BY <1>5, <1>6

LEMMA UpdatesStepLoad ==
  ASSUME LocalTypes, UpdateInv, (\A m \in Nodes : Punctual(m)), NEW k \in Nodes, Load(k)
  PROVE  UpdateInv'
<1>1. /\ pc[k] = "load" /\ pc' = [pc EXCEPT ![k] = "save"]
      /\ UNCHANGED <<store, data, version, heard, lastScanAt>>
  BY DEF Load, storageVars, scanVars, appVars
<1>2. LocalTypeOK /\ NodeOK(k) /\ InSection(k)
  BY <1>1 DEF LocalTypes, InSection
<1> SUFFICES ASSUME NEW n \in Nodes, NEW m \in Nodes
             PROVE  Ordered(n, m)' /\ Once(n, m)'
  BY DEF UpdateInv
<1>4. Ordered(n, m) /\ Once(n, m)
  BY DEF UpdateInv
<1>5. Ordered(n, m)'
  <2>0. UNCHANGED <<data[m], heard[n][m], version[m], Stored(m), store[m]>>
    BY <1>1 DEF Stored
  <2>1. CASE m = k /\ data[k] # NULL
    <3>1. nodes'[m][m] = data[m] /\ UNCHANGED attrsToAdd[m]
      BY <1>2, <2>1 DEF Load, LocalTypeOK, Files
    <3> QED
      BY <1>4, <2>0, <2>1, <3>1 DEF Ordered, Newer
  <2>2. CASE m = k /\ data[k] = NULL
    <3>1. store[m] # NULL
      BY <1>2, <2>2 DEF NodeOK
    <3>2. nodes'[m][m] = CheckedIn(m) /\ attrsToAdd'[m] = 0
      BY <1>2, <2>2 DEF Load, LocalTypeOK, Files
    <3>3. Stored(m) = store[m].attr
      BY <3>1 DEF Stored
    <3> QED
      BY <1>2, <1>4, <2>0, <2>2, <3>1, <3>2, <3>3, CheckedInEntry DEF Ordered, Newer
  <2>3. CASE m # k
    <3>1. UNCHANGED <<pc[m], attrsToAdd[m], nodes[m]>>
      BY <1>2, <2>3 DEF Load, LocalTypeOK
    <3> QED
      BY <1>4, <2>0, <3>1 DEF Ordered, Newer
  <2> QED
    BY <2>1, <2>2, <2>3
<1>6. Once(n, m)'
  BY <1>1, <1>2, <1>4 DEF Once, LooksUpdated, LocalTypeOK
<1> QED
  BY <1>5, <1>6

LEMMA UpdatesStepSave ==
  ASSUME LocalTypes, UpdateInv, NEW k \in Nodes, SaveAndUnlock(k)
  PROVE  UpdateInv'
<1>1. /\ pc[k] = "save" /\ pc' = [pc EXCEPT ![k] = "idle"]
      /\ data' = [data EXCEPT ![k] = NULL] /\ nodes' = [nodes EXCEPT ![k] = NULL]
      /\ UNCHANGED <<attrsToAdd, version, heard, lastScanAt>>
  BY DEF SaveAndUnlock, scanVars, appVars
<1>2. LocalTypeOK
  BY DEF LocalTypes
<1>3. /\ store'[k] = nodes[k][k] /\ store'[k] # NULL
      /\ \A m \in Nodes \ {k} : store'[m] = store[m]
  BY SavesOwnEntry
<1> SUFFICES ASSUME NEW n \in Nodes, NEW m \in Nodes
             PROVE  Ordered(n, m)' /\ Once(n, m)'
  BY DEF UpdateInv
<1>4. Ordered(n, m) /\ Once(n, m)
  BY DEF UpdateInv
<1>5. /\ heard[n][m] \in Nat /\ version[m] \in Nat /\ attrsToAdd[m] \in Nat
      /\ UNCHANGED <<heard[n][m], version[m], attrsToAdd[m], lastScanAt[n]>>
  BY <1>1, <1>2, LocalNumbers
<1>6. (pc'[n] = "scan" <=> pc[n] = "scan") /\ (lastScanAt'[n] = Never <=> lastScanAt[n] = Never)
  BY <1>1, <1>2 DEF LocalTypeOK, Never, Old
<1>7. CASE m # k
  <2>1. UNCHANGED <<pc[m], data[m], nodes[m], store[m], Stored(m)>>
    BY <1>1, <1>2, <1>3, <1>7 DEF LocalTypeOK, Stored
  <2> QED
    BY <1>4, <1>5, <1>6, <2>1 DEF Ordered, Newer, Once, LooksUpdated
<1>8. CASE m = k
  <2>1. /\ pc[m] = "save" /\ pc'[m] = "idle" /\ data'[m] = NULL
        /\ store'[m] = nodes[m][m] /\ store'[m] # NULL
    BY <1>1, <1>2, <1>3, <1>8 DEF LocalTypeOK
  <2>2. nodes[m][m] \in Entries /\ Stored(m)' = nodes[m][m].attr
    BY <1>2, <2>1 DEF LocalTypes, LocalTypeOK, NodeOK, RewriteOK, Files, Stored
  <2>3. nodes[m][m].attr \in Nat
    BY <2>2, LocalRegistryAssumption DEF Entries
  <2>4. Ordered(n, m)'
    BY <1>4, <1>5, <2>1, <2>2, <2>3 DEF Ordered, Newer
  <2>5. Once(n, m)'
    BY <1>4, <1>5, <1>6, <2>1 DEF Ordered, Newer, Once, LooksUpdated
  <2> QED
    BY <2>4, <2>5
<1> QED
  BY <1>7, <1>8

LEMMA UpdatesStepScan ==
  ASSUME LocalTypes, UpdateInv, NEW k \in Nodes, Scan(k) \/ ScanEnd(k)
  PROVE  UpdateInv'
<1>2. LocalTypeOK
  BY DEF LocalTypes
<1> SUFFICES ASSUME NEW n \in Nodes, NEW m \in Nodes
             PROVE  Ordered(n, m)' /\ Once(n, m)'
  BY DEF UpdateInv
<1>4. Ordered(n, m) /\ Once(n, m)
  BY DEF UpdateInv
<1>5. CASE Scan(k)
  <2>1. UNCHANGED <<store, data, nodes, attrsToAdd, version, lastScanAt>>
    BY <1>5 DEF Scan, storageVars, ownVars
  <2>2. pc'[k] = "scan" /\ (pc'[m] = "save" => pc[m] = "save")
        /\ (n # k => pc'[n] = pc[n] /\ heard'[n] = heard[n])
    BY <1>2, <1>5 DEF Scan, Scans, LocalTypeOK
  <2>3. heard'[n][m] = heard[n][m] \/ (heard'[n][m] = Stored(m) /\ n = k)
    BY <1>2, <1>5 DEF Scan, LocalTypeOK, Updated, Found, Present, Stored
  <2>4. Ordered(n, m)'
    BY <1>4, <2>1, <2>2, <2>3 DEF Ordered, Newer, Stored
  <2>5. Once(n, m)'
    BY <1>4, <2>1, <2>2 DEF Once, LooksUpdated
  <2> QED
    BY <2>4, <2>5
<1>6. CASE ScanEnd(k)
  <2>1. UNCHANGED <<store, data, nodes, attrsToAdd, version, heard>>
    BY <1>6 DEF ScanEnd, storageVars, ownVars, appVars
  <2>2. (pc'[m] = "save" => pc[m] = "save") /\ (n # k => UNCHANGED <<pc[n], lastScanAt[n]>>)
        /\ lastScanAt'[k] = 0
    BY <1>2, <1>6 DEF ScanEnd, LocalTypeOK
  <2>3. Ordered(n, m)'
    BY <1>4, <2>1, <2>2 DEF Ordered, Newer, Stored
  <2>4. CASE n = k
    BY <1>2, <2>1, <2>2, <2>3, <2>4, LocalNumbers, LocalRegistryAssumption DEF Once,
       LooksUpdated, Never, Old
  <2>5. CASE n # k
    BY <1>4, <2>1, <2>2, <2>3, <2>5 DEF Once, LooksUpdated
  <2> QED
    BY <2>4, <2>5
<1> QED
  BY <1>5, <1>6

LEMMA UpdatesStepApp ==
  ASSUME LocalTypes, UpdateInv, NEW k \in Nodes, addLocally(k) \/ removeLocally(k)
  PROVE  UpdateInv'
<1>1. UNCHANGED <<store, pc, data, nodes, heard, lastScanAt>> /\ pc[k] # "save"
  BY DEF addLocally, removeLocally, storageVars, scanVars, appVars
<1>2. LocalTypeOK
  BY DEF LocalTypes
<1> SUFFICES ASSUME NEW n \in Nodes, NEW m \in Nodes
             PROVE  Ordered(n, m)' /\ Once(n, m)'
  BY DEF UpdateInv
<1>4. Ordered(n, m) /\ Once(n, m)
  BY DEF UpdateInv
<1>5. Once(n, m)'
  BY <1>1, <1>4 DEF Once, LooksUpdated
<1>6. Stored(m)' = Stored(m)
  BY <1>1 DEF Stored
<1>7. CASE m # k
  <2>1. UNCHANGED <<attrsToAdd[m], version[m]>>
    BY <1>2, <1>7 DEF addLocally, removeLocally, appVars, LocalTypeOK
  <2> QED
    BY <1>1, <1>4, <1>5, <1>6, <2>1 DEF Ordered, Newer
<1>8. CASE m = k /\ addLocally(k)
  <2>1. version'[m] = version[m] + 1 /\ attrsToAdd'[m] = version[m] + 1
    BY <1>2, <1>8 DEF addLocally, LocalTypeOK
  <2> QED
    BY <1>1, <1>2, <1>4, <1>5, <1>6, <1>8, <2>1, LocalNumbers DEF Ordered, Newer
<1>9. CASE m = k /\ removeLocally(k)
  <2>1. version'[m] = version[m] /\ attrsToAdd'[m] = 0
    BY <1>2, <1>9 DEF removeLocally, appVars, LocalTypeOK
  <2> QED
    BY <1>1, <1>4, <1>5, <1>6, <1>9, <2>1 DEF Ordered, Newer
<1> QED
  BY <1>7, <1>8, <1>9

LEMMA UpdatesStepCrash ==
  ASSUME LocalTypes, UpdateInv, NEW k \in Nodes, CrashNode(k)
  PROVE  UpdateInv'
<1>1. /\ UNCHANGED <<store, version>>
      /\ pc' = [pc EXCEPT ![k] = "down"] /\ data' = [data EXCEPT ![k] = NULL]
      /\ nodes' = [nodes EXCEPT ![k] = NULL] /\ attrsToAdd' = [attrsToAdd EXCEPT ![k] = 0]
      /\ lastScanAt' = [lastScanAt EXCEPT ![k] = Never]
      /\ heard' = [heard EXCEPT ![k] = [m \in Nodes |-> 0]]
  BY DEF CrashNode
<1>2. LocalTypeOK
  BY DEF LocalTypes
<1> SUFFICES ASSUME NEW n \in Nodes, NEW m \in Nodes
             PROVE  Ordered(n, m)' /\ Once(n, m)'
  BY DEF UpdateInv
<1>4. Ordered(n, m) /\ Once(n, m)
  BY DEF UpdateInv
<1>5. UNCHANGED <<store[m], Stored(m), version[m]>>
      /\ heard'[n][m] = (IF n = k THEN 0 ELSE heard[n][m])
  BY <1>1, <1>2 DEF LocalTypeOK, Stored
<1>6. \/ UNCHANGED <<pc[m], data[m], nodes[m], attrsToAdd[m]>>
      \/ pc'[m] = "down" /\ data'[m] = NULL /\ attrsToAdd'[m] = 0
  BY <1>1, <1>2 DEF LocalTypeOK
<1>7. heard[n][m] \in Nat /\ version[m] \in Nat /\ attrsToAdd[m] \in Nat /\ Stored(m) \in Nat
      /\ (store[m] # NULL => store[m].attr \in Nat) /\ (data[m] # NULL => data[m].attr \in Nat)
  BY <1>2, LocalNumbers
<1>8. pc[m] = "save" => nodes[m][m] \in Entries /\ nodes[m][m].attr \in Nat
  <2>1. pc[m] = "save" => nodes[m][m] \in Entries
    BY <1>2 DEF LocalTypes, LocalTypeOK, NodeOK, RewriteOK, Files
  <2> QED
    BY <2>1, LocalRegistryAssumption DEF Entries
<1>9. Ordered(n, m)'
  BY <1>4, <1>5, <1>6, <1>7, <1>8 DEF Ordered, Newer
<1>10. CASE n = k
  BY <1>1, <1>2, <1>5, <1>7, <1>9, <1>10 DEF Once, LooksUpdated
<1>11. CASE n # k
  <2>1. UNCHANGED <<pc[n], lastScanAt[n], heard[n][m], store[m]>>
    BY <1>1, <1>2, <1>11 DEF LocalTypeOK
  <2> QED
    BY <1>4, <1>9, <2>1 DEF Once, LooksUpdated
<1> QED
  BY <1>10, <1>11

(* Time makes nothing look updated that did not before. *)
LEMMA UpdatesStepTick ==
  ASSUME LocalTypes, UpdateInv, Tick
  PROVE  UpdateInv'
<1>1. /\ UNCHANGED <<pc, attrsToAdd, version, heard>>
      /\ \A m \in Nodes : store'[m] = Aged(store[m]) /\ data'[m] = Aged(data[m])
      /\ \A n \in Nodes : lastScanAt'[n] = IF lastScanAt[n] = Never THEN Never ELSE lastScanAt[n] + 1
  BY DEF Tick, appVars
<1>2. LocalTypeOK
  BY DEF LocalTypes
<1> SUFFICES ASSUME NEW n \in Nodes, NEW m \in Nodes
             PROVE  Ordered(n, m)' /\ Once(n, m)'
  BY DEF UpdateInv
<1>4. Ordered(n, m) /\ Once(n, m)
  BY DEF UpdateInv
<1>5. store[m] # NULL => /\ store[m] \in Entries /\ store'[m] # NULL /\ store'[m].attr = store[m].attr
                         /\ store'[m].updatedAt = Aging(store[m].updatedAt)
  BY <1>1, <1>2, AgedEntry, LocalNumbers
<1>6. store[m] = NULL => store'[m] = NULL
  BY <1>1 DEF Aged
<1>7. Stored(m)' = Stored(m)
  BY <1>5, <1>6 DEF Stored
<1>8. (data'[m] # NULL <=> data[m] # NULL) /\ (data[m] # NULL => data'[m].attr = data[m].attr)
  <2>1. data[m] = NULL => data'[m] = NULL
    BY <1>1 DEF Aged
  <2>2. data[m] # NULL => data[m] \in Entries
    BY <1>2 DEF LocalTypeOK
  <2> QED
    BY <1>1, <1>2, <2>1, <2>2, AgedEntry
<1>9. pc[m] = "save" => /\ nodes'[m][m].attr = nodes[m][m].attr
                        /\ nodes'[m][m].updatedAt = Aging(nodes[m][m].updatedAt)
  <2> SUFFICES ASSUME pc[m] = "save"
               PROVE  /\ nodes'[m][m].attr = nodes[m][m].attr
                      /\ nodes'[m][m].updatedAt = Aging(nodes[m][m].updatedAt)
    OBVIOUS
  <2>1. nodes[m] # NULL /\ nodes[m][m] \in Entries
    BY <1>2 DEF LocalTypes, LocalTypeOK, NodeOK, RewriteOK, Files
  <2>2. nodes'[m][m] = Aged(nodes[m][m])
    BY <2>1 DEF Tick
  <2> QED
    BY <1>2, <2>1, <2>2, AgedEntry
<1>10. Ordered(n, m)'
  BY <1>1, <1>4, <1>5, <1>6, <1>7, <1>8, <1>9 DEF Ordered, Newer
<1>11. lastScanAt[n] # Never => n \in Watchers /\ lastScanAt[n] \in 0..(Old - 1)
  BY <1>2 DEF LocalTypes, LocalTypeOK, NodeOK
<1>12. lastScanAt'[n] = Never => lastScanAt[n] = Never
  BY <1>1, <1>11, LocalRegistryAssumption DEF Never, Old
<1>13. ASSUME pc'[n] # "scan", lastScanAt'[n] = Never PROVE heard'[n][m] = 0
  BY <1>1, <1>4, <1>12, <1>13 DEF Once
<1>14. ASSUME pc'[n] # "scan", store'[m] # NULL, LooksUpdated(n, m)'
       PROVE  heard'[n][m] < store'[m].attr
  <2>1. store[m] # NULL /\ store[m].attr # 0 /\ pc[n] # "scan"
    BY <1>1, <1>5, <1>6, <1>14 DEF LooksUpdated
  <2>2. store[m].attr \in Nat /\ store[m].updatedAt \in Nat /\ lastScanAt[n] \in Nat
    BY <1>2, <2>1, LocalNumbers
  <2>3. CASE lastScanAt[n] = Never
    BY <1>1, <1>4, <1>5, <2>1, <2>2, <2>3 DEF Once
  <2>4. CASE lastScanAt[n] # Never
    <3>1. lastScanAt'[n] = lastScanAt[n] + 1 /\ lastScanAt[n] + 1 <= Old /\ Old \in Nat
      BY <1>1, <1>11, <2>4, LocalRegistryAssumption DEF Old
    <3>2. Aging(store[m].updatedAt) < lastScanAt[n] + 1
      BY <1>5, <1>14, <2>1, <3>1 DEF LooksUpdated
    <3>3. Aging(store[m].updatedAt) \in {store[m].updatedAt + 1, Old}
      BY DEF Aging
    <3>4. store[m].updatedAt < lastScanAt[n]
      BY <2>2, <3>1, <3>2, <3>3
    <3> QED
      BY <1>1, <1>4, <1>5, <2>1, <3>4 DEF Once, LooksUpdated
  <2> QED
    BY <2>3, <2>4
<1> QED
  BY <1>10, <1>13, <1>14 DEF Once

LEMMA UpdatesStep ==
  ASSUME LocalTypes, (\A m \in Nodes : Punctual(m)), UpdateInv, [LocalNext]_localVars, ~emptied'
  PROVE  UpdateInv'
<1>1. LocalTypeOK
  BY DEF LocalTypes
<1>2. ASSUME NEW n \in Nodes,
             \/ StillStarting(n) \/ Lock(n)
             \/ discoverLocally(n) \/ stopDiscoveringLocally(n)
      PROVE  UpdateInv'
  <2>1. UNCHANGED <<store, data, nodes, attrsToAdd, version, heard, lastScanAt>>
    BY <1>2 DEF StillStarting, Lock, discoverLocally, stopDiscoveringLocally,
                storageVars, ownVars, scanVars, appVars
  <2>2. \A k \in Nodes : (pc'[k] = "save" => pc[k] = "save") /\ (pc'[k] = "scan" <=> pc[k] = "scan")
    BY <1>1, <1>2 DEF StillStarting, Lock, WantsLock, discoverLocally,
                      stopDiscoveringLocally, LocalTypeOK
  <2> QED
    BY <2>1, <2>2, UpdatesFramed
<1>3. CASE UNCHANGED localVars
  BY <1>3, UpdatesFramed DEF localVars, storageVars, ownVars, scanVars, appVars
<1> QED
  BY <1>1, <1>2, <1>3, StartSteps, UpdatesStepStart, UpdatesStepLoad, UpdatesStepSave, UpdatesStepScan,
     UpdatesStepApp, UpdatesStepCrash, UpdatesStepTick DEF LocalNext, Work, App

LEMMA EmptyingSteps ==
  ASSUME [LocalNext]_localVars, ~emptied, emptied'
  PROVE  \E n \in Nodes : Format(n)
<1> USE DEF startVars, storageVars
<1>1. ASSUME NEW n \in Nodes, Work(n) PROVE Format(n)
  BY <1>1 DEF Work, Open, KickStart, Await, Lock, Load, SaveAndUnlock, Scan, ScanEnd
<1>2. ASSUME NEW n \in Nodes, App(n) \/ CrashNode(n) PROVE FALSE
  BY <1>2 DEF App, registerLocally, addLocally, removeLocally, discoverLocally,
              stopDiscoveringLocally, CrashNode
<1> QED
  BY <1>1, <1>2 DEF LocalNext, Tick, localVars

LEMMA FormatTypes ==
  ASSUME LocalTypeOK, NEW n \in Nodes, Format(n)
  PROVE  LocalTypeOK'
<1>1. Entry(attrsToAdd[n]) \in Entries
  BY NewEntry DEF LocalTypeOK
<1>2. store' \in Files
  BY DEF Format, Files
<1> QED
  BY <1>1, <1>2, LocalRegistryAssumption
  DEF Format, KickStart, scanVars, appVars, LocalTypeOK

LEMMA UpdatesInitially == ASSUME LocalInit PROVE UpdateInv
BY LocalRegistryAssumption DEF LocalInit, UpdateInv, Ordered, Once, Newer, Stored

(* The types, and that no update is told twice, in any interleaving of     *)
(* scans, check-ins, crashes and the passing of time.                      *)
THEOREM LocalRegistryIsSound == LocalSpec => []LocalRegistryInv
<1> DEFINE I == ~emptied /\ LocalTypes /\ (\A m \in Nodes : Punctual(m)) /\ UpdateInv
           Lost == emptied /\ LocalTypeOK /\ \A m \in Nodes : store[m] = NULL
<1>1. LocalInit => I
  BY LocalTypesInitially, UpdatesInitially DEF LocalInit, Punctual
<1>2. (I \/ Lost) /\ [LocalNext]_localVars => (I \/ Lost)'
  <2> SUFFICES ASSUME I \/ Lost, [LocalNext]_localVars
               PROVE  (I \/ Lost)'
    OBVIOUS
  <2>1. CASE emptied
    <3>1. UNCHANGED localVars
      BY <2>1, EmptiedForGood
    <3> QED
      BY <2>1, <3>1 DEF localVars, storageVars, startVars, ownVars, scanVars, timeVars, appVars,
                        LocalTypeOK
  <2>2. CASE ~emptied /\ ~emptied'
    BY <2>2, LocalTypesStep, CheckInStep, UpdatesStep
  <2>3. CASE ~emptied /\ emptied'
    <3>1. PICK n \in Nodes : Format(n)
      BY <2>3, EmptyingSteps
    <3> QED
      BY <2>3, <3>1, FormatTypes DEF Format, LocalTypes
  <2> QED
    BY <2>1, <2>2, <2>3
<1>3. I \/ Lost => LocalRegistryInv
  BY DEF LocalTypes, LocalRegistryInv, UpdatesOnce, UpdateInv, Once
<1> QED
  BY <1>1, <1>2, <1>3, PTL DEF LocalSpec
=============================================================================
