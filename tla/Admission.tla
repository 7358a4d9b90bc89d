------------------------------- MODULE Admission -------------------------------
(***************************************************************************)
(* What keeps a device from running too many requests, or the same one     *)
(* twice: the cache of the activity ids let in last (duplicate_detect) and *)
(* the overflow detector odcount, lowered when a request finds no activity *)
(* thread and raised when an activity is freed (activity.c).  EventLoop    *)
(* makes these operators part of its actions.                              *)
(***************************************************************************)
EXTENDS Integers, Sequences

CONSTANTS
  Acts,       \* activity ids of remote requests
  CacheSize,  \* ids the cache holds (32)
  OdMax, OdMin, OdDown, OdUp,  \* ODCOUNT_MAX, _MIN, _DOWNVAL, _UPVAL
  MaxSeen     \* bound: ids let in during one behaviour

ASSUME AdmissionAssumption ==
  /\ CacheSize \in Nat \ {0}
  /\ OdMin \in Nat /\ OdDown \in Nat /\ OdUp \in Nat \ {0} /\ OdMax \in Nat
  /\ OdMin <= OdMax
  /\ MaxSeen \in Nat

VARIABLES
  odcount,  \* the overflow detector
  cache,    \* ids let in, the oldest first
  seen      \* history: all ids let in, in order

admissionVars == <<odcount, cache, seen>>

AdmissionInit ==
  /\ odcount = OdMax
  /\ cache = <<>>
  /\ seen = <<>>

(* Draws of arc4random_uniform(100): the two that decide the outcome when  *)
(* it is open.                                                             *)
Draws == {0, 99}

(* overflow_detect.  The draw is unsigned, so the comparison takes a       *)
(* negative odcount for a number beyond any draw.                          *)
overflow_detect(draw) == odcount >= 0 /\ draw > odcount

Cached(a) == \E i \in 1..Len(cache) : cache[i] = a

Remember_short(a) ==  \* mutant: the cache is cut one id too early
  /\ Len(seen) < MaxSeen
  /\ cache' = IF Len(cache) >= CacheSize - 1 THEN Tail(Append(cache, a)) ELSE Append(cache, a)
  /\ seen' = Append(seen, a)
  /\ UNCHANGED odcount

(* duplicate_detect on an id that is not cached.                           *)
Remember(a) ==
  /\ Len(seen) < MaxSeen
  /\ cache' = IF Len(cache) >= CacheSize THEN Tail(Append(cache, a)) ELSE Append(cache, a)
  /\ seen' = Append(seen, a)
  /\ UNCHANGED odcount

(* activity_new gives up: no thread has become idle.                       *)
NoThreadFound ==
  /\ odcount' = IF odcount > OdMin THEN odcount - OdDown ELSE odcount
  /\ UNCHANGED <<cache, seen>>

activity_free ==
  /\ odcount' = IF odcount < OdMax THEN odcount + OdUp ELSE odcount
  /\ UNCHANGED <<cache, seen>>

(***************************************************************************)
(* Properties                                                              *)
(***************************************************************************)

(* The overflow detector drifts by less than one step beyond its limits:   *)
(* below 0 it sheds nothing (activity_new, activity_free).                 *)
OdcountBounded ==
  /\ odcount \in Int
  /\ OdMin - OdDown < odcount \/ odcount = OdMax
  /\ odcount < OdMax + OdUp

(* The same id is let in again only after CacheSize others: a request that *)
(* several levels relay, or a broker delivers twice, runs once             *)
(* (duplicate_detect).                                                     *)
NoEarlyRepeat ==
  \A i, j \in 1..Len(seen) : i < j /\ seen[i] = seen[j] => j - i > CacheSize

(* The cache holds the ids let in last.                                    *)
CacheIsRecent ==
  /\ seen \in Seq(Acts) /\ cache \in Seq(Acts)
  /\ Len(cache) = IF Len(seen) < CacheSize THEN Len(seen) ELSE CacheSize
  /\ \A i \in 1..Len(cache) : cache[i] = seen[Len(seen) - Len(cache) + i]

AdmissionOK == CacheIsRecent /\ odcount \in Int
=============================================================================
