-------------------------- MODULE Commands_proofs --------------------------
(***************************************************************************)
(* A command's reference count and its arguments, for any width of an int, *)
(* any number of arguments, attempts and faults: a command that was sent   *)
(* once is freed when its last user is done and never used afterwards, and *)
(* what a J node sends back is what it was given, as far as EchoIsExact    *)
(* says so.                                                                *)
(***************************************************************************)
EXTENDS Commands, TLAPS

Workers == [pc : {"idle", "hold", "send", "reply"}, level : All]

(* Where the runner and the worker can be, by the kind of the command.     *)
Shape ==
  /\ kind \in {"async", "sync", "own"}
  /\ refcount \in Nat /\ freed \in BOOLEAN /\ (freed <=> refcount = 0)
  /\ runner \in {"hold", "send", "wait", "free", "done"}
  /\ attempt \in Nat /\ outq \in Nat
  /\ worker \in Workers /\ (worker.pc = "idle" => worker = Nobody)
  /\ flights \in [All -> Nat] /\ enabled \in [All -> BOOLEAN]
  /\ misused \in BOOLEAN /\ late \in BOOLEAN /\ leaked \in BOOLEAN
  /\ ~enabled[0] => leaked

Course ==
  /\ kind = "own" => attempt = 0 /\ outq = 0 /\ runner = "done" /\ worker.pc \in {"idle", "reply"}
  /\ kind # "own" => worker.pc # "reply"
  /\ kind = "sync" => runner \notin {"hold", "free"}
  /\ kind # "own" /\ runner \in {"wait", "free", "done"} => attempt >= 1
  /\ runner = "hold" => attempt = 0
  /\ kind # "own" /\ attempt = 0 => outq = 0 /\ worker = Nobody /\ flights = [l \in All |-> 0]
  /\ attempt = 1 => outq \in {0, 1} /\ (outq = 1 => worker = Nobody)
  /\ worker.pc = "hold" => worker.level \in {1, 2}

Counted == attempt <= 1 /\ ~late => refcount >= Users /\ (leaked \/ refcount = Users)

IInv == Shape /\ Course /\ Counted /\ SafeIfSentOnce

Steady == UNCHANGED <<kind, meant, args>>

LEMMA UsersIs ==
  ASSUME Shape
  PROVE  /\ Users \in Nat
         /\ runner \in {"send", "wait", "free"} /\ kind = "async" => Users >= 1
         /\ \A l \in All : flights[l] > 0 => Users >= 1
         /\ ~SentToDevice => Users >= 1
         /\ (Passed(1) /\ enabled[1]) \/ (Passed(2) /\ enabled[2]) => Users >= 1
<1> DEFINE r == One(runner \in {"send", "wait", "free"} /\ kind = "async")
           p1 == One(Passed(1) /\ enabled[1])
           p2 == One(Passed(2) /\ enabled[2])
           s == One(~SentToDevice)
<1>1. /\ r \in Nat /\ (runner \in {"send", "wait", "free"} /\ kind = "async" => r = 1)
      /\ p1 \in Nat /\ (Passed(1) /\ enabled[1] => p1 = 1)
      /\ p2 \in Nat /\ (Passed(2) /\ enabled[2] => p2 = 1)
      /\ s \in Nat /\ (~SentToDevice => s = 1)
  BY DEF One
<1>2. flights[0] \in Nat /\ flights[1] \in Nat /\ flights[2] \in Nat
  BY DEF Shape, All
<1>3. Users = r + flights[0] + flights[1] + flights[2] + p1 + p2 + s
  BY DEF Users
<1>4. \A l \in All : l = 0 \/ l = 1 \/ l = 2
  BY DEF All
<1>5. /\ Users \in Nat
      /\ r = 1 \/ p1 = 1 \/ p2 = 1 \/ s = 1 => Users >= 1
      /\ flights[0] > 0 \/ flights[1] > 0 \/ flights[2] > 0 => Users >= 1
  <2> HIDE DEF r, p1, p2, s
  <2> QED  BY <1>1, <1>2, <1>3
<1>6. \A l \in All : flights[l] > 0 => Users >= 1
  BY <1>4, <1>5
<1>7. /\ runner \in {"send", "wait", "free"} /\ kind = "async" => Users >= 1
      /\ ~SentToDevice => Users >= 1
      /\ (Passed(1) /\ enabled[1]) \/ (Passed(2) /\ enabled[2]) => Users >= 1
  <2> HIDE DEF r, p1, p2, s
  <2> QED  BY <1>1, <1>5
<1> QED  BY <1>5, <1>6, <1>7

(* Whoever is among the users of a command that was sent once finds it     *)
(* unfreed.                                                                *)
LEMMA UsersAreSafe ==
  ASSUME IInv, attempt <= 1, ~late, Users >= 1
  PROVE  ~freed
  BY UsersIs DEF IInv, Counted, Shape

LEMMA HoldIs ==
  ASSUME Shape, Hold
  PROVE  /\ refcount' \in Nat /\ freed' \in BOOLEAN /\ (freed' <=> refcount' = 0)
         /\ misused' \in BOOLEAN /\ (misused' <=> freed)
         /\ ~freed => refcount' = refcount + 1
<1> USE DEF Hold, Use, Shape
<1>1. CASE freed
  BY <1>1
<1>2. CASE ~freed
  BY <1>2
<1> QED  BY <1>1, <1>2

LEMMA FreeIs ==
  ASSUME Shape, Free
  PROVE  /\ refcount' \in Nat /\ freed' \in BOOLEAN /\ (freed' <=> refcount' = 0)
         /\ misused' \in BOOLEAN /\ (misused' <=> freed)
         /\ ~freed => refcount' = refcount - 1
<1> USE DEF Free, Use, Shape
<1>1. CASE freed
  BY <1>1
<1>2. CASE ~freed
  <2>1. refcount' = refcount - 1 /\ refcount >= 1
    BY <1>2
  <2>2. freed' <=> refcount <= 1
    BY <1>2
  <2>3. freed' \in BOOLEAN /\ misused' \in BOOLEAN /\ (misused' <=> freed)
    OBVIOUS
  <2> HIDE DEF Free, Use
  <2> QED  BY <1>2, <2>1, <2>2, <2>3
<1> QED  BY <1>1, <1>2

(***************************************************************************)
(* The runner                                                              *)
(***************************************************************************)
LEMMA StepHoldFirst ==
  ASSUME IInv, ~misused, HoldFirst
  PROVE  IInv'
<1> USE DEF HoldFirst, Hold, Use, refVars
<1>1. kind = "async" /\ attempt = 0
  BY DEF IInv, Shape, Course
<1>2. ~SentToDevice
  BY <1>1 DEF SentToDevice
<1>3. Users >= 1 /\ Users \in Nat
  BY <1>2, UsersIs DEF IInv
<1>4. ~late => ~freed
  BY <1>1, <1>3, UsersAreSafe DEF IInv
<1>5. Shape' /\ Course'
  BY <1>1 DEF IInv, Shape, Course
<1>6. Users' = Users + 1
  BY <1>1 DEF IInv, Shape, Users, One, Passed, SentToDevice, All
<1>7. Counted'
  BY <1>3, <1>4, <1>6 DEF IInv, Counted, Shape
<1>8. SafeIfSentOnce'
  BY <1>4 DEF IInv, SafeIfSentOnce, Shape
<1> QED  BY <1>5, <1>7, <1>8 DEF IInv

LEMMA StepSend ==
  ASSUME IInv, ~misused, Send
  PROVE  IInv'
<1> USE DEF Send, refVars
<1>1. Shape' /\ Course'
  BY DEF IInv, Shape, Course
<1>2. attempt = 0 => Users' = Users
  BY DEF IInv, Shape, Course, Users, One, Passed, SentToDevice, All
<1>3. Counted'
  BY <1>2 DEF IInv, Counted, Shape
<1> QED  BY <1>1, <1>3 DEF IInv, SafeIfSentOnce

LEMMA StepAnswer ==
  ASSUME IInv, ~misused, NEW valid \in BOOLEAN, Answer(valid)
  PROVE  IInv'
<1> USE DEF Answer, refVars
<1>1. Shape'
  BY DEF IInv, Shape
<1>2. Course'
  BY DEF IInv, Shape, Course
<1>3. Users' = Users
  BY DEF IInv, Shape, Course, Users, One, Passed, SentToDevice, All
<1> QED  BY <1>1, <1>2, <1>3 DEF IInv, Counted, SafeIfSentOnce

LEMMA StepFinish ==
  ASSUME IInv, ~misused, Finish
  PROVE  IInv'
<1> USE DEF Finish
<1>1. kind = "async"
  BY DEF IInv, Shape, Course
<1>2. Users >= 1 /\ Users \in Nat
  BY <1>1, UsersIs DEF IInv
<1>3. attempt <= 1 /\ ~late => ~freed
  BY <1>2, UsersAreSafe
<1>4. Shape' /\ Course'
  <2>1. refcount' \in Nat /\ freed' \in BOOLEAN /\ (freed' <=> refcount' = 0) /\ misused' \in BOOLEAN
    BY FreeIs DEF IInv
  <2>2. Shape'
    BY <2>1 DEF IInv, Shape
  <2>3. Course'
    BY <1>1 DEF IInv, Course
  <2> QED  BY <2>2, <2>3
<1>5. Users' = Users - 1
  BY <1>1 DEF IInv, Shape, Users, One, Passed, SentToDevice, All
<1>6. Counted'
  BY <1>2, <1>3, <1>5, FreeIs DEF IInv, Counted, Shape
<1>7. SafeIfSentOnce'
  BY <1>3, FreeIs DEF IInv, SafeIfSentOnce, Shape
<1> QED  BY <1>4, <1>6, <1>7 DEF IInv

(***************************************************************************)
(* The worker                                                              *)
(***************************************************************************)
LEMMA StepTake ==
  ASSUME IInv, ~misused, Take
  PROVE  IInv'
<1> USE DEF Take, FirstHeld, refVars
<1>1. kind # "own" /\ attempt >= 1
  BY DEF IInv, Shape, Course
<1>2. worker' \in Workers /\ worker'.pc = "hold" /\ worker'.level = 1
  BY DEF Workers, All
<1>3. Shape'
  BY <1>2 DEF IInv, Shape, Nobody
<1>4. Course'
  BY <1>1, <1>2 DEF IInv, Shape, Course
<1>5. attempt = 1 => Users' = Users
  BY <1>1, <1>2 DEF IInv, Shape, Course, Users, One, Passed, SentToDevice, All, Nobody
<1>6. attempt \in Nat
  BY DEF IInv, Shape
<1> QED  BY <1>1, <1>3, <1>4, <1>5, <1>6 DEF IInv, Counted, SafeIfSentOnce

(* Where the loops over the levels go. *)
LEMMA NextLevelIs ==
  ASSUME Shape, worker # Nobody, NextLevel
  PROVE  /\ worker' \in Workers /\ (worker'.pc = "idle" => worker' = Nobody)
         /\ worker.pc = "hold" /\ worker.level < 2 =>
              worker'.pc = "hold" /\ worker'.level = worker.level + 1
         /\ worker.pc = "hold" /\ worker.level = 2 => worker'.pc = "send" /\ worker'.level = 0
         /\ worker.pc = "send" /\ worker.level < 2 =>
              worker'.pc = "send" /\ worker'.level = worker.level + 1
         /\ worker.pc = "send" /\ worker.level = 2 => worker' = Nobody
         /\ worker.pc = "reply" => worker' = Nobody
  BY DEF Shape, NextLevel, Workers, All, Nobody

(* The worker at work, in a command that was sent once or is a reply. *)
LEMMA AtWork ==
  ASSUME IInv, worker # Nobody
  PROVE  /\ worker.pc \in {"hold", "send", "reply"} /\ worker.level \in {0, 1, 2}
         /\ worker.pc = "reply" => kind = "own"
         /\ worker.pc # "reply" => kind # "own" /\ attempt >= 1
         /\ attempt <= 1 /\ worker.pc # "reply" => attempt = 1 /\ outq = 0
  BY DEF IInv, Shape, Course, Workers, All

LEMMA StepHoldFor ==
  ASSUME IInv, ~misused, HoldFor
  PROVE  IInv'
<1> DEFINE l == worker.level
<1> USE DEF HoldFor, refVars
<1>1. worker # Nobody /\ worker.pc = "hold"
  BY DEF Nobody
<1>2. /\ l \in {0, 1, 2} /\ kind # "own" /\ attempt >= 1 /\ attempt \in Nat
      /\ attempt <= 1 => attempt = 1 /\ outq = 0
  BY <1>1, AtWork DEF IInv, Shape
<1>3. /\ worker' \in Workers /\ (worker'.pc = "idle" => worker' = Nobody)
      /\ l < 2 => worker'.pc = "hold" /\ worker'.level = l + 1
      /\ l = 2 => worker'.pc = "send" /\ worker'.level = 0
  BY <1>1, NextLevelIs DEF IInv
<1>4. ~SentToDevice
  BY <1>1, <1>2 DEF SentToDevice
<1>5. Users >= 1 /\ Users \in Nat
  BY <1>4, UsersIs DEF IInv
<1>6. attempt <= 1 /\ ~late => ~freed
  BY <1>5, UsersAreSafe
<1>7. /\ refcount' \in Nat /\ freed' \in BOOLEAN /\ (freed' <=> refcount' = 0)
      /\ misused' \in BOOLEAN
  BY HoldIs DEF IInv, Shape
<1>8. Shape'
  BY <1>3, <1>7 DEF IInv, Shape
<1>9. Course'
  <2>1. l \in {1, 2} /\ worker'.pc \in {"hold", "send"} /\ (worker'.pc = "hold" => worker'.level = 2)
    BY <1>1, <1>2, <1>3 DEF IInv, Course
  <2> HIDE DEF HoldFor
  <2>2. UNCHANGED <<kind, runner, attempt, outq, flights>>
    BY DEF HoldFor
  <2> QED  BY <1>2, <2>1, <2>2 DEF IInv, Course
<1>10. Users' = Users + (IF enabled[l] THEN 1 ELSE 0)
  <2>1. CASE l = 1
    BY <1>1, <1>2, <1>3, <2>1 DEF IInv, Shape, Users, One, Passed, SentToDevice, All, Nobody
  <2>2. CASE l = 2
    BY <1>1, <1>2, <1>3, <2>2 DEF IInv, Shape, Users, One, Passed, SentToDevice, All, Nobody
  <2> QED  BY <1>1, <2>1, <2>2 DEF IInv, Course
<1>11. Counted'
  BY <1>5, <1>6, <1>10, HoldIs DEF IInv, Counted, Shape
<1>12. SafeIfSentOnce'
  <2>1. misused' => freed \/ misused
    BY HoldIs DEF IInv
  <2> QED  BY <1>2, <1>6, <2>1 DEF IInv, SafeIfSentOnce
<1> QED  BY <1>8, <1>9, <1>11, <1>12 DEF IInv

LEMMA StepPublish ==
  ASSUME IInv, ~misused, Publish
  PROVE  IInv'
<1> DEFINE l == worker.level
           sent == worker.pc = "reply" \/ enabled[l]
<1> USE DEF Publish
<1>1. worker # Nobody /\ worker.pc \in {"send", "reply"} /\ l \in {0, 1, 2} /\ l \in All
  BY AtWork DEF Nobody, All, IInv
<1>2. /\ worker.pc = "reply" => kind = "own" /\ attempt = 0
      /\ worker.pc = "send" => kind # "own" /\ attempt >= 1
      /\ attempt <= 1 /\ worker.pc = "send" => attempt = 1 /\ outq = 0
      /\ attempt \in Nat
  BY <1>1, AtWork DEF IInv, Shape, Course
<1>3. /\ worker' \in Workers /\ (worker'.pc = "idle" => worker' = Nobody)
      /\ worker.pc = "send" /\ l < 2 => worker'.pc = "send" /\ worker'.level = l + 1
      /\ worker.pc = "send" /\ l = 2 => worker' = Nobody
      /\ worker.pc = "reply" => worker' = Nobody
  BY <1>1, NextLevelIs DEF IInv
<1>4. /\ sent => misused' = freed
      /\ ~sent => misused' = misused /\ flights' = flights /\ leaked' = leaked
      /\ sent => \/ flights' = [flights EXCEPT ![l] = @ + 1] /\ leaked' = leaked
                 \/ flights' = flights /\ leaked' = TRUE
      /\ UNCHANGED <<kind, refcount, freed, runner, attempt, outq, enabled, late>>
  BY DEF Use
<1> HIDE DEF Publish
<1>5. Shape'
  <2>1. /\ flights \in [All -> Nat] /\ misused \in BOOLEAN /\ leaked \in BOOLEAN
        /\ freed \in BOOLEAN
    BY DEF IInv, Shape
  <2>2. flights' \in [All -> Nat]
    BY <1>1, <1>4, <2>1
  <2>3. misused' \in BOOLEAN /\ leaked' \in BOOLEAN
    BY <1>4, <2>1
  <2>4. ~enabled'[0] => leaked'
    BY <1>4 DEF IInv, Shape
  <2> QED  BY <1>3, <1>4, <2>2, <2>3, <2>4 DEF IInv, Shape
<1>6. Course'
  <2>1. CASE worker.pc = "reply"
    BY <1>2, <1>3, <1>4, <2>1 DEF IInv, Shape, Course, Nobody
  <2>2. CASE worker.pc = "send"
    <3>1. worker'.pc \in {"send", "idle"}
      BY <1>1, <1>3, <2>2 DEF Nobody
    <3> QED  BY <1>2, <1>4, <2>2, <3>1 DEF IInv, Shape, Course
  <2> QED  BY <1>1, <2>1, <2>2
<1>7. sent => Users >= 1
  <2>1. CASE worker.pc = "reply" \/ l = 0
    <3>1. ~SentToDevice
      BY <1>1, <1>2, <2>1 DEF SentToDevice, Nobody
    <3> QED  BY <3>1, UsersIs DEF IInv
  <2>2. CASE worker.pc = "send" /\ l \in {1, 2} /\ enabled[l]
    <3>1. (Passed(1) /\ enabled[1]) \/ (Passed(2) /\ enabled[2])
      BY <2>2 DEF Passed
    <3> QED  BY <3>1, UsersIs DEF IInv
  <2> QED  BY <1>1, <2>1, <2>2
<1>8. attempt <= 1 /\ ~late /\ sent => ~freed
  BY <1>7, UsersAreSafe
<1>9. SafeIfSentOnce'
  <2>1. sent \/ misused' = FALSE
    BY <1>4 DEF IInv, Shape
  <2>2. attempt <= 1 /\ ~late => ~misused'
    BY <1>4, <1>8, <2>1, Zenon
  <2>3. attempt' = attempt /\ late' = late /\ (attempt <= 1 \/ attempt > 1)
    BY <1>2, <1>4
  <2> QED  BY <2>2, <2>3 DEF SafeIfSentOnce
<1>10. ASSUME attempt <= 1
       PROVE  Users' = Users \/ (Users' = Users - 1 /\ leaked')
  <2>1. \A k \in {0, 1, 2} : flights[k] \in Nat /\ (k # l => flights'[k] = flights[k])
    BY <1>1, <1>4 DEF IInv, Shape, All
  <2>2. \/ sent /\ flights'[l] = flights[l] + 1
        \/ flights'[l] = flights[l] /\ sent /\ leaked'
        \/ flights'[l] = flights[l] /\ ~sent
    BY <1>1, <1>4 DEF IInv, Shape
  <2>3. CASE worker.pc = "reply"
    <3>1. ~SentToDevice /\ SentToDevice'
      BY <1>2, <1>3, <1>4, <2>3 DEF SentToDevice, Nobody
    <3>2. \A k \in {1, 2} : ~Passed(k) /\ ~Passed(k)'
      BY <1>3, <2>3 DEF Passed, Nobody
    <3> QED  BY <1>1, <1>4, <2>1, <2>2, <2>3, <3>1, <3>2 DEF Users, One
  <2>4. CASE worker.pc = "send" /\ l = 0
    <3>1. ~SentToDevice /\ SentToDevice'
      BY <1>10, <1>2, <1>3, <1>4, <2>4 DEF SentToDevice, Nobody
    <3>2. \A k \in {1, 2} : Passed(k) /\ Passed(k)'
      BY <1>3, <2>4 DEF Passed
    <3>3. ~sent => leaked'
      BY <1>4, <2>4 DEF IInv, Shape
    <3> QED  BY <1>1, <1>4, <2>1, <2>2, <2>4, <3>1, <3>2, <3>3 DEF Users, One
  <2>5. CASE worker.pc = "send" /\ l = 1
    <3>1. SentToDevice /\ SentToDevice'
      BY <1>10, <1>2, <1>3, <1>4, <2>5 DEF SentToDevice
    <3>2. Passed(1) /\ ~Passed(1)' /\ Passed(2) /\ Passed(2)'
      BY <1>3, <2>5 DEF Passed
    <3> QED  BY <1>1, <1>4, <2>1, <2>2, <2>5, <3>1, <3>2 DEF Users, One
  <2>6. CASE worker.pc = "send" /\ l = 2
    <3>1. SentToDevice /\ SentToDevice'
      BY <1>10, <1>2, <1>3, <1>4, <2>6 DEF SentToDevice
    <3>2. ~Passed(1) /\ ~Passed(1)' /\ Passed(2) /\ ~Passed(2)'
      BY <1>3, <2>6 DEF Passed, Nobody
    <3> QED  BY <1>1, <1>4, <2>1, <2>2, <2>6, <3>1, <3>2 DEF Users, One
  <2> QED  BY <1>1, <2>3, <2>4, <2>5, <2>6
<1>11. Counted'
  <2>1. Users \in Nat /\ refcount \in Nat /\ leaked' \in BOOLEAN
    BY <1>5, UsersIs DEF IInv, Shape
  <2>2. leaked => leaked'
    BY <1>4 DEF IInv, Shape
  <2> QED  BY <1>4, <1>10, <2>1, <2>2 DEF IInv, Counted
<1> QED  BY <1>5, <1>6, <1>9, <1>11 DEF IInv

(***************************************************************************)
(* Paho and the levels                                                     *)
(***************************************************************************)
LEMMA FewerFlights ==
  ASSUME Shape, NEW l \in All, flights[l] > 0, flights' = [flights EXCEPT ![l] = @ - 1],
         UNCHANGED <<kind, runner, attempt, outq, worker, enabled>>
  PROVE  Users' = Users - 1 /\ flights' \in [All -> Nat]
<1>1. l \in {0, 1, 2} /\ \A k \in {0, 1, 2} : flights[k] \in Nat
  BY DEF Shape, All
<1>2. flights'[l] = flights[l] - 1 /\ \A k \in {0, 1, 2} : k # l => flights'[k] = flights[k]
  BY DEF Shape, All
<1>3. flights' \in [All -> Nat]
  BY DEF Shape
<1>4. SentToDevice' = SentToDevice /\ Passed(1)' = Passed(1) /\ Passed(2)' = Passed(2)
  BY DEF SentToDevice, Passed
<1>5. Users' = Users - 1
  BY <1>1, <1>2, <1>4 DEF Users, One
<1> QED  BY <1>3, <1>5

LEMMA StepConfirm ==
  ASSUME IInv, ~misused, NEW l \in All, Confirm(l)
  PROVE  IInv'
<1> USE DEF Confirm
<1>1. Users >= 1 /\ Users \in Nat
  BY UsersIs DEF IInv
<1>2. attempt <= 1 /\ ~late => ~freed
  BY <1>1, UsersAreSafe
<1>3. Users' = Users - 1 /\ flights' \in [All -> Nat]
  BY FewerFlights DEF IInv
<1>4. Shape'
  BY <1>3, FreeIs DEF IInv, Shape
<1>5. Course'
  <2>1. kind # "own" => attempt # 0
    BY DEF IInv, Shape, Course
  <2> QED  BY <2>1 DEF IInv, Course
<1>6. Counted'
  BY <1>1, <1>2, <1>3, FreeIs DEF IInv, Counted, Shape
<1>7. SafeIfSentOnce'
  <2>1. (misused' <=> freed) /\ attempt \in Nat
    BY FreeIs DEF IInv, Shape
  <2> QED  BY <1>2, <2>1 DEF IInv, SafeIfSentOnce
<1> QED  BY <1>4, <1>5, <1>6, <1>7 DEF IInv

LEMMA StepLose ==
  ASSUME IInv, ~misused, NEW l \in All, Lose(l)
  PROVE  IInv'
<1> USE DEF Lose, refVars
<1>1. Users \in Nat
  BY UsersIs DEF IInv
<1>2. Users' = Users - 1 /\ flights' \in [All -> Nat]
  BY FewerFlights DEF IInv
<1>3. Shape'
  BY <1>2 DEF IInv, Shape
<1>4. Course'
  <2>1. kind # "own" => attempt # 0
    BY DEF IInv, Shape, Course
  <2> QED  BY <2>1 DEF IInv, Course
<1>5. Counted'
  BY <1>1, <1>2 DEF IInv, Counted, Shape
<1> QED  BY <1>3, <1>4, <1>5 DEF IInv, SafeIfSentOnce

LEMMA StepSwitch ==
  ASSUME IInv, ~misused, NEW l \in All, Switch(l)
  PROVE  IInv'
<1> USE DEF Switch, refVars
<1>1. /\ enabled' \in [All -> BOOLEAN] /\ late' \in BOOLEAN /\ leaked' \in BOOLEAN
      /\ l \in {0, 1, 2} /\ \A k \in {0, 1, 2} : enabled[k] \in BOOLEAN
  BY DEF IInv, Shape, All
<1>2. /\ enabled'[l] = ~enabled[l]
      /\ \A k \in {0, 1, 2} : k # l => enabled'[k] = enabled[k]
  BY DEF IInv, Shape, All
<1>3. /\ late' <=> late \/ (Passed(l) /\ l > 0 /\ ~enabled[l])
      /\ leaked' <=> leaked \/ (l = 0 /\ enabled[0]) \/ (Passed(l) /\ enabled[l])
  OBVIOUS
<1>4. ~enabled'[0] => leaked'
  BY <1>1, <1>2, <1>3 DEF IInv, Shape
<1>5. Shape' /\ Course'
  BY <1>1, <1>4 DEF IInv, Shape, Course
<1>6. SafeIfSentOnce'
  BY <1>3 DEF IInv, SafeIfSentOnce
<1>7. ASSUME ~late'
      PROVE  Users' = Users \/ (Users' = Users - 1 /\ leaked')
  <2>1. /\ SentToDevice' = SentToDevice
        /\ Passed(1)' = Passed(1) /\ Passed(2)' = Passed(2)
    BY DEF SentToDevice, Passed
  <2>2. flights[0] \in Nat /\ flights[1] \in Nat /\ flights[2] \in Nat
    BY DEF IInv, Shape, All
  <2>3. UNCHANGED <<kind, runner, flights>>
    OBVIOUS
  <2> HIDE DEF Switch
  <2>4. CASE l = 0
    BY <1>2, <2>1, <2>2, <2>3, <2>4 DEF Users, One
  <2>5. CASE l = 1
    BY <1>1, <1>2, <1>3, <1>7, <2>1, <2>2, <2>3, <2>5 DEF Users, One
  <2>6. CASE l = 2
    BY <1>1, <1>2, <1>3, <1>7, <2>1, <2>2, <2>3, <2>6 DEF Users, One
  <2> QED  BY <1>1, <2>4, <2>5, <2>6
<1>8. Counted'
  <2>1. Users \in Nat /\ refcount \in Nat
    BY UsersIs DEF IInv, Shape
  <2> QED  BY <1>3, <1>7, <2>1 DEF IInv, Counted
<1> QED  BY <1>5, <1>6, <1>8 DEF IInv

(***************************************************************************)
(* The arguments                                                           *)
(***************************************************************************)
Sent(a) == JValue(ToItem(a))
Back(a) == FromItem(JItem(Sent(a)))

LEMMA WordIs == Half \in Nat /\ Half > 0 /\ Word = 2 * Half /\ Word \in Nat
  BY CommandArgsAssumption DEF Word

LEMMA SmallMod ==
  ASSUME NEW w \in Nat, NEW x \in Nat, x < w
  PROVE  x % w = x
  OBVIOUS

LEMMA UpperHalf ==
  ASSUME NEW i \in Int, NEW u \in Nat, u = Word + i, ~(u < Half)
  PROVE  AsInt(u) = i
<1>1. u - Word = i
  BY WordIs
<1> QED  BY <1>1 DEF AsInt

(* Every number an int can have comes back from a J node as it was: the    *)
(* library's NEGINT is off by one on the way there and on the way back.    *)
LEMMA IntsComeBack ==
  ASSUME NEW i \in Ints
  PROVE  Back(Arg("INT", i)) = {Arg("INT", i)}
<1> USE DEF Sent, ToItem, IntItem, Abs32, JValue, JItem, Item, Arg, Ints
<1>1. i \in Int /\ -Half <= i /\ i < Half /\ MaxSafe \in Nat /\ Word <= MaxSafe
  BY WordIs, CommandArgsAssumption
<1>2. CASE i >= 0
  <2>1. i % Word = i
    BY <1>1, <1>2, WordIs, SmallMod
  <2>2. i \in 0..MaxSafe
    BY <1>1, <1>2, WordIs
  <2>3. Sent(Arg("INT", i)) = Arg("WHOLE", i)
    BY <1>1, <1>2
  <2>4. JItem(Sent(Arg("INT", i))) = Item("UINT", i)
    BY <2>2, <2>3
  <2>5. FromItem(Item("UINT", i)) = {Arg("INT", i)}
    BY <1>1, <2>1 DEF FromItem, ReadInt, AsInt
  <2> QED  BY <2>4, <2>5 DEF Back
<1>3. CASE i < 0
  <2>1. Sent(Arg("INT", i)) = Arg("WHOLE", -1 - (-i))
    BY <1>1, <1>3
  <2>2. /\ -1 - (-i) = i - 1 /\ ~(i - 1 \in 0..MaxSafe)
        /\ -1 - (i - 1) = -i /\ -i \in 0..MaxSafe
    BY <1>1, <1>3, WordIs
  <2>3. JItem(Arg("WHOLE", i - 1)) = Item("NEGINT", -i)
    BY <2>2
  <2>4. Word - (-i) = Word + i /\ Word + i \in Nat /\ Word + i < Word /\ ~(Word + i < Half)
    BY <1>1, <1>3, WordIs
  <2>5. (Word - (-i)) % Word = Word + i
    BY <2>4, WordIs, SmallMod
  <2>6. FromItem(Item("NEGINT", -i)) = {Arg("INT", AsInt((Word - (-i)) % Word))}
    BY DEF FromItem, ReadInt
  <2>7. AsInt(Word + i) = i
    <3>1. PICK u \in Nat : u = Word + i /\ ~(u < Half)
      BY <2>4
    <3> QED  BY <1>1, <3>1, UpperHalf
  <2>8. JItem(Sent(Arg("INT", i))) = Item("NEGINT", -i)
    BY ONLY <2>1, <2>2, <2>3
  <2> QED  BY ONLY <2>5, <2>6, <2>7, <2>8 DEF Back
<1> QED  BY <1>1, <1>2, <1>3

(* Doubles without a fraction that an int can hold, if not negative, come  *)
(* back as ints; those that are not safe, as they were.                    *)
LEMMA WholesComeBack ==
  ASSUME NEW w \in Wholes
  PROVE  /\ w \in 0 .. Half - 1 => Back(Arg("WHOLE", w)) = {Arg("INT", w)}
         /\ w \notin -1 - MaxSafe .. MaxSafe => Back(Arg("WHOLE", w)) = {Arg("WHOLE", w)}
<1>1. w \in Int /\ MaxSafe \in Nat /\ Word <= MaxSafe
  BY CommandArgsAssumption
<1>2. Sent(Arg("WHOLE", w)) = Arg("WHOLE", w)
  BY DEF Sent, ToItem, JValue, Item, Arg
<1>3. ASSUME w \in 0 .. Half - 1 PROVE Back(Arg("WHOLE", w)) = {Arg("INT", w)}
  <2>1. w \in Nat /\ w < Half /\ w < Word /\ w \in 0..MaxSafe
    BY <1>1, <1>3, WordIs
  <2>2. w % Word = w
    BY <2>1, WordIs, SmallMod
  <2>3. JItem(Arg("WHOLE", w)) = Item("UINT", w)
    BY <2>1 DEF JItem, Item, Arg
  <2>4. FromItem(Item("UINT", w)) = {Arg("INT", w)}
    BY <2>1, <2>2 DEF FromItem, ReadInt, AsInt, Item
  <2> QED  BY <1>2, <2>3, <2>4 DEF Back
<1>4. ASSUME w \notin -1 - MaxSafe .. MaxSafe PROVE Back(Arg("WHOLE", w)) = {Arg("WHOLE", w)}
  <2>1. ~(w \in 0..MaxSafe) /\ ~(-1 - w \in 0..MaxSafe)
    BY <1>1, <1>4
  <2>2. JItem(Arg("WHOLE", w)) = Item("WHOLE", w)
    BY <2>1 DEF JItem, Item, Arg
  <2>3. FromItem(Item("WHOLE", w)) = {Arg("WHOLE", w)}
    BY DEF FromItem, Item, Arg
  <2> QED  BY <1>2, <2>2, <2>3 DEF Back
<1> QED  BY <1>3, <1>4

(* What comes back of an argument, if it is one of those EchoIsExact names.*)
ComesBack(a, b) ==
  /\ a.type \in {"INT", "STRING", "FRACTION"} => b = a
  /\ a.type = "WHOLE" /\ a.val \notin -1 - MaxSafe .. MaxSafe => b = a
  /\ a.type = "WHOLE" /\ a.val \in 0 .. Half - 1 => b = Arg("INT", a.val)

LEMMA ArgsComeBack ==
  ASSUME NEW a \in Args, NEW b \in Back(a)
  PROVE  ComesBack(a, b)
<1>1. CASE a \in IntArgs
  <2>1. PICK i \in Ints : a = Arg("INT", i)
    BY <1>1 DEF IntArgs
  <2>2. b = a /\ a.type = "INT"
    BY <2>1, IntsComeBack DEF Arg
  <2> QED  BY <2>2 DEF ComesBack
<1>2. CASE \E w \in Wholes : a = Arg("WHOLE", w)
  <2>1. PICK w \in Wholes : a = Arg("WHOLE", w)
    BY <1>2
  <2>2. a.type = "WHOLE" /\ a.val = w
    BY <2>1 DEF Arg
  <2> QED  BY <2>1, <2>2, WholesComeBack DEF ComesBack
<1>3. CASE \E x : a = Arg("STRING", x) \/ a = Arg("FRACTION", x)
  <2>1. PICK x : a = Arg("STRING", x) \/ a = Arg("FRACTION", x)
    BY <1>3
  <2>2. a.type \in {"STRING", "FRACTION"} /\ a = Arg(a.type, a.val)
    BY <2>1 DEF Arg
  <2>3. Sent(a) = a
    BY <2>2 DEF Sent, ToItem, JValue, Item, Arg
  <2>4. JItem(a) = Item(a.type, a.val)
    BY <2>2 DEF JItem
  <2>5. FromItem(Item(a.type, a.val)) = {a}
    BY <2>2 DEF FromItem, Item
  <2> QED  BY <2>2, <2>3, <2>4, <2>5 DEF ComesBack, Back
<1>4. CASE \E x : a = Arg("SPECIAL", x)
  BY <1>4 DEF ComesBack, Arg
<1> QED  BY <1>1, <1>2, <1>3, <1>4 DEF Args, Strings, Doubles

LEMMA PositivesArrive ==
  ASSUME NEW a \in Args, a.type = "INT" => a.val >= 0
  PROVE  Sent(a) = InJ(a)
<1>1. CASE a \in IntArgs
  <2>1. PICK i \in Ints : a = Arg("INT", i)
    BY <1>1 DEF IntArgs
  <2>2. i \in Int /\ i >= 0
    BY <2>1, WordIs DEF Ints, Arg
  <2> QED  BY <2>1, <2>2 DEF Sent, ToItem, IntItem, Abs32, JValue, Item, Arg, InJ
<1>2. CASE a \notin IntArgs
  <2>1. PICK x : a \in {Arg("STRING", x), Arg("WHOLE", x), Arg("FRACTION", x), Arg("SPECIAL", x)}
    BY <1>2 DEF Args, Strings, Doubles
  <2> QED  BY <2>1 DEF Sent, ToItem, JValue, Item, Arg, InJ
<1> QED  BY <1>1, <1>2

(* What is sent, what J nodes hear of it and what they send back depends   *)
(* on the arguments alone.                                                 *)
Message == [i \in DOMAIN args |-> Sent(args[i])]
Passing ==
  /\ \E n \in Nat : meant \in [1..n -> Args]
  /\ DOMAIN args = DOMAIN meant
  /\ \A i \in DOMAIN meant : args[i] = IF kind = "own" THEN Result(Code(meant[i]), meant[i]) ELSE meant[i]
  /\ heard \subseteq {Message}
  /\ \A e \in echo : DOMAIN e = DOMAIN args /\ \A i \in DOMAIN args : e[i] \in Back(args[i])
  /\ kind = "own" => echo = {}

LEMMA MessageIs ==
  /\ Each(JValue, AsSent) = Message
  /\ \A e \in Arrivals(Each(JItem, Message)) :
       DOMAIN e = DOMAIN args /\ \A i \in DOMAIN args : e[i] \in Back(args[i])
  BY DEF Message, AsSent, Each, Arrivals, Sent, Back

LEMMA PassingSteps ==
  ASSUME Passing, Next
  PROVE  Passing'
<1>1. Steady
  BY DEF Steady, Next, Runner, HoldFirst, Send, Answer, Finish, Worker, Take, HoldFor, Publish,
         Confirm, Lose, Switch, Return
<1>2. Message' = Message
  BY <1>1 DEF Message, Steady
<1>3. heard' \subseteq {Message}
  <2>1. UNCHANGED heard \/ heard' = heard \cup {Each(JValue, AsSent)}
    BY DEF Next, Runner, HoldFirst, Send, Answer, Finish, Worker, Take, HoldFor, Publish,
           Confirm, Lose, Switch, Return
  <2> QED  BY <2>1, MessageIs DEF Passing
<1>4. /\ \A e \in echo' : DOMAIN e = DOMAIN args /\ \A i \in DOMAIN args : e[i] \in Back(args[i])
      /\ kind = "own" => echo' = {}
  <2>1. \/ UNCHANGED echo
        \/ kind # "own" /\ \E h \in heard : \E e \in Arrivals(Each(JItem, h)) : echo' = {e}
    BY DEF Next, Runner, HoldFirst, Send, Answer, Finish, Worker, Take, HoldFor, Publish,
           Confirm, Lose, Switch, Return
  <2> QED  BY <2>1, MessageIs DEF Passing
<1> QED  BY <1>1, <1>2, <1>3, <1>4 DEF Passing, Steady

LEMMA PassingIsRight ==
  ASSUME Passing
  PROVE  ArgsArrive /\ EchoIsExact
<1>1. PICK n \in Nat : meant \in [1..n -> Args]
  BY DEF Passing
<1>2. \A i \in DOMAIN meant : meant[i] \in Args
  BY <1>1
<1>3. EchoIsExact
  <2> SUFFICES ASSUME NEW e \in echo
               PROVE  DOMAIN e = DOMAIN meant /\ \A i \in DOMAIN meant : ComesBack(meant[i], e[i])
    BY DEF EchoIsExact, ComesBack
  <2>1. /\ kind # "own" /\ DOMAIN e = DOMAIN meant
        /\ \A i \in DOMAIN meant : e[i] \in Back(args[i])
    BY DEF Passing
  <2>2. \A i \in DOMAIN meant : e[i] \in Back(meant[i])
    BY <2>1 DEF Passing
  <2> QED  BY <1>2, <2>1, <2>2, ArgsComeBack
<1>4. ArgsArrive
  <2> SUFFICES ASSUME NEW h \in heard
               PROVE  /\ DOMAIN h = DOMAIN meant
                      /\ \A i \in DOMAIN meant :
                           (meant[i].type = "INT" => meant[i].val >= 0)
                             /\ (meant[i] \in Doubles => kind # "own") => h[i] = InJ(meant[i])
    BY DEF ArgsArrive
  <2>1. h = Message
    BY DEF Passing
  <2>2. DOMAIN h = DOMAIN meant
    BY <2>1 DEF Message, Passing
  <2>3. ASSUME NEW i \in DOMAIN meant, meant[i].type = "INT" => meant[i].val >= 0,
               meant[i] \in Doubles => kind # "own"
        PROVE  h[i] = InJ(meant[i])
    <3>1. args[i] = meant[i]
      <4>1. CASE kind = "own"
        <5>1. meant[i].type \in {"INT", "STRING"}
          BY <1>2, <2>3, <4>1 DEF Args, IntArgs, Strings, Arg
        <5>2. Code(meant[i]) \in {"s", "i", "d"}
          BY <5>1 DEF Code
        <5> QED  BY <4>1, <5>2 DEF Passing, Result
      <4>2. CASE kind # "own"
        BY <4>2 DEF Passing
      <4> QED  BY <4>1, <4>2
    <3>2. h[i] = Sent(args[i])
      BY <2>1 DEF Message, Passing
    <3> QED  BY <1>2, <2>3, <3>1, <3>2, PositivesArrive
  <2> QED  BY <2>2, <2>3
<1> QED  BY <1>3, <1>4

(***************************************************************************)
(* The theorems                                                            *)
(***************************************************************************)
LEMMA Initially == Init => IInv /\ Passing
<1> SUFFICES ASSUME Init
             PROVE  IInv /\ Passing
  OBVIOUS
<1>1. Shape
  <2>1. kind \in {"async", "sync", "own"}
    BY CommandsAssumption DEF Init
  <2>2. /\ worker \in Workers /\ (worker.pc = "idle" => worker = Nobody)
        /\ flights \in [All -> Nat]
    BY DEF Init, Replying, Workers, All, Nobody
  <2>3. enabled \in [All -> BOOLEAN] /\ enabled[0]
    BY DEF Init, All
  <2>4. /\ refcount = 1 /\ freed = FALSE /\ misused = FALSE /\ attempt = 0 /\ outq = 0
        /\ late = FALSE /\ leaked = FALSE /\ runner \in {"hold", "send", "done"}
    BY DEF Init
  <2>5. refcount \in Nat /\ (freed <=> refcount = 0)
    BY <2>4
  <2>6. ~enabled[0] => leaked
    BY <2>3
  <2> HIDE DEF Init
  <2> QED  BY <2>1, <2>2, <2>3, <2>4, <2>5, <2>6 DEF Shape
<1>2. Course
  BY CommandsAssumption DEF Init, Replying, Course, Nobody, All
<1>3. Counted
  <2>1. ~SentToDevice /\ ~Passed(1) /\ ~Passed(2)
    BY DEF Init, Replying, SentToDevice, Passed, Nobody
  <2> QED  BY <2>1 DEF Init, Counted, Users, One, All
<1>4. SafeIfSentOnce
  BY DEF Init, SafeIfSentOnce
<1>5. Passing
  <2>1. meant \in Calls
    BY DEF Init
  <2>2. \E n \in Nat : meant \in [1..n -> Args]
    BY <2>1 DEF Calls
  <2> QED  BY <2>2 DEF Init, Passing
<1> QED  BY <1>1, <1>2, <1>3, <1>4, <1>5 DEF IInv

LEMMA StepReturn ==
  ASSUME IInv, Return \/ UNCHANGED vars
  PROVE  IInv'
<1>1. UNCHANGED <<kind, refVars, runner, attempt, outq, worker, flights, enabled, late, leaked>>
  BY DEF Return, vars
<1>2. Shape' /\ Course'
  BY <1>1 DEF IInv, Shape, Course, refVars
<1>3. Users' = Users
  BY <1>1 DEF Users, SentToDevice, Passed
<1> QED  BY <1>1, <1>2, <1>3 DEF IInv, Counted, SafeIfSentOnce, refVars

(* The invariant holds of every reachable state. *)
THEOREM Invariance == Spec => [](IInv /\ Passing)
<1>1. IInv /\ [Next]_vars => IInv'
  BY StepHoldFirst, StepSend, StepAnswer, StepFinish, StepTake, StepHoldFor, StepPublish,
     StepConfirm, StepLose, StepSwitch, StepReturn DEF Next, Runner, Worker
<1>2. Passing /\ [Next]_vars => Passing'
  <2>1. CASE UNCHANGED vars
    BY <2>1 DEF Passing, Message, vars
  <2> QED  BY <2>1, PassingSteps
<1> QED  BY <1>1, <1>2, Initially, PTL DEF Spec

(* The reference count of a command that was sent once is the number of    *)
(* those who will free it (command_hold, command_free), but for messages   *)
(* nobody confirmed.                                                       *)
THEOREM CountIsRight == Spec => []CountsItsUsers
<1>1. IInv => CountsItsUsers
  BY DEF IInv, Counted, CountsItsUsers
<1> QED  BY <1>1, Invariance, PTL

(* Nobody looks into a command that was sent once after command_free has   *)
(* freed it.                                                               *)
THEOREM SentOnceIsSafe == Spec => []SafeIfSentOnce
<1>1. IInv => SafeIfSentOnce
  BY DEF IInv
<1> QED  BY <1>1, Invariance, PTL

(* When everybody is done with a command that was sent once it is freed.   *)
THEOREM FreedAtLast == Spec => []FreedWhenOver
<1>1. IInv => FreedWhenOver
  <2> SUFFICES ASSUME IInv, Over, attempt <= 1, ~late, ~leaked
               PROVE  freed
    BY DEF FreedWhenOver
  <2>1. SentToDevice
    BY DEF IInv, Shape, Course, Over, SentToDevice
  <2>2. ~Passed(1) /\ ~Passed(2) /\ flights[0] = 0 /\ flights[1] = 0 /\ flights[2] = 0
    BY DEF Over, Passed, Nobody, All
  <2>3. Users = 0
    BY <2>1, <2>2 DEF Users, One, Over
  <2> QED  BY <2>3 DEF IInv, Counted, Shape
<1> QED  BY <1>1, Invariance, PTL

(* Natural numbers, strings and doubles arrive at a J node as they were    *)
(* given.  Ints, strings and doubles with a fraction come back from it     *)
(* exactly, doubles that are natural numbers and ints come back as those   *)
(* ints: for every width of an int (command.c, cborutils.c, encoder.js).   *)
THEOREM ArgumentsArrive == Spec => [](ArgsArrive /\ EchoIsExact)
<1>1. Passing => ArgsArrive /\ EchoIsExact
  BY PassingIsRight
<1> QED  BY <1>1, Invariance, PTL
=============================================================================
