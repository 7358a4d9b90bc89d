------------------------------ MODULE Commands ------------------------------
(***************************************************************************)
(* One command of a C node and the threads that share it.  The activity    *)
(* thread's runner makes it and puts its address on its outq, up to        *)
(* MaxAttempts times; the worker thread takes it from there, holds it once *)
(* for every connected fog and cloud and then sends it to every connected  *)
(* J node; Paho's thread frees it once for each message sent.  A node's    *)
(* own replies, acks and queries are sent once, without outq.              *)
(* What command_free has freed must not be used again: misused says that   *)
(* it was, and the program is not followed any further then.               *)
(***************************************************************************)
EXTENDS CommandArgs, FiniteSets

CONSTANTS
  Kinds,        \* "async", "sync", "own"
  MaxArgs,      \* bound: arguments of a call
  MaxAttempts,  \* 3 in both runners
  MaxFaults     \* bound: messages not sent or not confirmed, levels that come and go

ASSUME CommandsAssumption ==
  /\ Kinds \subseteq {"async", "sync", "own"}
  /\ MaxAttempts \in Nat \ {0} /\ MaxArgs \in Nat

Calls == UNION {[1..n -> Args] : n \in 0..MaxArgs}
All == 0..2
Nobody == [pc |-> "idle", level |-> 0]

VARIABLES
  kind,
  meant,     \* what the program passes or its function returns
  args,      \* the arguments of the command
  refcount, freed,
  runner,    \* where jam_async_runner or jam_sync_runner is
  attempt,   \* times it has put the command on outq
  outq,      \* times the command is on outq
  worker,    \* the loop jwork_process_actoutq is in, and at which level
  flights,   \* messages sent to each level and not yet confirmed
  enabled,   \* mqttenabled
  heard,     \* arguments as J nodes have received them
  echo,      \* the same, after a J node has sent them back
  misused,
  faults,
  late,      \* history: a level came between the two loops of the worker
  leaked     \* history: a reference whose free will never come

refVars == <<refcount, freed, misused>>
vars == <<kind, meant, args, refVars, runner, attempt, outq, worker, flights, enabled,
          heard, echo, faults, late, leaked>>

AsSent == Each(ToItem, args)

Code(a) == CASE a.type = "INT" -> "i" [] a.type = "STRING" -> "s" [] OTHER -> "f"

(* jwork_send_error, _nak, _ack and _results publish what they make at     *)
(* once, to the level the request came from; what becomes of the request   *)
(* is not followed.                                                        *)
Replying == {[pc |-> "reply", level |-> l] : l \in All}

(* jam_rexec_async and jam_rexec_sync have made a command for a call, or   *)
(* jwork_send_results one for a result.  Calls for which none gets made    *)
(* are not followed: an async one without arguments ends the program, as   *)
(* cbor_move is given NULL for its array, and a sync one that reads its    *)
(* arguments a second time, for a command it never sends, may do so.       *)
Init ==
  /\ kind \in Kinds
  /\ meant \in CASE kind = "own" -> {c \in Calls : Len(c) <= 1}
                 [] kind = "async" -> {c \in Calls : Len(c) > 0}
                 [] OTHER -> Calls
  /\ args = IF kind = "own" THEN [i \in DOMAIN meant |-> Result(Code(meant[i]), meant[i])]
                            ELSE meant
  /\ refcount = 1 /\ freed = FALSE /\ misused = FALSE
  /\ runner = CASE kind = "async" -> "hold" [] kind = "sync" -> "send" [] OTHER -> "done"
  /\ attempt = 0 /\ outq = 0
  /\ worker \in IF kind = "own" THEN Replying ELSE {Nobody}
  /\ flights = [l \in All |-> 0]
  /\ enabled \in {[l \in All |-> l \in up \cup {0}] : up \in SUBSET {1, 2}}
  /\ heard = {} /\ echo = {}
  /\ faults = 0 /\ late = FALSE /\ leaked = FALSE

(* Everything that looks into the command does this first.                 *)
Use == misused' = freed

(* command_hold *)
Hold ==
  /\ Use
  /\ refcount' = IF freed THEN refcount ELSE refcount + 1
  /\ UNCHANGED freed

(* command_free *)
Free ==
  /\ Use
  /\ refcount' = IF freed THEN refcount ELSE refcount - 1
  /\ freed' = (freed \/ refcount <= 1)

-----------------------------------------------------------------------------
(* The runner *)

HoldFirst_not ==  \* mutant: the runner takes no reference of its own
  /\ runner = "hold"
  /\ runner' = "send"
  /\ UNCHANGED <<kind, meant, args, refVars, attempt, outq, worker, flights, enabled,
                 heard, echo, faults, late, leaked>>

HoldFirst ==
  /\ runner = "hold"
  /\ runner' = "send"
  /\ Hold
  /\ UNCHANGED <<kind, meant, args, attempt, outq, worker, flights, enabled, heard, echo,
                 faults, late, leaked>>

(* The command's address goes to the worker, and the timer is set.         *)
Send ==
  /\ runner = "send"
  /\ runner' = "wait"
  /\ attempt' = attempt + 1
  /\ outq' = outq + 1
  /\ UNCHANGED <<kind, meant, args, refVars, worker, flights, enabled, heard, echo,
                 faults, late, leaked>>

(* An answer has come, or the timer has fired; the next attempt may wait.  *)
Answer(valid) ==
  /\ runner = "wait"
  /\ runner' = IF ~valid /\ attempt < MaxAttempts THEN "send"
               ELSE IF kind = "async" THEN "free" ELSE "done"
  /\ UNCHANGED <<kind, meant, args, refVars, attempt, outq, worker, flights, enabled,
                 heard, echo, faults, late, leaked>>

Finish ==
  /\ runner = "free"
  /\ runner' = "done"
  /\ Free
  /\ UNCHANGED <<kind, meant, args, attempt, outq, worker, flights, enabled, heard, echo,
                 faults, late, leaked>>

Runner == HoldFirst \/ Send \/ (\E valid \in BOOLEAN : Answer(valid)) \/ Finish

-----------------------------------------------------------------------------
(* The worker *)

FirstHeld == 1

(* The loop over the levels goes on: from the holds to the sends, from the *)
(* sends to the next command.                                              *)
NextLevel ==
  worker' = CASE worker.pc = "hold" /\ worker.level < 2 -> [worker EXCEPT !.level = @ + 1]
              [] worker.pc = "hold" /\ worker.level = 2 -> [pc |-> "send", level |-> 0]
              [] worker.pc = "send" /\ worker.level < 2 -> [worker EXCEPT !.level = @ + 1]
              [] OTHER -> Nobody

Take ==
  /\ worker = Nobody /\ outq > 0
  /\ outq' = outq - 1
  /\ worker' = [pc |-> "hold", level |-> FirstHeld]
  /\ UNCHANGED <<kind, meant, args, refVars, runner, attempt, flights, enabled, heard, echo,
                 faults, late, leaked>>

HoldFor ==
  /\ worker.pc = "hold"
  /\ NextLevel
  /\ IF enabled[worker.level] THEN Hold ELSE UNCHANGED refVars
  /\ UNCHANGED <<kind, meant, args, runner, attempt, outq, flights, enabled, heard, echo,
                 faults, late, leaked>>

(* mqtt_publish to a level.  A message that Paho does not accept is not    *)
(* confirmed, and nobody frees the command for it.                         *)
Publish ==
  /\ worker.pc \in {"send", "reply"}
  /\ NextLevel
  /\ IF worker.pc = "reply" \/ enabled[worker.level]
       THEN /\ Use
            /\ \/ /\ flights' = [flights EXCEPT ![worker.level] = @ + 1]
                  /\ heard' = heard \cup {Each(JValue, AsSent)}
                  /\ UNCHANGED <<faults, leaked>>
               \/ /\ faults < MaxFaults
                  /\ faults' = faults + 1
                  /\ leaked' = TRUE
                  /\ UNCHANGED <<flights, heard>>
       ELSE UNCHANGED <<misused, flights, heard, faults, leaked>>
  /\ UNCHANGED <<kind, meant, args, refcount, freed, runner, attempt, outq, enabled, echo, late>>

Worker == Take \/ HoldFor \/ Publish

-----------------------------------------------------------------------------
(* Paho and the J nodes *)

Confirm_ignored(l) ==  \* mutant: the callback does not free
  /\ flights[l] > 0
  /\ flights' = [flights EXCEPT ![l] = @ - 1]
  /\ UNCHANGED <<kind, meant, args, refVars, runner, attempt, outq, worker, enabled,
                 heard, echo, faults, late, leaked>>

(* mqtt_onpublish *)
Confirm(l) ==
  /\ flights[l] > 0
  /\ flights' = [flights EXCEPT ![l] = @ - 1]
  /\ Free
  /\ UNCHANGED <<kind, meant, args, runner, attempt, outq, worker, enabled, heard, echo,
                 faults, late, leaked>>

(* A message whose confirmation never comes: there is no failure callback. *)
Lose(l) ==
  /\ flights[l] > 0 /\ faults < MaxFaults
  /\ flights' = [flights EXCEPT ![l] = @ - 1]
  /\ faults' = faults + 1
  /\ leaked' = TRUE
  /\ UNCHANGED <<kind, meant, args, refVars, runner, attempt, outq, worker, enabled,
                 heard, echo, late>>

(* A connection comes or goes.  A level the worker has held for that goes  *)
(* leaves a reference behind; one that comes after its hold is freed for   *)
(* without a hold.                                                         *)
Passed(l) ==
  \/ worker.pc = "hold" /\ l < worker.level
  \/ worker.pc = "send" /\ l >= worker.level
Switch(l) ==
  /\ faults < MaxFaults
  /\ faults' = faults + 1
  /\ enabled' = [enabled EXCEPT ![l] = ~@]
  /\ late' = (late \/ (Passed(l) /\ l > 0 /\ ~enabled[l]))
  /\ leaked' = (leaked \/ (l = 0 /\ enabled[0]) \/ (Passed(l) /\ enabled[l]))
  /\ UNCHANGED <<kind, meant, args, refVars, runner, attempt, outq, worker, flights, heard, echo>>

(* A J node's function returns what it was given, and the REXEC-RES        *)
(* arrives.  Bound: once.                                                  *)
Return ==
  /\ kind # "own" /\ echo = {}
  /\ \E h \in heard : \E e \in Arrivals(Each(JItem, h)) : echo' = {e}
  /\ UNCHANGED <<kind, meant, args, refVars, runner, attempt, outq, worker, flights,
                 enabled, heard, faults, late, leaked>>

Next ==
  /\ ~misused
  /\ \/ Runner
     \/ Worker
     \/ \E l \in All : Confirm(l) \/ Lose(l) \/ Switch(l)
     \/ Return

Spec == Init /\ [][Next]_vars
-----------------------------------------------------------------------------
TypeOK ==
  /\ kind \in Kinds /\ Len(args) = Len(meant)
  /\ refcount \in 0..(2 + 2 * MaxAttempts) /\ freed \in BOOLEAN /\ misused \in BOOLEAN
  /\ runner \in {"hold", "send", "wait", "free", "done"}
  /\ attempt \in 0..MaxAttempts /\ outq \in 0..MaxAttempts
  /\ worker.pc \in {"idle", "hold", "send", "reply"} /\ worker.level \in All
  /\ flights \in [All -> 0..MaxAttempts]
  /\ enabled \in [All -> BOOLEAN]
  /\ faults \in 0..MaxFaults /\ late \in BOOLEAN /\ leaked \in BOOLEAN

One(p) == IF p THEN 1 ELSE 0

(* Who will still free the command: the async runner, the callbacks of the *)
(* messages under way, those of the messages the worker has held for, and  *)
(* that of the message to the device (or of the only message).             *)
SentToDevice ==
  \/ attempt = 1 /\ outq = 0 /\ (worker = Nobody \/ (worker.pc = "send" /\ worker.level > 0))
  \/ kind = "own" /\ worker = Nobody
Users ==
  One(runner \in {"send", "wait", "free"} /\ kind = "async")
  + flights[0] + flights[1] + flights[2]
  + One(Passed(1) /\ enabled[1]) + One(Passed(2) /\ enabled[2])
  + One(~SentToDevice)

(* As long as the command is sent once and no level comes between the      *)
(* worker's two loops, the count is never below the number of those who    *)
(* will free it, and above it only by messages that nobody confirmed.      *)
CountsItsUsers ==
  attempt <= 1 /\ ~late => refcount >= Users /\ (leaked \/ refcount = Users)

(* "Don't free the structure if some other thread could be referring to    *)
(* it": nobody looks into a freed command that was sent once.              *)
SafeIfSentOnce == misused => attempt > 1 \/ late

(* Nothing is left of a command that was sent once when everybody is done  *)
(* with it.                                                                *)
Over == runner = "done" /\ outq = 0 /\ worker = Nobody /\ \A l \in All : flights[l] = 0
FreedWhenOver == Over /\ attempt <= 1 /\ ~late /\ ~leaked => freed

(* A J node's function gets the arguments the program gave, and the caller *)
(* the result the function returned; but for negative ints, which the two  *)
(* sides write differently, and for results of type float.                 *)
InJ(a) == IF a.type = "INT" THEN Arg("WHOLE", a.val) ELSE a
ArgsArrive == \A h \in heard :
  /\ DOMAIN h = DOMAIN meant
  /\ \A i \in DOMAIN meant :
       LET a == meant[i] IN
       (a.type = "INT" => a.val >= 0) /\ (a \in Doubles => kind # "own") => h[i] = InJ(a)

(* What a J node is given and sends back arrives as it was: any int, down  *)
(* to the least, a string, a fraction, a double beyond MaxSafe.  A double  *)
(* without a fraction comes back as an int, and is the same number only if *)
(* it is one of 0 .. Half - 1: a negative one is off by one (encoder.js:   *)
(* 244-250, cborutils.c:92), a larger one is cut.  Of minus zero, NaN and  *)
(* the infinities nothing is said: command.c:686 reads them past their end.*)
EchoIsExact == \A e \in echo :
  /\ DOMAIN e = DOMAIN meant
  /\ \A i \in DOMAIN meant :
       LET a == meant[i] IN
       /\ a.type \in {"INT", "STRING", "FRACTION"} => e[i] = a
       /\ a.type = "WHOLE" /\ a.val \notin -1 - MaxSafe .. MaxSafe => e[i] = a
       /\ a.type = "WHOLE" /\ a.val \in 0 .. Half - 1 => e[i] = Arg("INT", a.val)
=============================================================================
