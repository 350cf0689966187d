---------------------------- MODULE ClockReplacer ----------------------------
(***************************************************************************)
(* Threads calling the clock replacer.  Every call works under             *)
(* replacer->latch from its first access to its last, so its body is one   *)
(* step, taken when the latch lets the thread in.  evict on an empty list  *)
(* returns before its unlock.  A thread that asks for the latch it still   *)
(* holds gets EDEADLK, which nobody looks at, and goes on; its unlock then *)
(* releases the latch.                                                     *)
(*                                                                         *)
(* unpinned is a history variable: the frames the callers made evictable.  *)
(***************************************************************************)
EXTENDS ClockOps, FiniteSets

CONSTANTS Thread, NoThread

ASSUME NoThreadAssumption == NoThread \notin Thread

VARIABLES
  replacer,  \* the replacer record
  latch,     \* the thread that holds replacer->latch
  calls,     \* the call each thread is in
  unpinned   \* history: frames unpinned since they were pinned or evicted

vars == <<replacer, latch, calls, unpinned>>

Idle == [op |-> "idle", frame |-> NoFrame]

Call == {Idle} \cup [op : {"evict"}, frame : {NoFrame}]
               \cup [op : {"pin", "unpin"}, frame : Frame]

TypeOK ==
  /\ replacer \in Replacer
  /\ Len(replacer.list) <= Capacity
  /\ latch \in Thread \cup {NoThread}
  /\ calls \in [Thread -> Call]
  /\ unpinned \subseteq Frame

Init ==
  /\ replacer = clock_replacer_init
  /\ latch = NoThread
  /\ calls = [t \in Thread |-> Idle]
  /\ unpinned = {}

Invoke(t, c) ==
  /\ replacer.st = "ok"
  /\ calls[t] = Idle
  /\ calls' = [calls EXCEPT ![t] = c]
  /\ UNCHANGED <<replacer, latch, unpinned>>

\* RWLOCK_WRLOCK(&replacer->latch) lets t in
Enter(t, op) == replacer.st = "ok" /\ calls[t].op = op /\ latch \in {NoThread, t}

Return(t) == calls' = [calls EXCEPT ![t] = Idle]

Pin(t) ==
  LET f == calls[t].frame
  IN /\ Enter(t, "pin")
     /\ replacer' = clock_replacer_pin(replacer, f)
     /\ unpinned' = unpinned \ {f}
     /\ latch' = NoThread
     /\ Return(t)

\* mutant: no unlock on the path of a full list
Unpin_leaky(t) ==
  LET f == calls[t].frame
  IN /\ Enter(t, "unpin")
     /\ replacer' = clock_replacer_unpin(replacer, f)
     /\ unpinned' = unpinned \cup {f}
     /\ latch' = IF Len(replacer.list) = Capacity THEN t ELSE NoThread
     /\ Return(t)

Unpin(t) ==
  LET f == calls[t].frame
  IN /\ Enter(t, "unpin")
     /\ replacer' = clock_replacer_unpin(replacer, f)
     /\ unpinned' = unpinned \cup {f}
     /\ latch' = NoThread
     /\ Return(t)

Evict(t) ==
  /\ Enter(t, "evict")
  /\ replacer' = evict(replacer)
  /\ unpinned' = unpinned \ {replacer'.victim}
  /\ latch' = IF replacer.list = <<>> THEN t ELSE NoThread
  /\ Return(t)

Run(t) == Pin(t) \/ Unpin(t) \/ Evict(t)

Next == \E t \in Thread : (\E c \in Call \ {Idle} : Invoke(t, c)) \/ Run(t)

\* A thread in a call is scheduled, and the latch is granted to a thread that
\* keeps asking for it while it is free.
Fairness == \A t \in Thread : WF_vars(Run(t))

Spec == Init /\ [][Next]_vars
FairSpec == Spec /\ Fairness
-----------------------------------------------------------------------------
Occurrences(f, s) == Cardinality({i \in DOMAIN s : s[i] = f})

(***************************************************************************)
(* evict never hands out a frame that is pinned: a frame it returns was    *)
(* unpinned, and neither pinned nor evicted since, even after the list has *)
(* lost the wrong node, because the reference bit is gone with the pin.    *)
(***************************************************************************)
VictimUnpinned ==
  [][\A t \in Thread :
       Evict(t) /\ replacer'.st = "ok" /\ replacer'.victim # NoFrame
         => replacer'.victim \in unpinned]_vars

(***************************************************************************)
(* A frame whose reference bit is set survives the evict that meets it,    *)
(* unless it is in the list twice.                                         *)
(***************************************************************************)
SecondChance ==
  [][\A t \in Thread :
       Evict(t) /\ replacer'.st = "ok" /\ replacer'.victim # NoFrame
         => LET v == replacer'.victim
            IN replacer.bit[v] = "clear" \/ Occurrences(v, replacer.list) > 1]_vars

(***************************************************************************)
(* A key of frame_table that has not been freed is the string of a node of *)
(* that very frame: the string the list and the table share is never that  *)
(* of another frame.                                                       *)
(***************************************************************************)
KeysNameFrames ==
  \A f \in Frame :
    replacer.bit[f] # "none" /\ replacer.key[f] # Freed
      => replacer.key[f] \in DOMAIN replacer.list
         /\ replacer.list[replacer.key[f]] = f

(***************************************************************************)
(* Every call that waits for the latch gets it and returns, except behind  *)
(* an evict that found the list empty: on every other path, the early      *)
(* returns of unpin and the fruitless sweep included, the latch is given   *)
(* back.                                                                   *)
(***************************************************************************)
CallsReturnUnlessEmptyEvict ==
  \A t \in Thread :
    calls[t] # Idle ~> \/ calls[t] = Idle
                       \/ replacer.st # "ok"
                       \/ latch # NoThread /\ replacer.list = <<>>
=============================================================================
