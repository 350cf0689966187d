------------------------ MODULE ClockReplacer_proofs ------------------------
(***************************************************************************)
(* Proofs about the clock replacer for every capacity and every set of     *)
(* threads.  The work is in the lemmas of ClockOps_proofs about one call;  *)
(* here they are carried through the interleavings of the calls.           *)
(***************************************************************************)
EXTENDS ClockReplacer, ClockOps_proofs, FiniteSetTheorems

\* Whatever calls the threads make in whatever order, the node references of
\* the replacer stay right, and a frame keeps a reference bit only while it is
\* unpinned.
IInv ==
  /\ Linked(replacer)
  /\ latch \in Thread \cup {NoThread}
  /\ calls \in [Thread -> Call]
  /\ unpinned \subseteq Frame
  /\ replacer.st = "ok" => \A f \in Frame : replacer.bit[f] # "none" => f \in unpinned

\* A call has an operation and, if it is a pin or an unpin, a frame.
LEMMA CallFields ==
  ASSUME NEW c \in Call
  PROVE  /\ c.op \in {"idle", "evict", "pin", "unpin"}
         /\ c.op \in {"pin", "unpin"} => c.frame \in Frame
BY DEF Call, Idle

\* clock_replacer_init leaves the replacer right.
LEMMA InitInv == Init => IInv
<1> SUFFICES ASSUME Init
             PROVE  IInv
  OBVIOUS
<1>1. Idle \in Call
  BY DEF Call
<1> QED
  BY <1>1, InitLinked DEF Init, IInv

\* A call that begins leaves the replacer alone.
LEMMA InvokeInv ==
  ASSUME IInv, NEW t \in Thread, NEW c \in Call, Invoke(t, c)
  PROVE  IInv'
BY Zenon DEF IInv, Invoke

\* A return leaves the calls right.
LEMMA ReturnType ==
  ASSUME calls \in [Thread -> Call], NEW t \in Thread, Return(t)
  PROVE  calls' \in [Thread -> Call]
BY DEF Return, Call

\* clock_replacer_pin keeps the invariant: the bit goes with the pin.
LEMMA PinInv ==
  ASSUME IInv, NEW t \in Thread, Pin(t)
  PROVE  IInv'
<1> DEFINE f == calls[t].frame
<1>1. f \in Frame /\ replacer.st = "ok"
  <2>1. calls[t] \in Call /\ calls[t].op = "pin" /\ replacer.st = "ok"
    BY DEF IInv, Pin, Enter
  <2> QED
    BY <2>1, CallFields
<1>2. replacer' = clock_replacer_pin(replacer, f) /\ unpinned' = unpinned \ {f}
  BY Zenon DEF Pin
<1>3. Linked(replacer)
  BY Zenon DEF IInv
<1> HIDE DEF f
<1>4. /\ Linked(replacer')
      /\ replacer'.st = "ok" => replacer'.bit[f] = "none"
      /\ \A g \in Frame : replacer'.bit[g] # "none" => replacer.bit[g] # "none"
  BY <1>1, <1>2, <1>3, PinLinked
<1>5. \A g \in Frame : replacer.bit[g] # "none" => g \in unpinned
  BY <1>1, Zenon DEF IInv
<1>6. replacer'.st = "ok" => \A g \in Frame : replacer'.bit[g] # "none" => g \in unpinned'
  BY <1>2, <1>4, <1>5, Zenon
<1>7. calls' \in [Thread -> Call] /\ latch' = NoThread
  BY ReturnType, Zenon DEF Pin, IInv
<1>8. unpinned' \subseteq Frame
  BY <1>2 DEF IInv
<1> QED
  BY <1>4, <1>6, <1>7, <1>8, Zenon DEF IInv

\* clock_replacer_unpin keeps it, whether the list has room or not.
LEMMA UnpinInv ==
  ASSUME IInv, NEW t \in Thread, Unpin(t)
  PROVE  IInv'
<1> DEFINE f == calls[t].frame
<1>1. f \in Frame /\ replacer.st = "ok"
  <2>1. calls[t] \in Call /\ calls[t].op = "unpin" /\ replacer.st = "ok"
    BY DEF IInv, Unpin, Enter
  <2> QED
    BY <2>1, CallFields
<1>2. replacer' = clock_replacer_unpin(replacer, f) /\ unpinned' = unpinned \cup {f}
  BY Zenon DEF Unpin
<1>3. Linked(replacer)
  BY Zenon DEF IInv
<1> HIDE DEF f
<1>4. /\ Linked(replacer')
      /\ \A g \in Frame : g # f => replacer'.bit[g] = replacer.bit[g]
  BY <1>1, <1>2, <1>3, UnpinLinked
<1>5. \A g \in Frame : replacer.bit[g] # "none" => g \in unpinned
  BY <1>1, Zenon DEF IInv
<1>6. \A g \in Frame : replacer'.bit[g] # "none" => g \in unpinned'
  BY <1>2, <1>4, <1>5
<1>7. calls' \in [Thread -> Call] /\ latch' = NoThread
  BY ReturnType, Zenon DEF Unpin, IInv
<1>8. unpinned' \subseteq Frame
  BY <1>1, <1>2 DEF IInv
<1> QED
  BY <1>4, <1>6, <1>7, <1>8, Zenon DEF IInv

\* evict keeps it: the victim loses its bit and stops being unpinned.
LEMMA EvictInv ==
  ASSUME IInv, NEW t \in Thread, Evict(t)
  PROVE  IInv'
<1>1. /\ Linked(replacer) /\ replacer.st = "ok"
      /\ \A g \in Frame : replacer.bit[g] # "none" => g \in unpinned
  BY Zenon DEF IInv, Evict, Enter
<1>2. InSweep(replacer, replacer', Len(replacer.list))
  BY <1>1, EvictLinked DEF Evict
<1>3. unpinned' = unpinned \ {replacer'.victim}
  BY Zenon DEF Evict
<1>4. ASSUME replacer'.st = "ok", NEW g \in Frame, replacer'.bit[g] # "none"
      PROVE  g \in unpinned'
  <2>1. g \in unpinned
    BY <1>1, <1>2, <1>4, Zenon DEF InSweep
  <2>2. g # NoFrame
    BY CapacityAssumption DEF Frame, NoFrame
  <2>3. replacer'.victim # g
    BY <1>2, <1>4, <2>2, Zenon DEF InSweep
  <2> QED
    BY <1>3, <2>1, <2>3
<1>5. calls' \in [Thread -> Call] /\ latch' \in Thread \cup {NoThread}
  BY ReturnType DEF Evict, IInv
<1>6. unpinned' \subseteq Frame
  BY <1>3 DEF IInv
<1> QED
  BY <1>2, <1>4, <1>5, <1>6, Zenon DEF IInv, InSweep

\* Every step keeps the invariant.
LEMMA NextInv == IInv /\ [Next]_vars => IInv'
<1> SUFFICES ASSUME IInv, [Next]_vars
             PROVE  IInv'
  OBVIOUS
<1>1. CASE UNCHANGED vars
  BY <1>1, Zenon DEF IInv, vars
<1>2. CASE Next
  <2>1. PICK t \in Thread : (\E c \in Call : Invoke(t, c)) \/ Run(t)
    BY <1>2, Zenon DEF Next
  <2> QED
    BY <2>1, InvokeInv, PinInv, UnpinInv, EvictInv, Zenon DEF Run
<1> QED
  BY <1>1, <1>2

\* The invariant holds throughout.
THEOREM Invariant == Spec => []IInv
BY InitInv, NextInv, PTL DEF Spec

(***************************************************************************)
(* The replacer record keeps its type and the list never outgrows the      *)
(* pool.                                                                   *)
(***************************************************************************)
THEOREM TypesKept == Spec => []TypeOK
<1>1. IInv => TypeOK
  BY Zenon DEF IInv, TypeOK, Linked
<1> QED
  BY <1>1, Invariant, PTL

(***************************************************************************)
(* A key of frame_table that has not been freed is the string of a node of *)
(* that very frame, although removals may take the wrong node out of the   *)
(* list and free the string of another one.                                *)
(***************************************************************************)
THEOREM KeysRight == Spec => []KeysNameFrames
<1>1. IInv => KeysNameFrames
  <2> SUFFICES ASSUME IInv
               PROVE  KeysNameFrames
    OBVIOUS
  <2>1. DOMAIN replacer.list = 1 .. Len(replacer.list)
    BY ReplacerType DEF IInv, Linked
  <2> QED
    BY <2>1, Zenon DEF IInv, Linked, KeysNameFrames
<1> QED
  BY <1>1, Invariant, PTL

(***************************************************************************)
(* evict hands out only frames that were unpinned and neither pinned nor   *)
(* evicted since.                                                          *)
(***************************************************************************)
THEOREM VictimsUnpinned == Spec => VictimUnpinned
<1> DEFINE A == \A t \in Thread :
                  Evict(t) /\ replacer'.st = "ok" /\ replacer'.victim # NoFrame
                    => replacer'.victim \in unpinned
<1>1. IInv => A
  <2> SUFFICES ASSUME IInv, NEW t \in Thread, Evict(t), replacer'.st = "ok",
                      replacer'.victim # NoFrame
               PROVE  replacer'.victim \in unpinned
    OBVIOUS
  <2>1. /\ Linked(replacer) /\ replacer.st = "ok"
        /\ \A g \in Frame : replacer.bit[g] # "none" => g \in unpinned
    BY Zenon DEF IInv, Evict, Enter
  <2>2. InSweep(replacer, replacer', Len(replacer.list))
    BY <2>1, EvictLinked DEF Evict
  <2>3. replacer'.victim \in Frame
    BY <2>2 DEF InSweep, Linked, Replacer
  <2> QED
    BY <2>1, <2>2, <2>3, Zenon DEF InSweep
<1>2. IInv /\ [Next]_vars => [A]_vars
  BY <1>1
<1> QED
  BY <1>2, Invariant, PTL DEF Spec, VictimUnpinned

\* A frame in the list at two nodes occurs more than once.
LEMMA TwiceOccurs ==
  ASSUME NEW r \in Replacer, NEW v, Twice(r, v)
  PROVE  Occurrences(v, r.list) > 1
<1> DEFINE S == {i \in DOMAIN r.list : r.list[i] = v}
<1>1. DOMAIN r.list = 1 .. Len(r.list) /\ Len(r.list) \in Nat
  BY ReplacerType
<1>2. PICK i, j \in 1 .. Len(r.list) : i # j /\ r.list[i] = v /\ r.list[j] = v
  BY DEF Twice
<1>3. i \in S /\ j \in S
  BY <1>1, <1>2
<1>4. IsFiniteSet(1 .. Len(r.list)) /\ S \subseteq 1 .. Len(r.list)
  BY <1>1, FS_Interval
<1> HIDE DEF S
<1>5. IsFiniteSet(S)
  BY <1>4, FS_Subset, Zenon
<1>6. Cardinality(S) \in Nat
  BY <1>5, FS_CardinalityType
<1>7. Cardinality(S) # 0
  BY <1>3, <1>5, FS_EmptySet
<1>8. Cardinality(S) # 1
  BY <1>2, <1>3, <1>5, FS_Singleton
<1>9. Cardinality(S) > 1
  BY <1>6, <1>7, <1>8
<1> QED
  BY <1>9 DEF Occurrences, S

(***************************************************************************)
(* evict hands out a frame whose reference bit is set only if the frame is *)
(* in the list twice: the first meeting clears the bit and the hand comes  *)
(* back to a node only after as many rounds as evict makes.                *)
(***************************************************************************)
THEOREM SecondChanceGiven == Spec => SecondChance
<1> DEFINE A == \A t \in Thread :
                  Evict(t) /\ replacer'.st = "ok" /\ replacer'.victim # NoFrame
                    => LET v == replacer'.victim
                       IN replacer.bit[v] = "clear" \/ Occurrences(v, replacer.list) > 1
<1>1. IInv => A
  <2> SUFFICES ASSUME IInv, NEW t \in Thread, Evict(t), replacer'.st = "ok",
                      replacer'.victim # NoFrame
               PROVE  \/ replacer.bit[replacer'.victim] = "clear"
                      \/ Occurrences(replacer'.victim, replacer.list) > 1
    OBVIOUS
  <2>1. Linked(replacer)
    BY Zenon DEF IInv
  <2>2. InSweep(replacer, replacer', Len(replacer.list))
    BY <2>1, EvictLinked DEF Evict
  <2>3. replacer.bit[replacer'.victim] = "clear" \/ Twice(replacer, replacer'.victim)
    BY <2>2, Zenon DEF InSweep
  <2> QED
    BY <2>1, <2>3, TwiceOccurs, Zenon DEF Linked
<1>2. IInv /\ [Next]_vars => [A]_vars
  BY <1>1
<1> QED
  BY <1>2, Invariant, PTL DEF Spec, SecondChance
=============================================================================
