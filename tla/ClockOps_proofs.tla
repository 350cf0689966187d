--------------------------- MODULE ClockOps_proofs ---------------------------
(***************************************************************************)
(* Facts about the operators of ClockOps, for any capacity.                *)
(***************************************************************************)
EXTENDS ClockOps, Integers, WellFoundedInduction, TLAPS

-----------------------------------------------------------------------------
(* Least members of sets of naturals, for induction: a statement that fails *)
(* for some natural fails for a least one.                                  *)

\* A nonempty set of naturals has a least member.
LEMMA LeastMember ==
  ASSUME NEW T \in SUBSET Nat, T # {}
  PROVE  \E x \in T : \A y \in T : x <= y
<1>1. PICK x \in T : \A y \in T : ~(<<y, x>> \in OpToRel(<, Nat))
  BY WFMin, NatLessThanWellFounded, Zenon
<1>2. \A y \in T : ~(y < x)
  BY <1>1, Zenon DEF OpToRel
<1> QED
  BY <1>2

\* A set of naturals that holds 0 and, with every n below m, n + 1 holds all
\* naturals up to m.
LEMMA UpTo ==
  ASSUME NEW T, NEW m \in Nat, 0 \in T,
         \A n \in 0 .. m - 1 : n \in T => n + 1 \in T
  PROVE  \A n \in 0 .. m : n \in T
<1> DEFINE U == {n \in 0 .. m : n \notin T}
<1> SUFFICES ASSUME U # {}
             PROVE  FALSE
  OBVIOUS
<1>0. U \in SUBSET Nat
  OBVIOUS
<1>1. PICK x \in U : \A y \in U : x <= y
  <2> HIDE DEF U
  <2> QED
    BY <1>0, LeastMember
<1>2. x # 0 /\ x - 1 \in 0 .. m - 1
  OBVIOUS
<1>3. x - 1 \in T
  BY <1>1, <1>2
<1> QED
  BY <1>2, <1>3

-----------------------------------------------------------------------------
(* The loop of evict. *)

\* The replacer as the loop of evict finds it
SweepStart(r) ==
  [r EXCEPT !.victim = NoFrame,
            !.hand = IF @ = NULL /\ r.list # <<>> THEN 1 ELSE @]

\* One round, the way the loop is written in evict
Round(q) == The({SweepStep(x) : x \in {q}})

\* f lists what the first k rounds of the loop make of the replacer.
Rounds(r, f, k) ==
  /\ f[0] = SweepStart(r)
  /\ \A n \in 1 .. k : f[n] = SweepStep(f[n - 1])

\* f is a function on 0 .. k.
OnRounds(f, k) == f = [n \in 0 .. k |-> f[n]]

\* A round of the loop is a sweep step.
LEMMA RoundSteps == \A q : Round(q) = SweepStep(q)
<1>1. \A q : {SweepStep(x) : x \in {q}} = {SweepStep(q)}
  OBVIOUS
<1>2. \A x : The({x}) = x
  BY DEF The
<1> QED
  BY <1>1, <1>2, Zenon DEF Round

\* The rounds of the loop of evict can be listed up to any number.
LEMMA RoundsExist ==
  ASSUME NEW r, NEW m \in Nat
  PROVE  \E f : OnRounds(f, m) /\ Rounds(r, f, m)
<1> DEFINE P(k) == \E f : OnRounds(f, k) /\ Rounds(r, f, k)
           T == {k \in Nat : P(k)}
<1>1. P(0)
  <2>1. PICK f : f = [n \in 0 .. 0 |-> SweepStart(r)]
    BY Zenon
  <2>2. OnRounds(f, 0) /\ f[0] = SweepStart(r) /\ 1 .. 0 = {}
    BY <2>1 DEF OnRounds
  <2> QED
    BY <2>2 DEF Rounds
<1>2. ASSUME NEW k \in 0 .. m - 1, P(k)
      PROVE  P(k + 1)
  <2>1. PICK f : OnRounds(f, k) /\ Rounds(r, f, k)
    BY <1>2
  <2>2. PICK g : g = [n \in 0 .. k + 1 |-> IF n = k + 1 THEN SweepStep(f[k]) ELSE f[n]]
    BY Zenon
  <2>3. OnRounds(g, k + 1)
    BY <2>2 DEF OnRounds
  <2>4. g[k + 1] = SweepStep(f[k]) /\ \A n \in 0 .. k : g[n] = f[n]
    BY <2>2
  <2>5. g[0] = SweepStart(r)
    BY <2>1, <2>4 DEF Rounds
  <2>6. ASSUME NEW n \in 1 .. k + 1
        PROVE  g[n] = SweepStep(g[n - 1])
    <3>1. CASE n = k + 1
      BY <2>4, <3>1
    <3>2. CASE n \in 1 .. k
      BY <2>1, <2>4, <3>2 DEF Rounds
    <3> QED
      BY <3>1, <3>2
  <2> QED
    BY <2>3, <2>5, <2>6 DEF Rounds
<1> HIDE DEF P
<1>3. 0 \in T /\ \A k \in 0 .. m - 1 : k \in T => k + 1 \in T
  BY <1>1, <1>2
<1> HIDE DEF T
<1>4. m \in T
  BY <1>3, UpTo
<1> QED
  BY <1>4 DEF T, P

\* What evict returns is what its rounds, one per node, make of the replacer.
LEMMA EvictRounds ==
  ASSUME NEW r, Len(r.list) \in 0 .. Capacity
  PROVE  \E f : Rounds(r, f, Len(r.list)) /\ evict(r) = f[Len(r.list)]
<1> DEFINE Sweep(f) == [n \in 0 .. Capacity |->
                         IF n = 0 THEN SweepStart(r) ELSE Round(f[n - 1])]
           g == CHOOSE f : f = Sweep(f)
<1>1. PICK f : OnRounds(f, Capacity) /\ Rounds(r, f, Capacity)
  BY RoundsExist, CapacityAssumption, Zenon
<1>2. \A n \in 0 .. Capacity : f[n] = IF n = 0 THEN SweepStart(r) ELSE Round(f[n - 1])
  BY <1>1, RoundSteps, CapacityAssumption DEF Rounds
<1>3. f = Sweep(f)
  BY <1>1, <1>2, Zenon DEF OnRounds
<1>4. g = Sweep(g)
  BY <1>3, Zenon
<1>5. evict(r) = g[Len(r.list)]
  BY Zenon DEF evict, SweepStart, Round
<1> HIDE DEF g
<1>6. \A n \in 0 .. Capacity : g[n] = IF n = 0 THEN SweepStart(r) ELSE Round(g[n - 1])
  BY <1>4, Zenon
<1>7. Rounds(r, g, Len(r.list))
  BY <1>6, RoundSteps, CapacityAssumption DEF Rounds
<1> QED
  BY <1>5, <1>7

-----------------------------------------------------------------------------
(* The list and the table. *)

\* Where a reference can lead in a list of n nodes
RefInto(n) == {NULL, Freed} \cup 1 .. n

\* The references of the replacer lead into its list, and a key of the table
\* that was not freed to a node of its frame.
Linked(r) ==
  /\ r \in Replacer
  /\ Len(r.list) <= Capacity
  /\ r.hand \in RefInto(Len(r.list))
  /\ \A f \in Frame : r.key[f] \in RefInto(Len(r.list))
  /\ \A f \in Frame :
       r.bit[f] # "none" /\ r.key[f] # Freed
         => r.key[f] \in 1 .. Len(r.list) /\ r.list[r.key[f]] = f

\* The fields of a replacer have their types.
LEMMA ReplacerType ==
  ASSUME NEW r \in Replacer
  PROVE  /\ r.list \in Seq(Frame) /\ Len(r.list) \in Nat
         /\ DOMAIN r.list = 1 .. Len(r.list)
         /\ \A i \in 1 .. Len(r.list) : r.list[i] \in Frame
         /\ r.hand \in NodeRef /\ r.bit \in [Frame -> Bit]
         /\ r.key \in [Frame -> NodeRef]
         /\ r.victim \in Frame \cup {NoFrame} /\ r.st \in Status
<1>1. /\ r.list \in Seq(Frame)
      /\ r.hand \in NodeRef /\ r.bit \in [Frame -> Bit]
      /\ r.key \in [Frame -> NodeRef]
      /\ r.victim \in Frame \cup {NoFrame} /\ r.st \in Status
  BY DEF Replacer
<1>2. Len(r.list) \in Nat /\ DOMAIN r.list = 1 .. Len(r.list)
  BY <1>1
<1>3. \A i \in 1 .. Len(r.list) : r.list[i] \in Frame
  BY <1>1, <1>2
<1> QED
  BY <1>1, <1>2, <1>3

\* A list with a node put before the head
LEMMA Pushed ==
  ASSUME NEW s \in Seq(Frame), NEW f \in Frame
  PROVE  /\ <<f>> \o s \in Seq(Frame)
         /\ Len(<<f>> \o s) = Len(s) + 1
         /\ (<<f>> \o s)[1] = f
         /\ \A i \in 2 .. Len(s) + 1 : (<<f>> \o s)[i] = s[i - 1]
<1>1. <<f>> \in Seq(Frame) /\ Len(<<f>>) = 1
  OBVIOUS
<1> QED
  BY <1>1

\* A replacer with another list and other references is a replacer.
LEMMA Relinked ==
  ASSUME NEW r \in Replacer, NEW l \in Seq(Frame), NEW h \in NodeRef,
         NEW k \in [Frame -> NodeRef]
  PROVE  [r EXCEPT !.hand = h, !.key = k, !.list = l] \in Replacer
BY Zenon DEF Replacer

\* Inserting a node moves the references to the nodes behind it.
LEMMA InsertLinked ==
  ASSUME NEW r, Linked(r), Len(r.list) < Capacity, NEW f \in Frame
  PROVE  LET q == circular_list_insert(r, f)
         IN /\ Linked(q)
            /\ Len(q.list) = Len(r.list) + 1 /\ q.list[1] = f
            /\ q.bit = r.bit /\ q.victim = r.victim /\ q.st = r.st
            /\ \A g \in Frame : q.key[g] = Freed <=> r.key[g] = Freed
<1> DEFINE q == circular_list_insert(r, f)
           n == Len(r.list)
           Push(x) == IF x \in 1 .. Capacity THEN x + 1 ELSE x
<1>1. q = [r EXCEPT !.hand = Push(r.hand), !.key = [g \in Frame |-> Push(r.key[g])],
                    !.list = <<f>> \o r.list]
  BY DEF Linked, Replacer, circular_list_insert, Moved
<1>2. /\ q.hand = Push(r.hand) /\ q.key = [g \in Frame |-> Push(r.key[g])]
      /\ q.list = <<f>> \o r.list
      /\ q.bit = r.bit /\ q.victim = r.victim /\ q.st = r.st
  BY <1>1 DEF Linked, Replacer
<1>3. r \in Replacer /\ n \in Nat /\ n < Capacity /\ Capacity \in Nat
  BY ReplacerType, CapacityAssumption DEF Linked
<1>4. /\ q.list \in Seq(Frame) /\ Len(q.list) = n + 1 /\ q.list[1] = f
      /\ \A i \in 2 .. n + 1 : q.list[i] = r.list[i - 1]
  BY <1>2, <1>3, ReplacerType, Pushed
<1>5. \A x \in RefInto(n) : /\ Push(x) \in RefInto(n + 1) /\ Push(x) \in NodeRef
                            /\ Push(x) = Freed <=> x = Freed
                            /\ x \in 1 .. n => Push(x) = x + 1
  BY <1>3 DEF RefInto, NodeRef, NULL, Freed
<1> HIDE DEF Push, q
<1>6. q.hand \in RefInto(n + 1) /\ q.hand \in NodeRef
  BY <1>2, <1>5, Zenon DEF Linked
<1>7. \A g \in Frame : /\ q.key[g] = Push(r.key[g]) /\ r.key[g] \in RefInto(n)
                       /\ q.key[g] \in RefInto(n + 1) /\ q.key[g] \in NodeRef
                       /\ q.key[g] = Freed <=> r.key[g] = Freed
  BY <1>2, <1>5 DEF Linked
<1>8. q \in Replacer
  <2>1. q.key \in [Frame -> NodeRef]
    BY <1>2, <1>7
  <2>2. PICK l, h, k : /\ l = q.list /\ h = q.hand /\ k = q.key
                       /\ l \in Seq(Frame) /\ h \in NodeRef /\ k \in [Frame -> NodeRef]
                       /\ q = [r EXCEPT !.hand = h, !.key = k, !.list = l]
    BY <1>1, <1>2, <1>4, <1>6, <2>1, Zenon
  <2>3. [r EXCEPT !.hand = h, !.key = k, !.list = l] \in Replacer
    BY <1>3, <2>2, Relinked, Zenon
  <2> QED
    BY <2>2, <2>3, Zenon
<1>9. ASSUME NEW g \in Frame, q.bit[g] # "none", q.key[g] # Freed
      PROVE  q.key[g] \in 1 .. n + 1 /\ q.list[q.key[g]] = g
  <2>1. r.key[g] \in 1 .. n /\ r.list[r.key[g]] = g
    BY <1>2, <1>7, <1>9 DEF Linked
  <2>2. q.key[g] = r.key[g] + 1
    BY <1>5, <1>7, <2>1
  <2>3. q.key[g] \in 2 .. n + 1 /\ q.key[g] - 1 = r.key[g]
    BY <1>3, <2>1, <2>2
  <2>4. q.list[q.key[g]] = r.list[q.key[g] - 1]
    BY <1>4, <2>3, Zenon
  <2> QED
    BY <1>3, <2>1, <2>3, <2>4
<1>10. Linked(q)
  BY <1>3, <1>4, <1>6, <1>7, <1>8, <1>9 DEF Linked
<1> QED
  BY <1>2, <1>4, <1>7, <1>10 DEF q

\* A list without its node p
LEMMA Unlinked ==
  ASSUME NEW s \in Seq(Frame), NEW p \in 1 .. Len(s)
  PROVE  LET w == [i \in 1 .. Len(s) - 1 |-> s[IF i < p THEN i ELSE i + 1]]
         IN /\ w \in Seq(Frame) /\ Len(w) = Len(s) - 1
            /\ \A i \in 1 .. Len(s) - 1 : i < p => w[i] = s[i]
            /\ \A i \in 1 .. Len(s) - 1 : i >= p => w[i] = s[i + 1]
<1>1. Len(s) \in Nat /\ \A i \in 1 .. Len(s) : s[i] \in Frame
  OBVIOUS
<1>2. Len(s) - 1 \in Nat /\ \A i \in 1 .. Len(s) - 1 :
        s[IF i < p THEN i ELSE i + 1] \in Frame
  BY <1>1
<1> QED
  BY <1>1, <1>2

\* Unlinking a node frees the references to it and moves those to the nodes
\* behind it.
LEMMA UnlinkLinked ==
  ASSUME NEW r, Linked(r), NEW p \in 1 .. Len(r.list)
  PROVE  LET q == UnlinkNode(r, p)
         IN /\ Linked(q)
            /\ Len(q.list) = Len(r.list) - 1
            /\ q.bit = r.bit /\ q.victim = r.victim /\ q.st = r.st
<1> DEFINE q == UnlinkNode(r, p)
           n == Len(r.list)
           w == [i \in 1 .. n - 1 |-> r.list[IF i < p THEN i ELSE i + 1]]
           Cut(x) == IF x = p THEN Freed
                     ELSE IF x \in p + 1 .. Capacity THEN x - 1 ELSE x
<1>1. q = [r EXCEPT !.hand = Cut(r.hand), !.key = [g \in Frame |-> Cut(r.key[g])],
                    !.list = w]
  BY DEF Linked, Replacer, UnlinkNode, Moved
<1>2. /\ q.hand = Cut(r.hand) /\ q.key = [g \in Frame |-> Cut(r.key[g])]
      /\ q.list = w
      /\ q.bit = r.bit /\ q.victim = r.victim /\ q.st = r.st
  BY <1>1 DEF Linked, Replacer
<1>3. /\ r \in Replacer /\ n \in Nat /\ n <= Capacity /\ Capacity \in Nat
      /\ p \in 1 .. n /\ n - 1 \in Nat
  BY ReplacerType, CapacityAssumption DEF Linked
<1>4. /\ w \in Seq(Frame) /\ Len(w) = n - 1
      /\ \A i \in 1 .. n - 1 : i < p => w[i] = r.list[i]
      /\ \A i \in 1 .. n - 1 : i >= p => w[i] = r.list[i + 1]
  BY <1>3, ReplacerType, Unlinked
<1>5. \A x \in RefInto(n) : /\ Cut(x) \in RefInto(n - 1) /\ Cut(x) \in NodeRef
                            /\ x = Freed => Cut(x) = Freed
                            /\ x \in 1 .. n /\ Cut(x) # Freed
                                 => /\ Cut(x) \in 1 .. n - 1
                                    /\ x = IF Cut(x) < p THEN Cut(x) ELSE Cut(x) + 1
  BY <1>3 DEF RefInto, NodeRef, NULL, Freed
<1> HIDE DEF Cut, q, w
<1>6. q.hand \in RefInto(n - 1) /\ q.hand \in NodeRef
  BY <1>2, <1>5, Zenon DEF Linked
<1>7. \A g \in Frame : /\ q.key[g] = Cut(r.key[g]) /\ r.key[g] \in RefInto(n)
                       /\ q.key[g] \in RefInto(n - 1) /\ q.key[g] \in NodeRef
                       /\ r.key[g] = Freed => q.key[g] = Freed
  BY <1>2, <1>5, Zenon DEF Linked
<1>8. q \in Replacer
  <2>1. q.key \in [Frame -> NodeRef]
    BY <1>2, <1>7
  <2>2. PICK l, h, k : /\ l = q.list /\ h = q.hand /\ k = q.key
                       /\ l \in Seq(Frame) /\ h \in NodeRef /\ k \in [Frame -> NodeRef]
                       /\ q = [r EXCEPT !.hand = h, !.key = k, !.list = l]
    BY <1>1, <1>2, <1>4, <1>6, <2>1, Zenon
  <2>3. [r EXCEPT !.hand = h, !.key = k, !.list = l] \in Replacer
    BY <1>3, <2>2, Relinked, Zenon
  <2> QED
    BY <2>2, <2>3, Zenon
<1>9. ASSUME NEW g \in Frame, q.bit[g] # "none", q.key[g] # Freed
      PROVE  q.key[g] \in 1 .. n - 1 /\ w[q.key[g]] = g
  <2>1. r.key[g] \in 1 .. n /\ r.list[r.key[g]] = g
    BY <1>2, <1>7, <1>9, Zenon DEF Linked
  <2>2. PICK x : x = q.key[g] /\ x \in 1 .. n - 1 /\ r.key[g] = IF x < p THEN x ELSE x + 1
    BY <1>5, <1>7, <1>9, <2>1, Zenon
  <2>3. w[x] = r.list[r.key[g]]
    <3>1. CASE x < p
      BY <1>4, <2>2, <3>1, Zenon
    <3>2. CASE ~(x < p)
      <4>1. x >= p
        BY <1>3, <2>2, <3>2
      <4> QED
        BY <1>4, <2>2, <3>2, <4>1, Zenon
    <3> QED
      BY <3>1, <3>2
  <2> QED
    BY <2>1, <2>2, <2>3
<1>10. Linked(q)
  <2>1. Len(q.list) = n - 1 /\ Len(q.list) <= Capacity
    BY <1>2, <1>3, <1>4
  <2>2. \A g \in Frame : q.bit[g] # "none" /\ q.key[g] # Freed
                            => q.key[g] \in 1 .. n - 1 /\ q.list[q.key[g]] = g
    BY <1>2, <1>9, Zenon
  <2> QED
    BY <1>6, <1>7, <1>8, <2>1, <2>2, Zenon DEF Linked
<1> QED
  BY <1>2, <1>4, <1>7, <1>10 DEF q

\* A replacer that has failed is linked like the one before.
LEMMA FailedLinked ==
  ASSUME NEW r, Linked(r), NEW q \in {Crashed(r), Undefined(r)}
  PROVE  /\ Linked(q) /\ q.st # "ok"
         /\ q.bit = r.bit /\ q.victim = r.victim
<1>1. PICK s \in {"crashed", "undefined"} : q = [r EXCEPT !.st = s]
  BY DEF Crashed, Undefined
<1>2. /\ q.list = r.list /\ q.hand = r.hand /\ q.bit = r.bit /\ q.key = r.key
      /\ q.victim = r.victim /\ q.st = s
  BY <1>1 DEF Linked, Replacer
<1>3. q \in Replacer
  BY <1>1 DEF Linked, Replacer, Status
<1> QED
  BY <1>2, <1>3 DEF Linked

\* circular_list_remove keeps the replacer linked, whichever node it unlinks.
LEMMA RemoveLinked ==
  ASSUME NEW r, Linked(r), NEW f \in Frame
  PROVE  LET q == circular_list_remove(r, f)
         IN /\ Linked(q)
            /\ q.bit = r.bit /\ q.victim = r.victim
            /\ q.st = "ok" => r.st = "ok"
<1> DEFINE q == circular_list_remove(r, f)
<1>1. /\ r.list \in Seq(Frame) /\ Len(r.list) \in Nat
      /\ r.list = <<>> <=> Len(r.list) = 0
  BY ReplacerType DEF Linked
<1>2. CASE r.list = <<>>
  BY <1>2 DEF circular_list_remove
<1>3. CASE r.list # <<>> /\ Head(r.list) = f
  <2>1. q = UnlinkNode(r, 1) /\ 1 \in 1 .. Len(r.list)
    BY <1>1, <1>3 DEF circular_list_remove
  <2> QED
    BY <2>1, UnlinkLinked
<1>4. CASE r.list # <<>> /\ Head(r.list) # f /\ Len(r.list) = 1
  <2>1. q = Crashed(r)
    BY <1>4 DEF circular_list_remove
  <2> QED
    BY <2>1, FailedLinked
<1>5. CASE r.list # <<>> /\ Head(r.list) # f /\ Len(r.list) # 1
  <2>1. q = UnlinkNode(r, 2) /\ 2 \in 1 .. Len(r.list)
    <3>1. \A m \in Nat : m = 0 \/ m = 1 \/ 2 \in 1 .. m
      OBVIOUS
    <3>2. 2 \in 1 .. Len(r.list)
      BY <1>1, <1>5, <3>1, Zenon
    <3> QED
      BY <1>5, <3>2, Zenon DEF circular_list_remove
  <2> QED
    BY <2>1, UnlinkLinked
<1> QED
  BY <1>2, <1>3, <1>4, <1>5

\* A replacer with another entry in the table
Entry(r, f, b, n) == [r EXCEPT !.bit[f] = b, !.key[f] = n]

\* Changing an entry of the table changes nothing else.
LEMMA EntryFields ==
  ASSUME NEW r \in Replacer, NEW f \in Frame, NEW b \in Bit, NEW n \in NodeRef
  PROVE  LET q == Entry(r, f, b, n)
         IN /\ q \in Replacer
            /\ q.list = r.list /\ q.hand = r.hand /\ q.victim = r.victim /\ q.st = r.st
            /\ \A g \in Frame : /\ q.bit[g] = IF g = f THEN b ELSE r.bit[g]
                                /\ q.key[g] = IF g = f THEN n ELSE r.key[g]
<1> DEFINE q == Entry(r, f, b, n)
<1>1. PICK B, K : B = [r.bit EXCEPT ![f] = b] /\ K = [r.key EXCEPT ![f] = n]
  BY Zenon
<1>2. B \in [Frame -> Bit] /\ K \in [Frame -> NodeRef]
  BY <1>1, ReplacerType
<1>3. q = [r EXCEPT !.bit = B, !.key = K]
  BY <1>1, Zenon DEF Entry
<1> HIDE DEF q
<1>4. q \in Replacer
  BY <1>2, <1>3, Zenon DEF Replacer
<1>5. /\ q.list = r.list /\ q.hand = r.hand /\ q.victim = r.victim /\ q.st = r.st
      /\ q.bit = B /\ q.key = K
  BY <1>3 DEF Replacer
<1>6. \A g \in Frame : /\ B[g] = IF g = f THEN b ELSE r.bit[g]
                       /\ K[g] = IF g = f THEN n ELSE r.key[g]
  BY <1>1, ReplacerType
<1> QED
  BY <1>4, <1>5, <1>6 DEF q

\* hash_insert on the table keeps the replacer linked when its key is the
\* string of a node of that frame.
LEMMA TableSetLinked ==
  ASSUME NEW r, Linked(r), NEW f \in Frame, NEW b \in {"set", "clear"},
         NEW n \in 1 .. Len(r.list), r.list[n] = f
  PROVE  LET q == TableSet(r, f, b, n)
         IN /\ Linked(q) /\ q.victim = r.victim
            /\ q.list = r.list /\ q.hand = r.hand
            /\ q.st = "ok" => r.st = "ok" /\ q.bit[f] = b
            /\ \A g \in Frame : g # f => q.bit[g] = r.bit[g]
<1> DEFINE q == TableSet(r, f, b, n)
<1>1. CASE KeyFreed(r, f)
  <2>1. q = Undefined(r)
    BY <1>1 DEF TableSet
  <2>2. q.list = r.list /\ q.hand = r.hand
    BY <2>1 DEF Undefined, Linked, Replacer
  <2> QED
    BY <2>1, <2>2, FailedLinked
<1>2. CASE ~KeyFreed(r, f)
  <2>1. q = Entry(r, f, b, n)
    BY <1>2 DEF TableSet, Entry
  <2>2. r \in Replacer /\ Len(r.list) \in Nat /\ Len(r.list) <= Capacity /\ Capacity \in Nat
    BY ReplacerType, CapacityAssumption DEF Linked
  <2>3. n \in NodeRef /\ n \in RefInto(Len(r.list)) /\ n # Freed /\ b \in Bit
    BY <2>2 DEF NodeRef, RefInto, Freed, Bit
  <2>4. /\ q \in Replacer
        /\ q.list = r.list /\ q.hand = r.hand /\ q.victim = r.victim /\ q.st = r.st
        /\ \A g \in Frame : /\ q.bit[g] = IF g = f THEN b ELSE r.bit[g]
                            /\ q.key[g] = IF g = f THEN n ELSE r.key[g]
    BY <2>1, <2>2, <2>3, EntryFields
  <2> HIDE DEF q
  <2>5. Linked(q)
    BY <2>3, <2>4 DEF Linked
  <2> QED
    BY <2>4, <2>5 DEF q
<1> QED
  BY <1>1, <1>2

\* hash_remove on the table keeps the replacer linked and, unless the key there
\* was freed, takes the bit away.
LEMMA TableRemoveLinked ==
  ASSUME NEW r, Linked(r), NEW f \in Frame
  PROVE  LET q == TableRemove(r, f)
         IN /\ Linked(q) /\ q.victim = r.victim
            /\ q.list = r.list /\ q.hand = r.hand
            /\ q.st = "ok" => r.st = "ok" /\ q.bit[f] = "none"
            /\ \A g \in Frame : g # f => q.bit[g] = r.bit[g]
            /\ q.bit[f] # "none" => r.bit[f] # "none"
            /\ ~KeyFreed(r, f) => q.st = r.st
<1> DEFINE q == TableRemove(r, f)
<1>1. CASE KeyFreed(r, f)
  <2>1. q = Undefined(r)
    BY <1>1 DEF TableRemove
  <2>2. q.list = r.list /\ q.hand = r.hand
    BY <2>1 DEF Undefined, Linked, Replacer
  <2> QED
    BY <1>1, <2>1, <2>2, FailedLinked
<1>2. CASE ~KeyFreed(r, f)
  <2>1. q = Entry(r, f, "none", NULL)
    BY <1>2 DEF TableRemove, Entry
  <2>2. r \in Replacer
    BY DEF Linked
  <2>3. NULL \in NodeRef /\ NULL \in RefInto(Len(r.list)) /\ "none" \in Bit
    BY CapacityAssumption DEF NodeRef, RefInto, NULL, Bit
  <2>4. /\ q \in Replacer
        /\ q.list = r.list /\ q.hand = r.hand /\ q.victim = r.victim /\ q.st = r.st
        /\ \A g \in Frame : /\ q.bit[g] = IF g = f THEN "none" ELSE r.bit[g]
                            /\ q.key[g] = IF g = f THEN NULL ELSE r.key[g]
    BY <2>1, <2>2, <2>3, EntryFields
  <2> HIDE DEF q
  <2>5. Linked(q)
    BY <2>3, <2>4 DEF Linked
  <2> QED
    BY <2>4, <2>5 DEF q
<1> QED
  BY <1>1, <1>2

-----------------------------------------------------------------------------
(* The calls. *)

\* An empty replacer is linked.
LEMMA InitLinked ==
  /\ Linked(clock_replacer_init)
  /\ \A f \in Frame : clock_replacer_init.bit[f] = "none"
  /\ clock_replacer_init.victim = NoFrame /\ clock_replacer_init.st = "ok"
<1>1. /\ NULL \in NodeRef /\ NoFrame \in Frame \cup {NoFrame} /\ "none" \in Bit
      /\ "ok" \in Status /\ <<>> \in Seq(Frame) /\ Len(<<>>) = 0
  BY CapacityAssumption DEF NodeRef, NULL, Bit, Status
<1>2. clock_replacer_init \in Replacer
  BY <1>1 DEF clock_replacer_init, Replacer
<1>3. /\ clock_replacer_init.list = <<>> /\ clock_replacer_init.hand = NULL
      /\ \A f \in Frame : /\ clock_replacer_init.bit[f] = "none"
                          /\ clock_replacer_init.key[f] = NULL
      /\ clock_replacer_init.victim = NoFrame /\ clock_replacer_init.st = "ok"
  BY DEF clock_replacer_init
<1>4. 0 <= Capacity
  BY CapacityAssumption
<1> QED
  BY <1>1, <1>2, <1>3, <1>4 DEF Linked, RefInto

\* Pinning a frame takes its reference bit and leaves the others.
LEMMA PinLinked ==
  ASSUME NEW r, Linked(r), NEW f \in Frame
  PROVE  LET q == clock_replacer_pin(r, f)
         IN /\ Linked(q) /\ q.victim = r.victim
            /\ q.st = "ok" => r.st = "ok" /\ q.bit[f] = "none"
            /\ \A g \in Frame : g # f => q.bit[g] = r.bit[g]
            /\ \A g \in Frame : q.bit[g] # "none" => r.bit[g] # "none"
<1> DEFINE s == TableRemove(r, f)
           q == clock_replacer_pin(r, f)
<1>1. /\ Linked(s) /\ s.victim = r.victim
      /\ s.st = "ok" => r.st = "ok" /\ s.bit[f] = "none"
      /\ \A g \in Frame : g # f => s.bit[g] = r.bit[g]
      /\ s.bit[f] # "none" => r.bit[f] # "none"
  BY TableRemoveLinked
<1>2. q = IF s.st # "ok" THEN s ELSE circular_list_remove(s, f)
  BY DEF clock_replacer_pin
<1> HIDE DEF s, q
<1>3. CASE s.st # "ok"
  BY <1>1, <1>2, <1>3 DEF q
<1>4. CASE s.st = "ok"
  <2>1. /\ Linked(q) /\ q.bit = s.bit /\ q.victim = s.victim
        /\ q.st = "ok" => s.st = "ok"
    BY <1>1, <1>2, <1>4, RemoveLinked
  <2> QED
    BY <1>1, <2>1 DEF q
<1> QED
  BY <1>3, <1>4

\* Unpinning a frame gives a reference bit to no other frame.
LEMMA UnpinLinked ==
  ASSUME NEW r, Linked(r), NEW f \in Frame
  PROVE  LET q == clock_replacer_unpin(r, f)
         IN /\ Linked(q) /\ q.victim = r.victim
            /\ q.st = "ok" => r.st = "ok"
            /\ \A g \in Frame : g # f => q.bit[g] = r.bit[g]
<1> DEFINE s == circular_list_insert(r, f)
           q == clock_replacer_unpin(r, f)
<1>1. CASE Len(r.list) = Capacity
  BY <1>1 DEF clock_replacer_unpin
<1>2. CASE Len(r.list) # Capacity
  <2>1. Len(r.list) < Capacity
    BY <1>2, ReplacerType, CapacityAssumption DEF Linked
  <2>2. /\ Linked(s) /\ Len(s.list) = Len(r.list) + 1 /\ s.list[1] = f
        /\ s.bit = r.bit /\ s.victim = r.victim /\ s.st = r.st
    BY <2>1, InsertLinked
  <2>3. q = TableSet(s, f, "set", 1)
    BY <1>2 DEF clock_replacer_unpin
  <2> HIDE DEF s, q
  <2>4. 1 \in 1 .. Len(s.list)
    BY <2>2, ReplacerType DEF Linked
  <2>5. /\ Linked(q) /\ q.victim = s.victim
        /\ q.st = "ok" => s.st = "ok"
        /\ \A g \in Frame : g # f => q.bit[g] = s.bit[g]
    BY <2>2, <2>3, <2>4, TableSetLinked
  <2> QED
    BY <2>2, <2>5 DEF q
<1> QED
  BY <1>1, <1>2

\* The loop of evict goes on.
Sweeping(q) == q.st = "ok" /\ q.victim = NoFrame

\* The replacer with another victim or another hand
WithVictim(q, f) == [q EXCEPT !.victim = f]
WithHand(q, h) == [q EXCEPT !.hand = h]

\* Setting the victim changes nothing else.
LEMMA VictimLinked ==
  ASSUME NEW q, Linked(q), NEW f \in Frame \cup {NoFrame}
  PROVE  LET s == WithVictim(q, f)
         IN Linked(s) /\ s.victim = f /\ s.bit = q.bit /\ s.st = q.st /\ s.list = q.list
<1> DEFINE s == WithVictim(q, f)
<1>1. s \in Replacer
  BY DEF Linked, WithVictim, Replacer
<1>2. /\ s.list = q.list /\ s.hand = q.hand /\ s.bit = q.bit /\ s.key = q.key
      /\ s.victim = f /\ s.st = q.st
  BY DEF Linked, WithVictim, Replacer
<1> HIDE DEF s
<1> QED
  BY <1>1, <1>2 DEF Linked, s

\* Setting the hand changes nothing else.
LEMMA HandLinked ==
  ASSUME NEW q, Linked(q), NEW h \in RefInto(Len(q.list))
  PROVE  LET s == WithHand(q, h)
         IN /\ Linked(s) /\ s.hand = h
            /\ s.victim = q.victim /\ s.bit = q.bit /\ s.st = q.st /\ s.list = q.list
<1> DEFINE s == WithHand(q, h)
<1>1. h \in NodeRef
  BY ReplacerType, CapacityAssumption DEF Linked, RefInto, NodeRef, NULL, Freed
<1>2. s \in Replacer
  BY <1>1 DEF Linked, WithHand, Replacer
<1>3. /\ s.list = q.list /\ s.hand = h /\ s.bit = q.bit /\ s.key = q.key
      /\ s.victim = q.victim /\ s.st = q.st
  BY DEF Linked, WithHand, Replacer
<1> HIDE DEF s
<1> QED
  BY <1>2, <1>3 DEF Linked, s

\* A victim that is taken loses its reference bit.
LEMMA TakeLinked ==
  ASSUME NEW q, Linked(q), NEW f \in Frame, ~KeyFreed(q, f)
  PROVE  LET s == TakeVictim(q, f)
         IN /\ Linked(s) /\ s.victim = f
            /\ s.st = "ok" => s.bit[f] = "none"
            /\ \A g \in Frame : g # f => s.bit[g] = q.bit[g]
            /\ \A g \in Frame : s.bit[g] # "none" => q.bit[g] # "none"
<1> DEFINE a == TableRemove(q, f)
           b == circular_list_remove(a, f)
           s == TakeVictim(q, f)
<1>1. /\ Linked(a)
      /\ a.st = "ok" => a.bit[f] = "none"
      /\ \A g \in Frame : g # f => a.bit[g] = q.bit[g]
      /\ a.bit[f] # "none" => q.bit[f] # "none"
  BY TableRemoveLinked
<1> HIDE DEF a
<1>2. Linked(b) /\ b.bit = a.bit /\ (b.st = "ok" => a.st = "ok")
  BY <1>1, RemoveLinked
<1>3. s = WithVictim(b, f)
  BY DEF TakeVictim, WithVictim, a
<1> HIDE DEF b, s
<1>4. Linked(s) /\ s.victim = f /\ s.bit = b.bit /\ s.st = b.st
  BY <1>2, <1>3, VictimLinked, SMTT(30)
<1> QED
  BY <1>1, <1>2, <1>4 DEF s

\* A round that finds nothing to do, fails, takes the frame at the hand because
\* its bit is clear, or clears the bit and moves the hand.
LEMMA SweepCases ==
  ASSUME NEW q, Linked(q), q.hand \in 1 .. Len(q.list) \cup {Freed}
  PROVE  LET s == SweepStep(q)
             f == q.list[q.hand]
         IN \/ ~Sweeping(q) /\ s = q
            \/ s.st # "ok" /\ Linked(s) /\ s.bit = q.bit /\ s.victim = q.victim
            \/ /\ q.hand # Freed /\ f \in Frame /\ q.bit[f] = "clear"
               /\ Linked(s) /\ s.victim = f
               /\ s.st = "ok" => s.bit[f] = "none"
               /\ \A g \in Frame : s.bit[g] # "none" => q.bit[g] # "none"
            \/ /\ q.hand # Freed /\ f \in Frame /\ q.bit[f] = "set"
               /\ Linked(s) /\ s.victim = q.victim /\ s.list = q.list
               /\ s.hand = circular_list_next(q, q.hand)
               /\ s.st = "ok" => s.bit[f] = "clear"
               /\ \A g \in Frame : g # f => s.bit[g] = q.bit[g]
<1> DEFINE s == SweepStep(q)
           f == q.list[q.hand]
           h == circular_list_next(q, q.hand)
           n == Len(q.list)
<1>1. n \in Nat /\ q \in Replacer /\ \A i \in 1 .. n : q.list[i] \in Frame
  BY ReplacerType DEF Linked
<1>2. CASE ~Sweeping(q)
  BY <1>2, Zenon DEF SweepStep, Sweeping
<1>3. CASE Sweeping(q) /\ (q.hand = Freed \/ q.bit[f] = "none" \/ KeyFreed(q, f))
  <2>1. s \in {Crashed(q), Undefined(q)}
    BY <1>3, Zenon DEF SweepStep, Sweeping
  <2> HIDE DEF s
  <2> QED
    BY <2>1, FailedLinked DEF s
<1>4. CASE /\ Sweeping(q) /\ q.hand # Freed /\ q.bit[f] # "none" /\ ~KeyFreed(q, f)
           /\ q.bit[f] = "clear"
  <2>1. f \in Frame
    BY <1>1, <1>4
  <2>2. s = TakeVictim(q, f)
    BY <1>4, Zenon DEF SweepStep, Sweeping
  <2> HIDE DEF s, f
  <2>3. /\ Linked(s) /\ s.victim = f
        /\ s.st = "ok" => s.bit[f] = "none"
        /\ \A g \in Frame : s.bit[g] # "none" => q.bit[g] # "none"
    BY <1>4, <2>1, <2>2, TakeLinked
  <2> QED
    BY <1>4, <2>1, <2>3 DEF s, f
<1>5. CASE /\ Sweeping(q) /\ q.hand # Freed /\ q.bit[f] # "none" /\ ~KeyFreed(q, f)
           /\ q.bit[f] # "clear"
  <2> DEFINE a == TableSet(q, f, "clear", q.hand)
  <2>1. f \in Frame /\ q.hand \in 1 .. n
    BY <1>1, <1>5
  <2>2. s = WithHand(a, circular_list_next(q, a.hand))
    BY <1>5, Zenon DEF SweepStep, Sweeping, WithHand
  <2>3. q.bit[f] = "set"
    BY <1>1, <1>5, <2>1, ReplacerType DEF Bit
  <2>4. h \in RefInto(n)
    BY <1>1, <2>1 DEF circular_list_next, RefInto
  <2> HIDE DEF s, f, h
  <2>5. /\ Linked(a) /\ a.victim = q.victim /\ a.list = q.list /\ a.hand = q.hand
        /\ a.st = "ok" => a.bit[f] = "clear"
        /\ \A g \in Frame : g # f => a.bit[g] = q.bit[g]
    BY <2>1, TableSetLinked DEF f
  <2> HIDE DEF a
  <2>6. /\ Linked(s) /\ s.hand = h
        /\ s.victim = a.victim /\ s.bit = a.bit /\ s.st = a.st /\ s.list = a.list
    BY <2>2, <2>4, <2>5, HandLinked DEF h
  <2> QED
    BY <1>5, <2>1, <2>3, <2>5, <2>6 DEF s, f, h
<1> QED
  BY <1>2, <1>3, <1>4, <1>5, Zenon

\* The node n rounds after node h in a list of m nodes
Turn(h, n, m) == IF h + n <= m THEN h + n ELSE h + n - m

\* The hand goes round the list and is back only after as many rounds as the
\* list has nodes.
LEMMA Turns ==
  ASSUME NEW m \in Nat, NEW h \in 1 .. m, NEW n \in 0 .. m - 1
  PROVE  /\ Turn(h, n, m) \in 1 .. m
         /\ Turn(h, n + 1, m) = IF Turn(h, n, m) = m THEN 1 ELSE Turn(h, n, m) + 1
         /\ \A j \in 0 .. n - 1 : Turn(h, j, m) \in 1 .. m /\ Turn(h, j, m) # Turn(h, n, m)
BY DEF Turn

\* Frame v is in the list more than once.
Twice(r, v) ==
  \E i, j \in 1 .. Len(r.list) : i # j /\ r.list[i] = v /\ r.list[j] = v

\* The frame of a node that the first n rounds met
Met(r, n, g) ==
  \E j \in 0 .. n - 1 : r.list[Turn(SweepStart(r).hand, j, Len(r.list))] = g

\* While the loop goes on it has only moved the hand and cleared bits of frames
\* it has met.
OnTurn(r, q, n) ==
  /\ q.list = r.list
  /\ \/ q.hand = Freed
     \/ /\ SweepStart(r).hand \in 1 .. Len(r.list)
        /\ q.hand = Turn(SweepStart(r).hand, n, Len(r.list))
  /\ \A g \in Frame : q.bit[g] = "clear" => r.bit[g] = "clear" \/ Met(r, n, g)

\* What n rounds of evict have made of replacer r
InSweep(r, q, n) ==
  /\ Linked(q)
  /\ \A g \in Frame : q.bit[g] # "none" => r.bit[g] # "none"
  /\ q.victim # NoFrame =>
       /\ r.bit[q.victim] # "none"
       /\ q.st = "ok" => /\ q.bit[q.victim] = "none"
                         /\ r.bit[q.victim] = "clear" \/ Twice(r, q.victim)
  /\ Sweeping(q) /\ r.list # <<>> => OnTurn(r, q, n)

\* The loop of evict starts right.
LEMMA StartInSweep ==
  ASSUME NEW r, Linked(r)
  PROVE  InSweep(r, SweepStart(r), 0)
<1> DEFINE q == SweepStart(r)
           h == IF r.hand = NULL /\ r.list # <<>> THEN 1 ELSE r.hand
           a == WithVictim(r, NoFrame)
<1>1. /\ r \in Replacer /\ r.list \in Seq(Frame) /\ Len(r.list) \in Nat
      /\ r.list # <<>> <=> Len(r.list) # 0
  BY ReplacerType DEF Linked
<1>2. h \in RefInto(Len(r.list)) /\ (r.list # <<>> => h # NULL)
  BY <1>1 DEF Linked, RefInto, NULL
<1>3. Linked(a) /\ a.victim = NoFrame /\ a.bit = r.bit /\ a.list = r.list
  BY VictimLinked
<1>4. q = WithHand(a, h)
  BY DEF SweepStart, WithHand, WithVictim, Linked, Replacer
<1> HIDE DEF a, h, q
<1>5. /\ Linked(q) /\ q.hand = h
      /\ q.victim = NoFrame /\ q.bit = r.bit /\ q.list = r.list
  BY <1>2, <1>3, <1>4, HandLinked
<1>6. r.list # <<>> => OnTurn(r, q, 0)
  <2> SUFFICES ASSUME r.list # <<>>
               PROVE  OnTurn(r, q, 0)
    OBVIOUS
  <2>1. h = Freed \/ h \in 1 .. Len(r.list)
    BY <1>2 DEF RefInto
  <2>2. h \in 1 .. Len(r.list) => h = Turn(h, 0, Len(r.list))
    BY <1>1 DEF Turn
  <2> QED
    BY <1>5, <2>1, <2>2 DEF OnTurn, q
<1> QED
  BY <1>5, <1>6 DEF InSweep, q

\* A round keeps it so.
LEMMA StepInSweep ==
  ASSUME NEW r, Linked(r), NEW n \in 0 .. Len(r.list) - 1,
         NEW q, InSweep(r, q, n)
  PROVE  InSweep(r, SweepStep(q), n + 1)
<1> DEFINE s == SweepStep(q)
           m == Len(r.list)
           h == SweepStart(r).hand
           f == q.list[q.hand]
<1>1. /\ r \in Replacer /\ r.list \in Seq(Frame) /\ m \in Nat /\ m # 0
      /\ r.list # <<>>
  BY ReplacerType DEF Linked
<1>2. CASE ~Sweeping(q)
  <2>1. s = q
    BY <1>2, Zenon DEF SweepStep, Sweeping
  <2> QED
    BY <1>2, <2>1, Zenon DEF InSweep
<1>3. CASE Sweeping(q)
  <2>1. OnTurn(r, q, n) /\ Linked(q)
    BY <1>1, <1>3, Zenon DEF InSweep
  <2>2. q.list = r.list /\ q.hand \in 1 .. Len(q.list) \cup {Freed}
    BY <1>1, <2>1, Turns, ZenonT(30) DEF OnTurn
  <2>3. q.victim = NoFrame
    BY <1>3 DEF Sweeping
  <2>4. CASE s.st # "ok" /\ Linked(s) /\ s.bit = q.bit /\ s.victim = q.victim
    BY <2>3, <2>4, Zenon DEF InSweep, Sweeping
  <2>5. CASE /\ q.hand # Freed /\ f \in Frame /\ q.bit[f] = "clear"
             /\ Linked(s) /\ s.victim = f
             /\ s.st = "ok" => s.bit[f] = "none"
             /\ \A g \in Frame : s.bit[g] # "none" => q.bit[g] # "none"
    <3>1. h \in 1 .. m /\ q.hand = Turn(h, n, m)
      BY <2>1, <2>5, Zenon DEF OnTurn
    <3>2. r.bit[f] = "clear" \/ Met(r, n, f)
      BY <2>1, <2>5, Zenon DEF OnTurn
    <3>3. Met(r, n, f) => Twice(r, f)
      <4> SUFFICES ASSUME NEW j \in 0 .. n - 1, r.list[Turn(h, j, m)] = f
                   PROVE  Twice(r, f)
        BY DEF Met
      <4>1. /\ Turn(h, j, m) \in 1 .. m /\ Turn(h, n, m) \in 1 .. m
            /\ Turn(h, j, m) # Turn(h, n, m)
        BY <1>1, <3>1, Turns
      <4>2. r.list[Turn(h, n, m)] = f
        BY <2>2, <3>1, Zenon
      <4> QED
        BY <4>1, <4>2, Zenon DEF Twice
    <3>4. q.bit[f] # "none" /\ f # NoFrame
      BY <2>5, CapacityAssumption DEF Frame, NoFrame
    <3> HIDE DEF f, s
    <3>5. \A g \in Frame : s.bit[g] # "none" => r.bit[g] # "none"
      BY <2>5, Zenon DEF InSweep
    <3>6. r.bit[f] # "none"
      BY <2>5, <3>4, Zenon DEF InSweep
    <3> QED
      BY <2>5, <3>2, <3>3, <3>4, <3>5, <3>6, Zenon DEF InSweep, Sweeping, s
  <2>6. CASE /\ q.hand # Freed /\ f \in Frame /\ q.bit[f] = "set"
             /\ Linked(s) /\ s.victim = q.victim /\ s.list = q.list
             /\ s.hand = circular_list_next(q, q.hand)
             /\ s.st = "ok" => s.bit[f] = "clear"
             /\ \A g \in Frame : g # f => s.bit[g] = q.bit[g]
    <3>1. h \in 1 .. m /\ q.hand = Turn(h, n, m)
      BY <2>1, <2>6, Zenon DEF OnTurn
    <3>2. s.hand = Turn(h, n + 1, m)
      <4>1. s.hand = IF Turn(h, n, m) = m THEN 1 ELSE Turn(h, n, m) + 1
        BY <2>2, <2>6, <3>1, Zenon DEF circular_list_next
      <4> QED
        BY <1>1, <3>1, <4>1, Turns, Zenon
    <3>3. \A g \in Frame : Met(r, n, g) => Met(r, n + 1, g)
      BY <1>1 DEF Met
    <3>4. Met(r, n + 1, f)
      <4>1. n \in 0 .. n + 1 - 1
        BY <1>1
      <4>2. r.list[Turn(h, n, m)] = f
        BY <2>2, <3>1, Zenon
      <4> HIDE DEF f
      <4> QED
        BY <4>1, <4>2 DEF Met
    <3> HIDE DEF f, s, h
    <3>5. \A g \in Frame : s.bit[g] # "none" => r.bit[g] # "none"
      BY <2>6, Zenon DEF InSweep
    <3>6. \A g \in Frame : s.bit[g] = "clear" => r.bit[g] = "clear" \/ Met(r, n + 1, g)
      BY <2>1, <2>6, <3>3, <3>4, Zenon DEF OnTurn
    <3>7. OnTurn(r, s, n + 1)
      BY <2>2, <2>6, <3>1, <3>2, <3>6, Zenon DEF OnTurn, h
    <3> QED
      BY <2>3, <2>6, <3>5, <3>7, Zenon DEF InSweep, s
  <2> HIDE DEF s, f
  <2> QED
    BY <1>3, <2>1, <2>2, <2>4, <2>5, <2>6, SweepCases, Zenon DEF s, f
<1> QED
  BY <1>2, <1>3

\* What evict makes of a replacer, whatever the list has come to: the links it
\* leaves are right, it creates no reference bit, and a frame it hands out had
\* one, which is gone and was clear unless the frame is in the list twice.
LEMMA EvictLinked ==
  ASSUME NEW r, Linked(r)
  PROVE  InSweep(r, evict(r), Len(r.list))
<1> DEFINE m == Len(r.list)
<1>1. m \in Nat /\ m \in 0 .. Capacity
  BY ReplacerType, CapacityAssumption DEF Linked
<1>2. PICK f : Rounds(r, f, m) /\ evict(r) = f[m]
  BY <1>1, EvictRounds
<1> DEFINE T == {n \in 0 .. m : InSweep(r, f[n], n)}
<1>3. 0 \in T
  BY <1>1, <1>2, StartInSweep DEF Rounds
<1>4. ASSUME NEW n \in 0 .. m - 1, n \in T
      PROVE  n + 1 \in T
  <2>1. n + 1 \in 0 .. m /\ n + 1 \in 1 .. m /\ n + 1 - 1 = n
    BY <1>1
  <2>2. f[n + 1] = SweepStep(f[n])
    BY <1>2, <2>1 DEF Rounds
  <2>3. InSweep(r, SweepStep(f[n]), n + 1)
    BY <1>4, StepInSweep
  <2> QED
    BY <2>1, <2>2, <2>3
<1> HIDE DEF T
<1>5. \A n \in 0 .. m : n \in T
  BY <1>1, <1>3, <1>4, UpTo, SMTT(30)
<1>6. m \in T
  BY <1>1, <1>5
<1> QED
  BY <1>2, <1>6 DEF T
=============================================================================
