------------------------- MODULE TeammatePool_proofs -------------------------
(***************************************************************************)
(* Theorems about TeammatePool for any names, sizes and events: the types, *)
(* and that the spawner kills only teammates dismissed since they were     *)
(* asked for.                                                              *)
(*                                                                         *)
(* The invariant of the queue is InTurn (an older dismissal comes due, and *)
(* of one name is interrupted, no later than a newer one) and Marks (what  *)
(* runs under the name of a pending dismissal was dismissed).  The loop    *)
(* over the queue keeps it directive by directive, which is an induction   *)
(* over the queue; it is carried out on the least place where the loop's   *)
(* own invariant would fail.                                               *)
(***************************************************************************)
EXTENDS TeammatePool, Integers, SequenceTheorems, FiniteSetTheorems, WellFoundedInduction, TLAPS

Procs == {"none", "starting", "up", "leaving"}
Pass  == [windows : SUBSET Names, proc : [Names -> Procs], marked : SUBSET Names, left : Seq(Directive)]

IsDismissal(d) == d.action = "dismiss"

\* An older dismissal of a queue comes due no later than a newer one, and of the same name
\* is interrupted no later.
InTurn(q) ==
    \A i, j \in DOMAIN q : i < j /\ IsDismissal(q[i]) /\ IsDismissal(q[j]) =>
        /\ q[j].due => q[i].due
        /\ q[i].name = q[j].name /\ q[j].interrupted => q[i].interrupted

\* What runs under the name of a dismissal in a queue was dismissed.
Marks(q, procs, mark) ==
    \A i \in DOMAIN q : IsDismissal(q[i]) /\ procs[q[i].name] # "none" => q[i].name \in mark

QueueInv == TypeOK /\ InTurn(directives) /\ Marks(directives, proc, marked)

\* How a dismissal is left in the queue.
LeftAs(d) == [d EXCEPT !.interrupted = DismissReady(d)]

\* d is a dismissal among the first k directives, left in the queue.
LeftFrom(d, k) ==
    \E m \in DOMAIN directives :
        /\ m <= k /\ IsDismissal(directives[m]) /\ ~directives[m].interrupted
        /\ d = LeftAs(directives[m])

\* The loop after its first k directives: what it left in the queue are dismissals among
\* them whose windows are there, and what it closed somebody dismissed.
LoopInv(k, pass) ==
    /\ pass \in Pass
    /\ \A n \in Names : pass.proc[n] # "none" => n \in pass.windows
    /\ InTurn(pass.left) /\ Marks(pass.left, pass.proc, pass.marked)
    /\ \A i \in DOMAIN pass.left : pass.left[i].name \in pass.windows /\ LeftFrom(pass.left[i], k)
    /\ \A m \in DOMAIN directives :
          m > k /\ IsDismissal(directives[m]) /\ pass.proc[directives[m].name] # "none"
             => directives[m].name \in pass.marked
    /\ \A n \in windows \ pass.windows :
          \E m \in DOMAIN directives : IsDismissal(directives[m]) /\ directives[m].name = n

-----------------------------------------------------------------------------
(* A set of numbers has a least one. *)

LEMMA NumbersOrdered == \E R : IsWellFoundedOn(R, Nat) /\ \A m, n \in Nat : m < n => <<m, n>> \in R
  <1>1. \A m, n \in Nat : m < n => <<m, n>> \in OpToRel(<, Nat)
    BY DEF OpToRel
  <1> QED  BY NatLessThanWellFounded, <1>1

LEMMA Least ==
    ASSUME NEW T \in SUBSET Nat, T # {}
    PROVE  \E n \in T : \A m \in T : n <= m
  <1>1. PICK R : IsWellFoundedOn(R, Nat) /\ \A m, n \in Nat : m < n => <<m, n>> \in R
    BY NumbersOrdered
  <1>2. PICK x \in T : \A y \in T : ~ (<<y, x>> \in R)
    <2>1. T \subseteq Nat /\ IsWellFoundedOn(R, Nat)
      BY <1>1
    <2> HIDE <1>1
    <2> QED  BY <2>1, WFMin
  <1>3. \A y \in T : ~(y < x)
    BY <1>1, <1>2
  <1> QED  BY <1>2, <1>3

\* What holds of 0 and of the successor of every number it holds of, up to n, holds of n.
LEMMA Induction ==
    ASSUME NEW P \in SUBSET Nat, NEW n \in Nat, 0 \in P, \A k \in 0..(n - 1) : k \in P => k + 1 \in P
    PROVE  n \in P
  <1> SUFFICES ASSUME n \notin P PROVE FALSE
    OBVIOUS
  <1> DEFINE T == {k \in 0..n : k \notin P}
  <1>1. PICK m \in T : \A k \in T : m <= k
    <2>1. T \in SUBSET Nat /\ n \in T
      OBVIOUS
    <2> QED  BY <2>1, Least
  <1>2. m \in 1..n /\ m - 1 \in 0..(n - 1) /\ m - 1 \in P
    BY <1>1
  <1>3. m \in P
    BY <1>2
  <1> QED  BY <1>1, <1>3

-----------------------------------------------------------------------------
(* The loop of realizePending, directive by directive. *)

Start == [windows |-> windows, proc |-> proc, marked |-> marked, left |-> << >>]

\* g is the loop up to its n-th directive.
LoopTo(n, g) ==
    /\ g[0] = Start
    /\ \A k \in 1..n : g[k] = RealizeOne(g[k - 1], WorkList[k])

LEMMA LoopExists ==
    ASSUME NEW n \in Nat
    PROVE  \E g : LoopTo(n, g)
  <1> DEFINE P == {k \in Nat : \E g : LoopTo(k, g)}
  <1>1. 0 \in P
    <2> DEFINE g == [k \in {0} |-> Start]
    <2>1. LoopTo(0, g)
      BY DEF LoopTo
    <2> QED  BY <2>1
  <1>2. ASSUME NEW k \in Nat, k \in P PROVE k + 1 \in P
    <2>1. PICK g : LoopTo(k, g)
      BY <1>2
    <2> DEFINE h == [j \in 0..(k + 1) |-> IF j = k + 1 THEN RealizeOne(g[k], WorkList[k + 1]) ELSE g[j]]
    <2>2. h[0] = Start
      BY <2>1 DEF LoopTo
    <2>3. ASSUME NEW j \in 1..(k + 1) PROVE h[j] = RealizeOne(h[j - 1], WorkList[j])
      <3>1. CASE j = k + 1
        <4>1. h[j - 1] = g[k] /\ h[j] = RealizeOne(g[k], WorkList[k + 1])
          BY <3>1
        <4> QED  BY <3>1, <4>1
      <3>2. CASE j # k + 1
        <4>1. j \in 1..k /\ h[j - 1] = g[j - 1] /\ h[j] = g[j]
          BY <3>2
        <4> QED  BY <2>1, <4>1 DEF LoopTo
      <3> QED  BY <3>1, <3>2
    <2> HIDE DEF h
    <2>4. LoopTo(k + 1, h)
      BY <2>2, <2>3 DEF LoopTo
    <2> QED  BY <2>4
  <1> HIDE DEF P
  <1>3. \A k \in 0..(n - 1) : k \in P => k + 1 \in P
    BY <1>2
  <1>4. n \in P
    <2>1. P \in SUBSET Nat
      BY DEF P
    <2> QED  BY <1>1, <1>3, <2>1, Induction
  <1> QED  BY <1>4 DEF P

LEMMA LoopUnique ==
    ASSUME NEW m \in Nat, NEW n \in Nat, m <= n, NEW g, NEW h, LoopTo(m, g), LoopTo(n, h)
    PROVE  g[m] = h[m]
  <1> DEFINE P == {k \in Nat : k <= m => g[k] = h[k]}
  <1>1. 0 \in P
    BY DEF LoopTo
  <1>2. ASSUME NEW k \in 0..(m - 1), k \in P PROVE k + 1 \in P
    <2>1. g[k] = h[k] /\ k + 1 \in 1..m /\ k + 1 \in 1..n /\ (k + 1) - 1 = k
      BY <1>2
    <2>2. g[k + 1] = RealizeOne(g[k], WorkList[k + 1]) /\ h[k + 1] = RealizeOne(h[k], WorkList[k + 1])
      BY <2>1 DEF LoopTo
    <2> QED  BY <1>2, <2>1, <2>2
  <1>3. m \in P
    BY <1>1, <1>2, Induction
  <1> QED  BY <1>3

LEMMA PassIs ==
    /\ PassAfter[0] = Start
    /\ \A k \in Nat \ {0} : PassAfter[k] = RealizeOne(PassAfter[k - 1], WorkList[k])
  <1> DEFINE Loop(k) == CHOOSE g : LoopTo(k, g)
             f == [k \in Nat |-> Loop(k)[k]]
  <1>1. ASSUME NEW k \in Nat PROVE LoopTo(k, Loop(k))
    BY LoopExists
  <1>2. f[0] = Start
    BY <1>1 DEF LoopTo
  <1>3. ASSUME NEW k \in Nat \ {0} PROVE f[k] = RealizeOne(f[k - 1], WorkList[k])
    <2>1. LoopTo(k, Loop(k)) /\ LoopTo(k - 1, Loop(k - 1)) /\ k - 1 \in Nat
      BY <1>1
    <2> HIDE DEF Loop
    <2>2. Loop(k)[k] = RealizeOne(Loop(k)[k - 1], WorkList[k])
      BY <2>1 DEF LoopTo
    <2>3. Loop(k - 1)[k - 1] = Loop(k)[k - 1]
      BY <2>1, LoopUnique
    <2> QED  BY <2>1, <2>2, <2>3
  <1> DEFINE Is(g) == g = [k \in Nat |-> IF k = 0 THEN Start ELSE RealizeOne(g[k - 1], WorkList[k])]
  <1>4. Is(f)
    <2> DEFINE h == [k \in Nat |-> IF k = 0 THEN Start ELSE RealizeOne(f[k - 1], WorkList[k])]
    <2>1. ASSUME NEW k \in Nat PROVE f[k] = h[k]
      BY <1>2, <1>3
    <2>2. DOMAIN f = Nat /\ DOMAIN h = Nat /\ f = [k \in Nat |-> f[k]] /\ h = [k \in Nat |-> h[k]]
      OBVIOUS
    <2> HIDE DEF f
    <2>3. f = h
      BY <2>1, <2>2
    <2> QED  BY <2>3
  <1>5. PassAfter = CHOOSE g : Is(g)
    BY DEF PassAfter, Start
  <1> HIDE DEF f
  <1>6. Is(PassAfter)
    BY <1>4, <1>5
  <1> QED  BY <1>6

-----------------------------------------------------------------------------
(* What the loop does with one directive. *)

LEMMA PassFields ==
    ASSUME NEW pass \in Pass
    PROVE  /\ pass.windows \in SUBSET Names /\ pass.proc \in [Names -> Procs]
           /\ pass.marked \in SUBSET Names /\ pass.left \in Seq(Directive)
  BY DEF Pass

LEMMA DirectivesAre ==
    ASSUME TypeOK
    PROVE  /\ directives \in Seq(Directive) /\ Len(directives) \in Nat
           /\ DOMAIN directives = 1..Len(directives)
           /\ \A k \in DOMAIN directives :
                 /\ directives[k] \in Directive /\ directives[k].name \in Names
                 /\ directives[k].action \in {"spawn", "dismiss"}
                 /\ directives[k].due \in BOOLEAN /\ directives[k].interrupted \in BOOLEAN
  <1>1. directives \in Seq(Directive)
    BY DEF TypeOK
  <1>2. \A k \in DOMAIN directives : directives[k] \in Directive
    BY <1>1
  <1> QED  BY <1>1, <1>2 DEF Directive

LEMMA LeftLater ==
    ASSUME TypeOK, NEW k \in Nat, NEW d, LeftFrom(d, k)
    PROVE  LeftFrom(d, k + 1)
  <1>1. PICK m \in DOMAIN directives :
            /\ m <= k /\ IsDismissal(directives[m]) /\ ~directives[m].interrupted
            /\ d = LeftAs(directives[m])
    BY DEF LeftFrom
  <1>2. m <= k + 1
    BY <1>1, DirectivesAre
  <1> QED  BY <1>1, <1>2 DEF LeftFrom

\* The loop goes on to the next directive without doing anything.
LEMMA PassesBy ==
    ASSUME TypeOK, NEW k \in Nat, NEW pass, LoopInv(k, pass)
    PROVE  LoopInv(k + 1, pass)
  <1>1. \A i \in DOMAIN pass.left : pass.left[i].name \in pass.windows /\ LeftFrom(pass.left[i], k + 1)
    BY LeftLater DEF LoopInv
  <1>2. \A m \in DOMAIN directives : m > k + 1 => m > k
    BY DirectivesAre
  <1> QED  BY <1>1, <1>2 DEF LoopInv

LEMMA OpensWindow ==
    ASSUME QueueInv, NEW k \in Nat, k + 1 \in DOMAIN directives, NEW pass, LoopInv(k, pass),
           NEW n, n = directives[k + 1].name, n \notin pass.windows
    PROVE  LoopInv(k + 1, OpenWindow(pass, n, DismissedAfter(k + 1)))
  <1> DEFINE mark == IF DismissedAfter(k + 1) THEN pass.marked \union {n} ELSE pass.marked \ {n}
             procs == [pass.proc EXCEPT ![n] = "starting"]
             next == OpenWindow(pass, n, DismissedAfter(k + 1))
  <1>1. pass \in Pass /\ n \in Names
    BY DirectivesAre DEF LoopInv, QueueInv
  <1>2. mark \in SUBSET Names /\ procs \in [Names -> Procs]
    BY <1>1, PassFields DEF Procs
  <1>3. next = [pass EXCEPT !.windows = pass.windows \union {n}, !.proc = procs, !.marked = mark]
    BY <1>1 DEF OpenWindow, Pass
  <1>4. /\ \A x \in Names : procs[x] = IF x = n THEN "starting" ELSE pass.proc[x]
        /\ \A x \in Names \ {n} : x \in mark <=> x \in pass.marked
        /\ DismissedAfter(k + 1) => n \in mark
    BY <1>1, PassFields
  <1> HIDE DEF mark, procs, next
  <1>5. /\ next \in Pass /\ next.windows = pass.windows \union {n} /\ next.proc = procs
        /\ next.marked = mark /\ next.left = pass.left
    BY <1>1, <1>2, <1>3 DEF Pass
  <1>6. \A i \in DOMAIN pass.left : pass.left[i].name # n /\ pass.left[i].name \in Names
    BY <1>1, PassFields DEF LoopInv
  <1>7. Marks(next.left, next.proc, next.marked)
    BY <1>4, <1>5, <1>6 DEF LoopInv, Marks
  <1>8. \A m \in DOMAIN directives :
          m > k + 1 /\ IsDismissal(directives[m]) /\ procs[directives[m].name] # "none"
             => directives[m].name \in mark
    <2> SUFFICES ASSUME NEW m \in DOMAIN directives, m > k + 1, IsDismissal(directives[m]),
                        procs[directives[m].name] # "none"
                 PROVE  directives[m].name \in mark
      OBVIOUS
    <2>1. directives[m].name \in Names /\ m > k
      BY DirectivesAre DEF QueueInv
    <2>2. CASE directives[m].name = n
      BY <2>2, <1>4 DEF DismissedAfter, IsDismissal
    <2>3. CASE directives[m].name # n
      BY <2>1, <2>3, <1>4 DEF LoopInv
    <2> QED  BY <2>2, <2>3
  <1>9. \A i \in DOMAIN pass.left :
            pass.left[i].name \in pass.windows \union {n} /\ LeftFrom(pass.left[i], k + 1)
    BY LeftLater DEF LoopInv, QueueInv
  <1>10. \A x \in Names : procs[x] # "none" => x \in pass.windows \union {n}
    BY <1>4 DEF LoopInv
  <1>11. InTurn(next.left) /\ \A x \in windows \ (pass.windows \union {n}) :
            \E m \in DOMAIN directives : IsDismissal(directives[m]) /\ directives[m].name = x
    BY <1>5 DEF LoopInv
  <1>12. LoopInv(k + 1, next)
    BY <1>5, <1>7, <1>8, <1>9, <1>10, <1>11 DEF LoopInv
  <1> QED  BY <1>12 DEF next

LEMMA ClosesWindow ==
    ASSUME QueueInv, NEW k \in Nat, k + 1 \in DOMAIN directives, NEW pass, LoopInv(k, pass),
           NEW n, n = directives[k + 1].name, IsDismissal(directives[k + 1]),
           directives[k + 1].interrupted
    PROVE  LoopInv(k + 1, CloseWindow(pass, n))
  <1> DEFINE procs == [pass.proc EXCEPT ![n] = "none"]
             next == CloseWindow(pass, n)
  <1>1. pass \in Pass /\ n \in Names
    BY DirectivesAre DEF LoopInv, QueueInv
  <1>2. procs \in [Names -> Procs]
    BY <1>1, PassFields DEF Procs
  <1>3. next = [pass EXCEPT !.windows = pass.windows \ {n}, !.proc = procs, !.marked = pass.marked \ {n}]
    BY <1>1 DEF CloseWindow, Pass
  <1>4. \A x \in Names : procs[x] = IF x = n THEN "none" ELSE pass.proc[x]
    BY <1>1, PassFields
  <1> HIDE DEF procs, next
  <1>5. /\ next \in Pass /\ next.windows = pass.windows \ {n} /\ next.proc = procs
        /\ next.marked = pass.marked \ {n} /\ next.left = pass.left
    BY <1>1, <1>2, <1>3, PassFields DEF Pass
  <1>6. ASSUME NEW i \in DOMAIN pass.left PROVE pass.left[i].name # n /\ pass.left[i].name \in Names
    <2>1. pass.left[i] \in Directive
      BY <1>1, PassFields
    <2>2. PICK m \in DOMAIN directives : /\ m <= k /\ IsDismissal(directives[m])
                                         /\ ~directives[m].interrupted
                                         /\ pass.left[i] = LeftAs(directives[m])
      BY DEF LoopInv, LeftFrom
    <2>3. m < k + 1
      BY <2>2, DirectivesAre DEF QueueInv
    <2>4. directives[m].name # n
      BY <2>2, <2>3 DEF QueueInv, InTurn
    <2>5. pass.left[i].name = directives[m].name
      BY <2>2, DirectivesAre DEF LeftAs, Directive, QueueInv
    <2> QED  BY <2>1, <2>4, <2>5 DEF Directive
  <1>7. Marks(next.left, next.proc, next.marked)
    BY <1>4, <1>5, <1>6 DEF LoopInv, Marks
  <1>8. \A m \in DOMAIN directives :
          m > k + 1 /\ IsDismissal(directives[m]) /\ procs[directives[m].name] # "none"
             => directives[m].name \in pass.marked \ {n}
    <2> SUFFICES ASSUME NEW m \in DOMAIN directives, m > k + 1, IsDismissal(directives[m]),
                        procs[directives[m].name] # "none"
                 PROVE  directives[m].name \in pass.marked \ {n}
      OBVIOUS
    <2>1. directives[m].name \in Names /\ m > k
      BY DirectivesAre DEF QueueInv
    <2> QED  BY <2>1, <1>4 DEF LoopInv
  <1>9. \A i \in DOMAIN pass.left :
            pass.left[i].name \in pass.windows \ {n} /\ LeftFrom(pass.left[i], k + 1)
    BY <1>6, LeftLater DEF LoopInv, QueueInv
  <1>10. \A x \in Names : procs[x] # "none" => x \in pass.windows \ {n}
    BY <1>4 DEF LoopInv
  <1>11. InTurn(next.left) /\ \A x \in windows \ (pass.windows \ {n}) :
            \E m \in DOMAIN directives : IsDismissal(directives[m]) /\ directives[m].name = x
    BY <1>5 DEF LoopInv
  <1>12. LoopInv(k + 1, next)
    BY <1>5, <1>7, <1>8, <1>9, <1>10, <1>11 DEF LoopInv
  <1> QED  BY <1>12 DEF next

LEMMA Stays ==
    ASSUME QueueInv, NEW k \in Nat, k + 1 \in DOMAIN directives, NEW pass, LoopInv(k, pass),
           NEW d, d = directives[k + 1], IsDismissal(d), ~d.interrupted, d.name \in pass.windows,
           NEW e, e = LeftAs(d)
    PROVE  LoopInv(k + 1, [pass EXCEPT !.left = Append(@, e)])
  <1> DEFINE left == Append(pass.left, e)
             next == [pass EXCEPT !.left = Append(@, e)]
  <1>1. pass \in Pass /\ d \in Directive /\ pass.left \in Seq(Directive)
    BY DirectivesAre, PassFields DEF LoopInv, QueueInv
  <1>2. /\ e \in Directive /\ e.name = d.name /\ e.action = "dismiss" /\ e.due = d.due
        /\ e.interrupted = DismissReady(d)
    <2>1. DismissReady(d) \in BOOLEAN
      BY <1>1 DEF DismissReady, Directive
    <2> QED  BY <1>1, <2>1 DEF LeftAs, Directive, IsDismissal
  <1>3. /\ left \in Seq(Directive) /\ Len(left) = Len(pass.left) + 1 /\ Len(pass.left) \in Nat
        /\ \A i \in 1..Len(pass.left) : left[i] = pass.left[i]
        /\ left[Len(pass.left) + 1] = e
    BY <1>1, <1>2, AppendProperties
  <1>4. /\ DOMAIN pass.left = 1..Len(pass.left)
        /\ DOMAIN left = DOMAIN pass.left \union {Len(pass.left) + 1}
    BY <1>1, <1>3
  <1>5. next = [pass EXCEPT !.left = left]
    BY <1>1 DEF Pass
  <1> HIDE DEF left, next
  <1>6. /\ next \in Pass /\ next.windows = pass.windows /\ next.proc = pass.proc
        /\ next.marked = pass.marked /\ next.left = left
    BY <1>1, <1>3, <1>5 DEF Pass
  <1>7. ASSUME NEW i \in DOMAIN pass.left
        PROVE  /\ e.due => pass.left[i].due
               /\ pass.left[i].name = e.name /\ e.interrupted => pass.left[i].interrupted
    <2>1. PICK m \in DOMAIN directives : /\ m <= k /\ IsDismissal(directives[m])
                                         /\ ~directives[m].interrupted
                                         /\ pass.left[i] = LeftAs(directives[m])
      BY DEF LoopInv, LeftFrom
    <2>2. m < k + 1 /\ directives[m] \in Directive /\ DismissReady(directives[m]) \in BOOLEAN
      BY <2>1, DirectivesAre DEF QueueInv, DismissReady
    <2>3. d.due => directives[m].due
      BY <2>1, <2>2 DEF QueueInv, InTurn
    <2>4. /\ pass.left[i].name = directives[m].name /\ pass.left[i].due = directives[m].due
          /\ pass.left[i].interrupted = DismissReady(directives[m])
      BY <2>1, <2>2 DEF LeftAs, Directive
    <2> QED  BY <1>2, <2>3, <2>4 DEF DismissReady
  <1>8. InTurn(left)
    <2> SUFFICES ASSUME NEW i \in DOMAIN left, NEW j \in DOMAIN left, i < j,
                        IsDismissal(left[i]), IsDismissal(left[j])
                 PROVE  /\ left[j].due => left[i].due
                        /\ left[i].name = left[j].name /\ left[j].interrupted => left[i].interrupted
      BY DEF InTurn
    <2>1. i \in DOMAIN pass.left /\ left[i] = pass.left[i]
      BY <1>3, <1>4
    <2>2. CASE j \in DOMAIN pass.left
      <3>1. left[j] = pass.left[j]
        BY <1>3, <1>4, <2>2
      <3> QED  BY <2>1, <2>2, <3>1 DEF LoopInv, InTurn
    <2>3. CASE j = Len(pass.left) + 1
      BY <1>3, <1>7, <2>1, <2>3
    <2> QED  BY <1>4, <2>2, <2>3
  <1>9. Marks(left, pass.proc, pass.marked)
    <2>1. pass.proc[e.name] # "none" => e.name \in pass.marked
      <3>1. k + 1 > k
        OBVIOUS
      <3> QED  BY <1>2, <3>1 DEF LoopInv
    <2>2. \A i \in DOMAIN pass.left : left[i] = pass.left[i]
      BY <1>3, <1>4
    <2>3. \A i \in DOMAIN left : i \in DOMAIN pass.left \/ left[i] = e
      BY <1>3, <1>4
    <2> QED  BY <2>1, <2>2, <2>3 DEF LoopInv, Marks
  <1>10. \A i \in DOMAIN left : left[i].name \in pass.windows /\ LeftFrom(left[i], k + 1)
    <2>1. \A i \in DOMAIN pass.left : left[i] = pass.left[i]
      BY <1>3, <1>4
    <2>2. \A i \in DOMAIN left : i \in DOMAIN pass.left \/ left[i] = e
      BY <1>3, <1>4
    <2>3. \A i \in DOMAIN pass.left : pass.left[i].name \in pass.windows /\ LeftFrom(pass.left[i], k + 1)
      BY LeftLater DEF LoopInv, QueueInv
    <2>4. e.name \in pass.windows /\ LeftFrom(e, k + 1)
      BY <1>2 DEF LeftFrom
    <2> QED  BY <2>1, <2>2, <2>3, <2>4
  <1>11. \A m \in DOMAIN directives :
          m > k + 1 /\ IsDismissal(directives[m]) /\ pass.proc[directives[m].name] # "none"
             => directives[m].name \in pass.marked
    <2>1. \A m \in DOMAIN directives : m > k + 1 => m > k
      BY DirectivesAre DEF QueueInv
    <2> QED  BY <2>1 DEF LoopInv
  <1>12. LoopInv(k + 1, next)
    BY <1>6, <1>8, <1>9, <1>10, <1>11 DEF LoopInv
  <1> QED  BY <1>12 DEF next

LEMMA LoopStart ==
    ASSUME QueueInv
    PROVE  LoopInv(0, PassAfter[0])
  <1>1. PassAfter[0] = Start
    BY PassIs
  <1>2. /\ windows \in SUBSET Names /\ proc \in [Names -> Procs] /\ marked \in SUBSET Names
        /\ << >> \in Seq(Directive) /\ DOMAIN << >> = {}
    BY DEF QueueInv, TypeOK, Procs
  <1>3. /\ Start \in Pass /\ Start.windows = windows /\ Start.proc = proc
        /\ Start.marked = marked /\ Start.left = << >>
    BY <1>2 DEF Start, Pass
  <1>4. \A n \in Names : proc[n] # "none" => n \in windows
    BY DEF QueueInv, TypeOK, Live
  <1>5. InTurn(<< >>) /\ Marks(<< >>, proc, marked)
    BY <1>2 DEF InTurn, Marks
  <1>6. \A m \in DOMAIN directives :
          IsDismissal(directives[m]) /\ proc[directives[m].name] # "none"
             => directives[m].name \in marked
    BY DEF QueueInv, Marks
  <1>7. LoopInv(0, Start)
    BY <1>2, <1>3, <1>4, <1>5, <1>6 DEF LoopInv
  <1> QED  BY <1>1, <1>7

LEMMA LoopStep ==
    ASSUME QueueInv, NEW k \in Nat, k + 1 \in DOMAIN directives, NEW pass, LoopInv(k, pass)
    PROVE  LoopInv(k + 1, RealizeOne(pass, k + 1))
  <1> DEFINE d == directives[k + 1]
             n == d.name
  <1>1. TypeOK /\ d.action \in {"spawn", "dismiss"} /\ d \in Directive /\ d.interrupted \in BOOLEAN
    BY DirectivesAre DEF QueueInv
  <1>2. LoopInv(k + 1, pass)
    BY <1>1, PassesBy
  <1>3. CASE d.action = "spawn"
    <2>1. RealizeOne(pass, k + 1) = RealizeSpawn(pass, k + 1)
      BY <1>3 DEF RealizeOne
    <2>2. CASE n \in pass.windows \/ ~capable \/ member[n] = "online"
      <3>1. RealizeSpawn(pass, k + 1) = pass
        BY <2>2 DEF RealizeSpawn, OpenWindow
      <3> QED  BY <1>2, <2>1, <3>1
    <2>3. CASE ~(n \in pass.windows \/ ~capable \/ member[n] = "online")
      <3>1. RealizeSpawn(pass, k + 1) = OpenWindow(pass, n, DismissedAfter(k + 1))
        BY <2>3 DEF RealizeSpawn
      <3>2. LoopInv(k + 1, OpenWindow(pass, n, DismissedAfter(k + 1)))
        BY <2>3, OpensWindow
      <3> QED  BY <2>1, <3>1, <3>2
    <2> QED  BY <2>2, <2>3
  <1>4. CASE d.action = "dismiss"
    <2>1. RealizeOne(pass, k + 1) = RealizeDismiss(pass, d) /\ IsDismissal(d)
      BY <1>4 DEF RealizeOne, IsDismissal
    <2>2. CASE ~capable \/ n \notin pass.windows
      <3>1. RealizeDismiss(pass, d) = pass
        BY <2>2 DEF RealizeDismiss
      <3> QED  BY <1>2, <2>1, <3>1
    <2>3. CASE capable /\ n \in pass.windows /\ d.interrupted
      <3>1. RealizeDismiss(pass, d) = CloseWindow(pass, n)
        BY <2>3 DEF RealizeDismiss
      <3>2. LoopInv(k + 1, CloseWindow(pass, n))
        BY <2>1, <2>3, ClosesWindow
      <3> QED  BY <2>1, <3>1, <3>2
    <2>4. CASE capable /\ n \in pass.windows /\ ~d.interrupted
      <3>1. RealizeDismiss(pass, d) = [pass EXCEPT !.left = Append(@, LeftAs(d))]
        BY <2>4 DEF RealizeDismiss, LeftAs
      <3>2. LoopInv(k + 1, [pass EXCEPT !.left = Append(@, LeftAs(d))])
        BY <2>1, <2>4, Stays
      <3> QED  BY <2>1, <3>1, <3>2
    <2> QED  BY <1>1, <2>2, <2>3, <2>4
  <1> QED  BY <1>1, <1>3, <1>4

LEMMA LoopHolds ==
    ASSUME QueueInv
    PROVE  LoopInv(Len(directives), PassAfter[Len(directives)])
  <1> DEFINE P == {k \in Nat : LoopInv(k, PassAfter[k])}
             n == Len(directives)
  <1>1. n \in Nat /\ DOMAIN directives = 1..n
    BY DirectivesAre DEF QueueInv
  <1>2. 0 \in P
    BY LoopStart
  <1>3. ASSUME NEW k \in 0..(n - 1), k \in P PROVE k + 1 \in P
    <2>1. k + 1 \in DOMAIN directives /\ k + 1 \in Nat \ {0} /\ (k + 1) - 1 = k
      BY <1>1
    <2>2. PassAfter[k + 1] = RealizeOne(PassAfter[k], WorkList[k + 1]) /\ WorkList[k + 1] = k + 1
      BY <2>1, PassIs DEF WorkList
    <2>3. LoopInv(k + 1, RealizeOne(PassAfter[k], k + 1))
      BY <1>3, <2>1, LoopStep
    <2> QED  BY <2>1, <2>2, <2>3
  <1>4. P \in SUBSET Nat
    OBVIOUS
  <1> HIDE DEF P, n
  <1>5. n \in P
    BY <1>1, <1>2, <1>3, <1>4, Induction
  <1> QED  BY <1>5 DEF P, n

-----------------------------------------------------------------------------
(* What the steps other than the spawner's do to the queue. *)

\* QueueInv, apart: what is not about the queue, the queue, and Marks.
Fields ==
    /\ declared \in Nat \union {Unset}
    /\ events \in 0..MaxEvents /\ capable \in BOOLEAN
    /\ leader \in {"absent", "online", "offline"}
    /\ member \in [Names -> {"absent", "online", "offline"}]
    /\ tombstone \in [Names -> {"none", "waiting", "told", "gone"}]
    /\ windows \subseteq Names /\ marked \subseteq Names
    /\ proc \in [Names -> Procs]
    /\ \A n \in Names : Live(n) => n \in windows

QueueOK(q) ==
    /\ q \in Seq(Directive)
    /\ \A i \in DOMAIN q : q[i].interrupted => IsDismissal(q[i])
    /\ InTurn(q)

LEMMA Apart ==
    QueueInv => Fields /\ QueueOK(directives) /\ Marks(directives, proc, marked)
  BY DEF QueueInv, TypeOK, Fields, QueueOK, Procs, ToSet, IsDismissal

LEMMA Together ==
    ASSUME Fields', QueueOK(directives'), Marks(directives', proc', marked')
    PROVE  QueueInv'
  BY DEF QueueInv, TypeOK, Fields, QueueOK, Procs, ToSet, IsDismissal

LEMMA DirectiveIs ==
    ASSUME NEW q \in Seq(Directive)
    PROVE  /\ Len(q) \in Nat /\ DOMAIN q = 1..Len(q)
           /\ \A i \in DOMAIN q :
                 /\ q[i] \in Directive /\ q[i].name \in Names /\ q[i].action \in {"spawn", "dismiss"}
                 /\ q[i].due \in BOOLEAN /\ q[i].interrupted \in BOOLEAN
  <1>1. \A i \in DOMAIN q : q[i] \in Directive
    OBVIOUS
  <1> QED  BY <1>1 DEF Directive

\* Directives that are newly asked for come last, and are not under way.
Longer(q, r) ==
    /\ r \in Seq(Directive) /\ Len(q) <= Len(r)
    /\ \A i \in 1..Len(q) : r[i] = q[i]
    /\ \A i \in (Len(q) + 1)..Len(r) : ~r[i].due /\ ~r[i].interrupted

LEMMA LongerOK ==
    ASSUME NEW q, QueueOK(q), NEW r, Longer(q, r)
    PROVE  QueueOK(r)
  <1>1. q \in Seq(Directive) /\ r \in Seq(Directive)
    BY DEF QueueOK, Longer
  <1>2. /\ Len(q) \in Nat /\ Len(r) \in Nat /\ DOMAIN q = 1..Len(q) /\ DOMAIN r = 1..Len(r)
    BY <1>1, DirectiveIs
  <1>3. ASSUME NEW j \in DOMAIN r, j \notin DOMAIN q PROVE ~r[j].due /\ ~r[j].interrupted
    BY <1>2, <1>3 DEF Longer
  <1>4. \A i \in DOMAIN q : i \in DOMAIN r /\ r[i] = q[i]
    BY <1>2 DEF Longer
  <1>5. \A i, j \in DOMAIN r : i < j /\ j \in DOMAIN q => i \in DOMAIN q
    BY <1>2
  <1>6. InTurn(r)
    <2> SUFFICES ASSUME NEW i \in DOMAIN r, NEW j \in DOMAIN r, i < j,
                        IsDismissal(r[i]), IsDismissal(r[j])
                 PROVE  /\ r[j].due => r[i].due
                        /\ r[i].name = r[j].name /\ r[j].interrupted => r[i].interrupted
      BY DEF InTurn
    <2>1. CASE j \in DOMAIN q
      <3>1. i \in DOMAIN q /\ r[i] = q[i] /\ r[j] = q[j]
        BY <1>4, <1>5, <2>1
      <3> QED  BY <2>1, <3>1 DEF QueueOK, InTurn
    <2>2. CASE j \notin DOMAIN q
      BY <1>3, <2>2
    <2> QED  BY <2>1, <2>2
  <1>7. \A i \in DOMAIN r : r[i].interrupted => IsDismissal(r[i])
    BY <1>3, <1>4 DEF QueueOK
  <1> QED  BY <1>1, <1>6, <1>7 DEF QueueOK

\* Every dismissal of a queue is of a name another queue dismisses.
DismissedBy(r, q) ==
    \A j \in DOMAIN r : IsDismissal(r[j]) =>
        \E i \in DOMAIN q : IsDismissal(q[i]) /\ q[i].name = r[j].name

LEMMA MarksKept ==
    ASSUME NEW q, NEW procs, NEW mark, Marks(q, procs, mark),
           NEW r \in Seq(Directive), DismissedBy(r, q), NEW procs2, NEW mark2,
           \A n \in Names : procs2[n] # "none" => procs[n] # "none" /\ (n \in mark => n \in mark2)
    PROVE  Marks(r, procs2, mark2)
  <1> SUFFICES ASSUME NEW j \in DOMAIN r, IsDismissal(r[j]), procs2[r[j].name] # "none"
               PROVE  r[j].name \in mark2
    BY DEF Marks
  <1>1. r[j].name \in Names
    BY DirectiveIs
  <1>2. PICK i \in DOMAIN q : IsDismissal(q[i]) /\ q[i].name = r[j].name
    BY DEF DismissedBy
  <1> QED  BY <1>1, <1>2 DEF Marks

\* A step that leaves the queue as it is.
LEMMA QueueUntouched ==
    ASSUME QueueInv, Fields', directives' = directives,
           \A n \in Names : proc'[n] # "none" => proc[n] # "none" /\ (n \in marked => n \in marked')
    PROVE  QueueInv'
  <1>1. QueueOK(directives) /\ Marks(directives, proc, marked)
    BY Apart
  <1>2. DismissedBy(directives', directives)
    BY DEF DismissedBy
  <1>3. QueueOK(directives') /\ directives' \in Seq(Directive)
    BY <1>1 DEF QueueOK
  <1>4. Marks(directives', proc', marked')
    BY <1>1, <1>2, <1>3, MarksKept
  <1> QED  BY <1>3, <1>4, Together

\* A step that queues spawns, in the old order and at the end.
LEMMA SpawnsQueued ==
    ASSUME QueueInv, Fields', proc' = proc, marked' = marked, Longer(directives, directives'),
           \A i \in (Len(directives) + 1)..Len(directives') : ~IsDismissal(directives'[i])
    PROVE  QueueInv'
  <1>1. QueueOK(directives) /\ Marks(directives, proc, marked)
    BY Apart
  <1>2. QueueOK(directives')
    BY <1>1, LongerOK
  <1>3. /\ directives \in Seq(Directive) /\ directives' \in Seq(Directive)
    BY <1>1, <1>2 DEF QueueOK
  <1>4. /\ Len(directives) \in Nat /\ Len(directives') \in Nat
        /\ DOMAIN directives = 1..Len(directives) /\ DOMAIN directives' = 1..Len(directives')
    BY <1>3, DirectiveIs
  <1>5. \A j \in DOMAIN directives' :
            j \in DOMAIN directives \/ j \in (Len(directives) + 1)..Len(directives')
    BY <1>4
  <1>6. DismissedBy(directives', directives)
    BY <1>4, <1>5 DEF DismissedBy, Longer
  <1>7. Marks(directives', proc', marked')
    BY <1>1, <1>3, <1>6, MarksKept
  <1> QED  BY <1>2, <1>7, Together

\* What the reconciler adds are spawns.
LEMMA ReconcileQueues ==
    ASSUME TypeOK, NEW size, NEW lead, NEW mem, NEW fresh, Reconcile(size, lead, mem, fresh)
    PROVE  /\ Longer(directives, directives')
           /\ \A i \in (Len(directives) + 1)..Len(directives') : ~IsDismissal(directives'[i])
  <1> DEFINE n == Cardinality(fresh)
             names == SetToSeq(fresh)
             added == [i \in 1..n |-> Spawn(names[i])]
  <1>1. fresh \subseteq Names
    BY DEF Reconcile, GeneratedNames, FreeNames
  <1>2. IsFiniteSet(fresh)
    BY <1>1, PoolAssumption, FS_Subset
  <1>3. n \in Nat
    BY <1>2, FS_CardinalityType
  <1>4. \E f \in [1..n -> fresh] : IsInjective(f)
    BY <1>2, FS_CardinalityType DEF ExistsBijection, Bijection, Injection, IsInjective
  <1>5. names \in [1..n -> fresh]
    BY <1>4 DEF SetToSeq
  <1> HIDE DEF names, n
  <1>6. \A i \in 1..n : Spawn(names[i]) \in Directive
    BY <1>1, <1>5 DEF Spawn, Directive
  <1>7. added \in Seq(Directive) /\ Len(added) = n /\ \A i \in 1..n : added[i] = Spawn(names[i])
    BY <1>3, <1>6
  <1>8. directives' = directives \o added /\ directives \in Seq(Directive)
    BY DEF Reconcile, TypeOK, n, names
  <1> HIDE DEF added
  <1>9. /\ directives' \in Seq(Directive) /\ Len(directives') = Len(directives) + n
        /\ Len(directives) \in Nat
        /\ \A i \in 1..Len(directives) : directives'[i] = directives[i]
        /\ \A i \in (Len(directives) + 1)..(Len(directives) + n) :
              directives'[i] = added[i - Len(directives)]
    <2> DEFINE q == directives \o added
    <2>1. /\ q \in Seq(Directive) /\ Len(q) = Len(directives) + Len(added)
          /\ \A i \in 1..(Len(directives) + Len(added)) :
                q[i] = IF i <= Len(directives) THEN directives[i] ELSE added[i - Len(directives)]
      BY <1>7, <1>8, ConcatProperties
    <2>2. Len(directives) \in Nat /\ Len(added) = n
      BY <1>7, <1>8
    <2> HIDE DEF q
    <2>3. /\ \A i \in 1..Len(directives) : q[i] = directives[i]
          /\ \A i \in (Len(directives) + 1)..(Len(directives) + n) : q[i] = added[i - Len(directives)]
      BY <1>3, <2>1, <2>2
    <2>4. directives' = q
      BY <1>8 DEF q
    <2> QED  BY <2>1, <2>2, <2>3, <2>4
  <1>10. ASSUME NEW i \in (Len(directives) + 1)..Len(directives')
         PROVE  /\ ~directives'[i].due /\ ~directives'[i].interrupted
                /\ ~IsDismissal(directives'[i])
    <2>1. i - Len(directives) \in 1..n /\ directives'[i] = added[i - Len(directives)]
      BY <1>3, <1>9
    <2> QED  BY <1>7, <2>1 DEF Spawn, IsDismissal
  <1> QED  BY <1>3, <1>9, <1>10 DEF Longer

LEMMA AppendQueues ==
    ASSUME TypeOK, NEW d \in Directive, ~d.due, ~d.interrupted
    PROVE  /\ Longer(directives, Append(directives, d))
           /\ Len(Append(directives, d)) = Len(directives) + 1
           /\ Append(directives, d)[Len(directives) + 1] = d
  <1>1. directives \in Seq(Directive)
    BY DEF TypeOK
  <1> QED  BY <1>1, AppendProperties DEF Longer

-----------------------------------------------------------------------------
(* Every step keeps QueueInv. *)

LEMMA QueueInit == Init => QueueInv
  <1> SUFFICES ASSUME Init PROVE QueueInv
    OBVIOUS
  <1>1. directives = << >> /\ << >> \in Seq(Directive) /\ DOMAIN << >> = {}
    BY DEF Init
  <1>2. TypeOK
    BY <1>1, PoolAssumption DEF Init, TypeOK, Live, ToSet
  <1> QED  BY <1>1, <1>2 DEF QueueInv, InTurn, Marks

\* A process starts, is heard, leaves or ends; a window is closed by hand.
LEMMA TeammateSteps ==
    ASSUME QueueInv, events' \in 0..MaxEvents, NEW n \in Names,
           \/ Register(n) \/ HeartbeatReturns(n) \/ HeartbeatReregisters(n)
           \/ HeartbeatDismissed(n) \/ GracePasses(n) \/ Leave(n) \/ Quit(n) \/ Crash(n)
           \/ CloseByHand(n)
    PROVE  QueueInv'
  <1>1. Fields
    BY Apart
  <1>2. CASE Register(n)
    <2>1. Fields'
      BY <1>1, <1>2 DEF Fields, Register, RegisterMember, config, Live, Procs
    <2>2. /\ directives' = directives
          /\ \A x \in Names : proc'[x] # "none" => proc[x] # "none" /\ (x \in marked => x \in marked')
      BY <1>1, <1>2 DEF Fields, Register
    <2> QED  BY <2>1, <2>2, QueueUntouched
  <1>3. CASE HeartbeatReturns(n) \/ HeartbeatReregisters(n) \/ GracePasses(n)
    <2>1. /\ directives' = directives /\ proc' = proc /\ marked' = marked /\ windows' = windows
          /\ leader' = leader /\ declared' = declared /\ capable' = capable
      BY <1>3 DEF HeartbeatReturns, HeartbeatReregisters, GracePasses, terminal, config
    <2>2. /\ member' \in [Names -> {"absent", "online", "offline"}]
          /\ tombstone' \in [Names -> {"none", "waiting", "told", "gone"}]
      BY <1>1, <1>3 DEF Fields, HeartbeatReturns, HeartbeatReregisters, GracePasses, RegisterMember
    <2>3. Fields'
      BY <1>1, <2>1, <2>2 DEF Fields, Live
    <2> QED  BY <2>1, <2>3, QueueUntouched
  <1>4. CASE HeartbeatDismissed(n)
    <2>1. Fields'
      BY <1>1, <1>4 DEF Fields, HeartbeatDismissed, Heard, config, Live, Procs
    <2>2. /\ directives' = directives
          /\ \A x \in Names : proc'[x] # "none" => proc[x] # "none" /\ (x \in marked => x \in marked')
      BY <1>1, <1>4 DEF Fields, HeartbeatDismissed, Heard
    <2> QED  BY <2>1, <2>2, QueueUntouched
  <1>5. CASE Leave(n) \/ Quit(n) \/ Crash(n)
    <2>1. /\ EndProcess(n) /\ directives' = directives /\ leader' = leader
          /\ declared' = declared /\ capable' = capable
      BY <1>5 DEF Leave, Quit, Crash, memory, config
    <2>2. /\ member' \in [Names -> {"absent", "online", "offline"}]
          /\ tombstone' \in [Names -> {"none", "waiting", "told", "gone"}]
      BY <1>1, <1>5 DEF Fields, Leave, Quit, Crash, Deregister, memory
    <2>3. /\ proc' \in [Names -> Procs] /\ windows' = windows /\ marked' = marked \ {n}
          /\ \A x \in Names : proc'[x] = IF x = n THEN "none" ELSE proc[x]
      BY <1>1, <2>1 DEF Fields, EndProcess, Procs
    <2>4. Fields'
      BY <1>1, <2>1, <2>2, <2>3 DEF Fields, Live
    <2> QED  BY <2>1, <2>3, <2>4, QueueUntouched
  <1>6. CASE CloseByHand(n)
    <2>1. /\ proc' \in [Names -> Procs] /\ windows' = windows \ {n} /\ marked' = marked \ {n}
          /\ \A x \in Names : proc'[x] = IF x = n THEN "none" ELSE proc[x]
      BY <1>1, <1>6 DEF Fields, CloseByHand, Procs
    <2>2. Fields' /\ directives' = directives
      BY <1>1, <1>6, <2>1 DEF Fields, Live, CloseByHand, memory, config
    <2> QED  BY <2>1, <2>2, QueueUntouched
  <1> QED  BY <1>2, <1>3, <1>4, <1>5, <1>6

LEMMA CapableStep ==
    ASSUME QueueInv, events' \in 0..MaxEvents, SetCapable
    PROVE  QueueInv'
  <1>1. Fields' /\ directives' = directives /\ proc' = proc /\ marked' = marked
    BY Apart DEF Fields, SetCapable, memory, terminal, Live
  <1> QED  BY <1>1, QueueUntouched

LEMMA TargetIs ==
    ASSUME NEW size \in Nat \union {Unset}
    PROVE  TargetOf(size) \in Nat
  BY PoolAssumption DEF TargetOf

\* The timer, the leader's arrival and another declared size, each with the reconciler.
LEMMA PoolSteps ==
    ASSUME QueueInv, events' \in 0..MaxEvents, NEW fresh,
           \/ \E gone \in SUBSET Names, leaderGone \in BOOLEAN : Tick(gone, leaderGone, fresh)
           \/ LeaderRegisters(fresh)
           \/ \E size \in Sizes : SetMinTeammates(size, fresh)
    PROVE  QueueInv'
  <1>1. Fields /\ TypeOK
    BY Apart DEF QueueInv
  <1> DEFINE Reconciled == /\ Fields' /\ proc' = proc /\ marked' = marked
                           /\ \E size, lead, mem : Reconcile(size, lead, mem, fresh)
  <1>2. Reconciled
    <2>1. ASSUME NEW gone \in SUBSET Names, NEW leaderGone \in BOOLEAN, Tick(gone, leaderGone, fresh)
          PROVE  Reconciled
      <3>1. /\ leader' \in {"absent", "online", "offline"}
            /\ member' \in [Names -> {"absent", "online", "offline"}]
        BY <1>1, <2>1 DEF Fields, Tick
      <3>2. /\ proc' = proc /\ marked' = marked /\ windows' = windows /\ tombstone' = tombstone
            /\ declared' = declared /\ capable' = capable
            /\ \E size, lead, mem : Reconcile(size, lead, mem, fresh)
        BY <2>1 DEF Tick, terminal, config
      <3> QED  BY <1>1, <3>1, <3>2 DEF Fields, Live
    <2>2. CASE LeaderRegisters(fresh)
      <3>1. /\ leader' = "online" /\ member' = member
            /\ proc' = proc /\ marked' = marked /\ windows' = windows /\ tombstone' = tombstone
            /\ declared' = declared /\ capable' = capable
            /\ \E size, lead, mem : Reconcile(size, lead, mem, fresh)
        BY <2>2 DEF LeaderRegisters, terminal, config
      <3> QED  BY <1>1, <3>1 DEF Fields, Live
    <2>3. ASSUME NEW size \in Sizes, SetMinTeammates(size, fresh)
          PROVE  Reconciled
      <3>1. declared' \in Nat \union {Unset}
        BY <2>3, PoolAssumption, TargetIs DEF SetMinTeammates
      <3>2. /\ leader' = leader /\ member' = member
            /\ proc' = proc /\ marked' = marked /\ windows' = windows /\ tombstone' = tombstone
            /\ capable' = capable
            /\ \E s, lead, mem : Reconcile(s, lead, mem, fresh)
        BY <2>3 DEF SetMinTeammates, memory, terminal
      <3> QED  BY <1>1, <3>1, <3>2 DEF Fields, Live
    <2> QED  BY <2>1, <2>2, <2>3
  <1>3. /\ Longer(directives, directives')
        /\ \A i \in (Len(directives) + 1)..Len(directives') : ~IsDismissal(directives'[i])
    BY <1>1, <1>2, ReconcileQueues
  <1> QED  BY <1>2, <1>3, SpawnsQueued

LEMMA RequestStep ==
    ASSUME QueueInv, events' \in 0..MaxEvents, NEW n \in Names, RequestSpawn(n)
    PROVE  QueueInv'
  <1>1. Fields' /\ proc' = proc /\ marked' = marked
    BY Apart DEF Fields, RequestSpawn, memory, terminal, config, Live
  <1>2. Spawn(n) \in Directive /\ ~Spawn(n).due /\ ~Spawn(n).interrupted /\ ~IsDismissal(Spawn(n))
    BY DEF Spawn, Directive, IsDismissal
  <1>3. directives' = Append(directives, Spawn(n)) /\ TypeOK /\ Len(directives) \in Nat
    BY DirectivesAre DEF RequestSpawn, QueueInv
  <1>4. /\ Longer(directives, directives')
        /\ Len(directives') = Len(directives) + 1 /\ directives'[Len(directives) + 1] = Spawn(n)
    BY <1>2, <1>3, AppendQueues
  <1>5. \A i \in (Len(directives) + 1)..Len(directives') : ~IsDismissal(directives'[i])
    BY <1>2, <1>3, <1>4
  <1> QED  BY <1>1, <1>4, <1>5, SpawnsQueued

LEMMA DismissStep ==
    ASSUME QueueInv, events' \in 0..MaxEvents, NEW n \in Names, DismissMember(n)
    PROVE  QueueInv'
  <1>1. Fields /\ QueueOK(directives) /\ Marks(directives, proc, marked) /\ TypeOK
    BY Apart DEF QueueInv
  <1>2. Fields'
    BY <1>1 DEF Fields, DismissMember, config, Live, Procs
  <1>3. Dismiss(n) \in Directive /\ ~Dismiss(n).due /\ ~Dismiss(n).interrupted /\ Dismiss(n).name = n
    BY DEF Dismiss, Directive
  <1>4. directives' = Append(directives, Dismiss(n)) /\ Len(directives) \in Nat
    BY <1>1, DirectivesAre DEF DismissMember
  <1>5. /\ Longer(directives, directives')
        /\ Len(directives') = Len(directives) + 1 /\ directives'[Len(directives) + 1] = Dismiss(n)
    BY <1>1, <1>3, <1>4, AppendQueues
  <1>6. QueueOK(directives')
    BY <1>1, <1>5, LongerOK
  <1>7. Marks(directives', proc', marked')
    <2>1. proc' = proc /\ \A x \in Names : x \in marked \/ (x = n /\ proc[n] # "none") => x \in marked'
      BY DEF DismissMember, Live
    <2>2. \A i \in DOMAIN directives' :
              \/ i \in DOMAIN directives /\ directives'[i] = directives[i]
              \/ directives'[i] = Dismiss(n)
      BY <1>1, <1>4, <1>5, <1>6, DirectiveIs DEF QueueOK, Longer
    <2>3. \A i \in DOMAIN directives : directives[i].name \in Names
      BY <1>1, DirectivesAre
    <2> QED  BY <1>1, <1>3, <2>1, <2>2, <2>3 DEF Marks
  <1> QED  BY <1>2, <1>6, <1>7, Together

\* A request for a spawn is cancelled: the queue without it.
LEMMA CancelStep ==
    ASSUME QueueInv, events' \in 0..MaxEvents, NEW k \in DOMAIN directives, CancelSpawn(k)
    PROVE  QueueInv'
  <1> DEFINE q == directives
             r == directives'
             From(j) == IF j < k THEN j ELSE j + 1
  <1>1. Fields /\ QueueOK(q) /\ Marks(q, proc, marked) /\ q \in Seq(Directive)
    BY Apart DEF QueueOK
  <1>2. Fields' /\ proc' = proc /\ marked' = marked
    BY <1>1 DEF Fields, CancelSpawn, memory, terminal, config, Live
  <1>3. Len(q) \in Nat /\ DOMAIN q = 1..Len(q) /\ k \in 1..Len(q)
    BY <1>1, DirectiveIs
  <1>4. r \in Seq(Directive) /\ Len(r) = Len(q) - 1 /\ \A j \in 1..Len(r) : r[j] = q[From(j)]
    <2> DEFINE a == SubSeq(q, 1, k - 1)
               b == SubSeq(q, k + 1, Len(q))
    <2>1. a \in Seq(Directive) /\ Len(a) = k - 1 /\ \A j \in 1..(k - 1) : a[j] = q[j]
      <3>1. 1 \in Int /\ k - 1 \in Int /\ \A j \in 1..(k - 1) : q[j] \in Directive
        BY <1>1, <1>3
      <3>2. /\ a \in Seq(Directive)
            /\ Len(a) = IF 1 <= k - 1 THEN k - 1 - 1 + 1 ELSE 0
            /\ \A j \in 1..(k - 1 - 1 + 1) : a[j] = q[1 + j - 1]
        BY <3>1, SubSeqProperties
      <3> HIDE DEF a
      <3> QED  BY <1>3, <3>2
    <2>2. b \in Seq(Directive) /\ Len(b) = Len(q) - k /\ \A j \in 1..(Len(q) - k) : b[j] = q[k + j]
      <3>1. k + 1 \in Int /\ Len(q) \in Int /\ \A j \in (k + 1)..Len(q) : q[j] \in Directive
        BY <1>1, <1>3
      <3>2. /\ b \in Seq(Directive)
            /\ Len(b) = IF k + 1 <= Len(q) THEN Len(q) - (k + 1) + 1 ELSE 0
            /\ \A j \in 1..(Len(q) - (k + 1) + 1) : b[j] = q[k + 1 + j - 1]
        BY <3>1, SubSeqProperties
      <3> HIDE DEF b
      <3>3. Len(q) - (k + 1) + 1 = Len(q) - k /\ Len(b) = Len(q) - k
        BY <1>3, <3>2
      <3>4. \A j \in 1..(Len(q) - k) : k + 1 + j - 1 = k + j
        BY <1>3
      <3> QED  BY <3>2, <3>3, <3>4
    <2>3. r = a \o b
      BY DEF CancelSpawn, RemoveAt
    <2> HIDE DEF a, b
    <2>4. /\ a \o b \in Seq(Directive) /\ Len(a \o b) = Len(a) + Len(b)
          /\ \A j \in 1..(Len(a) + Len(b)) : (a \o b)[j] = IF j <= Len(a) THEN a[j] ELSE b[j - Len(a)]
      BY <2>1, <2>2, ConcatProperties
    <2>5. Len(r) = Len(q) - 1 /\ r \in Seq(Directive)
      BY <1>3, <2>1, <2>2, <2>3, <2>4
    <2>6. ASSUME NEW j \in 1..Len(r) PROVE r[j] = q[From(j)]
      <3>1. r[j] = IF j <= k - 1 THEN a[j] ELSE b[j - (k - 1)]
        BY <1>3, <2>1, <2>2, <2>3, <2>4, <2>5
      <3>2. CASE j < k
        BY <1>3, <2>1, <3>1, <3>2
      <3>3. CASE ~(j < k)
        <4>1. j - (k - 1) \in 1..(Len(q) - k) /\ k + (j - (k - 1)) = j + 1 /\ ~(j <= k - 1)
          BY <1>3, <2>5, <3>3
        <4> QED  BY <2>2, <3>1, <3>3, <4>1
      <3> QED  BY <3>2, <3>3
    <2> QED  BY <2>5, <2>6
  <1>5. DOMAIN r = 1..Len(r)
    BY <1>4
  <1>6. \A j \in DOMAIN r : From(j) \in DOMAIN q /\ r[j] = q[From(j)]
    BY <1>3, <1>4, <1>5
  <1>7. \A i, j \in DOMAIN r : i < j => From(i) < From(j)
    BY <1>3, <1>4, <1>5
  <1> HIDE DEF From, q, r
  <1>8. InTurn(r)
    <2> SUFFICES ASSUME NEW i \in DOMAIN r, NEW j \in DOMAIN r, i < j,
                        IsDismissal(r[i]), IsDismissal(r[j])
                 PROVE  /\ r[j].due => r[i].due
                        /\ r[i].name = r[j].name /\ r[j].interrupted => r[i].interrupted
      BY DEF InTurn
    <2>1. From(i) < From(j) /\ From(i) \in DOMAIN q /\ From(j) \in DOMAIN q
      BY <1>6, <1>7
    <2>2. r[i] = q[From(i)] /\ r[j] = q[From(j)]
      BY <1>6
    <2> QED  BY <1>1, <2>1, <2>2 DEF QueueOK, InTurn
  <1>9. QueueOK(r) /\ DismissedBy(r, q)
    BY <1>1, <1>4, <1>6, <1>8 DEF QueueOK, DismissedBy
  <1>10. Marks(r, proc', marked')
    BY <1>1, <1>2, <1>4, <1>9, MarksKept
  <1> QED  BY <1>2, <1>9, <1>10, Together DEF r

\* The deadline of the oldest dismissal that has none yet passes.
LEMMA DeadlineStep ==
    ASSUME QueueInv, events' \in 0..MaxEvents, NEW k \in DOMAIN directives, DeadlinePasses(k)
    PROVE  QueueInv'
  <1> DEFINE q == directives
             r == directives'
  <1>1. Fields /\ QueueOK(q) /\ Marks(q, proc, marked) /\ q \in Seq(Directive)
    BY Apart DEF QueueOK
  <1>2. Fields' /\ proc' = proc /\ marked' = marked
    BY <1>1 DEF Fields, DeadlinePasses, memory, terminal, config, Live
  <1>3. /\ Len(q) \in Nat /\ DOMAIN q = 1..Len(q)
        /\ \A i \in DOMAIN q : q[i] \in Directive
    BY <1>1, DirectiveIs
  <1>4. /\ IsDismissal(q[k])
        /\ \A j \in 1..(k - 1) : IsDismissal(q[j]) => q[j].due
        /\ r = [q EXCEPT ![k] = [q[k] EXCEPT !.due = TRUE]]
    BY DEF DeadlinePasses, IsDismissal
  <1>5. [q[k] EXCEPT !.due = TRUE] \in Directive
    BY <1>3 DEF Directive
  <1>6. r \in Seq(Directive) /\ DOMAIN r = DOMAIN q
    BY <1>1, <1>4, <1>5
  <1>7. \A i \in DOMAIN q : /\ r[i].name = q[i].name /\ r[i].action = q[i].action
                            /\ r[i].interrupted = q[i].interrupted
                            /\ r[i].due = IF i = k THEN TRUE ELSE q[i].due
    BY <1>3, <1>4 DEF Directive
  <1> HIDE DEF q, r
  <1>8. InTurn(r)
    <2> SUFFICES ASSUME NEW i \in DOMAIN r, NEW j \in DOMAIN r, i < j,
                        IsDismissal(r[i]), IsDismissal(r[j])
                 PROVE  /\ r[j].due => r[i].due
                        /\ r[i].name = r[j].name /\ r[j].interrupted => r[i].interrupted
      BY DEF InTurn
    <2>1. IsDismissal(q[i]) /\ IsDismissal(q[j]) /\ i \in DOMAIN q /\ j \in DOMAIN q
      BY <1>6, <1>7 DEF IsDismissal
    <2>2. r[j].due => r[i].due
      <3>1. CASE j = k
        <4>1. i \in 1..(k - 1)
          BY <1>3, <2>1, <3>1
        <4> QED  BY <1>4, <1>7, <2>1, <4>1
      <3>2. CASE j # k
        BY <1>1, <1>7, <2>1, <3>2 DEF QueueOK, InTurn
      <3> QED  BY <3>1, <3>2
    <2>3. r[i].name = r[j].name /\ r[j].interrupted => r[i].interrupted
      BY <1>1, <1>7, <2>1 DEF QueueOK, InTurn
    <2> QED  BY <2>2, <2>3
  <1>9. QueueOK(r) /\ DismissedBy(r, q)
    BY <1>1, <1>6, <1>7, <1>8 DEF QueueOK, DismissedBy, IsDismissal
  <1>10. Marks(r, proc', marked')
    BY <1>1, <1>2, <1>6, <1>9, MarksKept
  <1> QED  BY <1>2, <1>9, <1>10, Together DEF r

\* A restart forgets the interrupts.
LEMMA BootStep ==
    ASSUME QueueInv, events' \in 0..MaxEvents, Boot
    PROVE  QueueInv'
  <1> DEFINE q == directives
             r == directives'
  <1>1. Fields /\ QueueOK(q) /\ Marks(q, proc, marked) /\ q \in Seq(Directive)
    BY Apart DEF QueueOK
  <1>2. Fields' /\ proc' = proc /\ marked' = marked
    BY <1>1 DEF Fields, Boot, terminal, config, Live
  <1>3. /\ Len(q) \in Nat /\ DOMAIN q = 1..Len(q)
        /\ \A i \in DOMAIN q : q[i] \in Directive
    BY <1>1, DirectiveIs
  <1>4. r = [i \in DOMAIN q |-> [q[i] EXCEPT !.interrupted = FALSE]]
    BY DEF Boot
  <1>5. \A i \in DOMAIN q : [q[i] EXCEPT !.interrupted = FALSE] \in Directive
    BY <1>3 DEF Directive
  <1>6. r \in Seq(Directive) /\ DOMAIN r = DOMAIN q
    BY <1>3, <1>4, <1>5
  <1>7. \A i \in DOMAIN q : /\ r[i].name = q[i].name /\ r[i].action = q[i].action
                            /\ r[i].interrupted = FALSE /\ r[i].due = q[i].due
    BY <1>3, <1>4 DEF Directive
  <1> HIDE DEF q, r
  <1>8. QueueOK(r) /\ DismissedBy(r, q)
    BY <1>1, <1>6, <1>7 DEF QueueOK, DismissedBy, IsDismissal, InTurn
  <1>9. Marks(r, proc', marked')
    BY <1>1, <1>2, <1>6, <1>8, MarksKept
  <1> QED  BY <1>2, <1>8, <1>9, Together DEF r

\* The spawner's pass.
LEMMA RealizeStep ==
    ASSUME QueueInv, events' \in 0..MaxEvents, Realize
    PROVE  QueueInv'
  <1> DEFINE pass == PassAfter[Len(directives)]
  <1>1. LoopInv(Len(directives), pass) /\ Fields
    BY LoopHolds, Apart
  <1>2. /\ windows' = pass.windows /\ proc' = pass.proc /\ marked' = pass.marked
        /\ directives' = pass.left /\ UNCHANGED <<memory, config>>
    BY DEF Realize
  <1> HIDE DEF pass
  <1>3. /\ pass.windows \in SUBSET Names /\ pass.proc \in [Names -> Procs]
        /\ pass.marked \in SUBSET Names /\ pass.left \in Seq(Directive)
    BY <1>1, PassFields DEF LoopInv
  <1>4. Fields'
    BY <1>1, <1>2, <1>3 DEF Fields, Live, memory, config, LoopInv
  <1>5. ASSUME NEW i \in DOMAIN pass.left PROVE IsDismissal(pass.left[i])
    <2>1. PICK m \in DOMAIN directives : IsDismissal(directives[m]) /\ pass.left[i] = LeftAs(directives[m])
      BY <1>1 DEF LoopInv, LeftFrom
    <2>2. directives[m] \in Directive
      BY DirectivesAre DEF QueueInv
    <2> QED  BY <2>1, <2>2 DEF LeftAs, Directive, IsDismissal
  <1>6. QueueOK(pass.left) /\ Marks(pass.left, pass.proc, pass.marked)
    BY <1>1, <1>3, <1>5 DEF LoopInv, QueueOK
  <1> QED  BY <1>2, <1>4, <1>6, Together

LEMMA QueueStep == QueueInv /\ [Next]_vars => QueueInv'
  <1> SUFFICES ASSUME QueueInv, [Next]_vars PROVE QueueInv'
    OBVIOUS
  <1>1. events \in 0..MaxEvents /\ MaxEvents \in Nat
    BY PoolAssumption DEF QueueInv, TypeOK
  <1>2. CASE UNCHANGED vars
    <2>1. Fields' /\ directives' = directives /\ proc' = proc /\ marked' = marked
      BY <1>2, Apart DEF vars, memory, terminal, config, Fields, Live
    <2> QED  BY <2>1, QueueUntouched
  <1>3. CASE Next
    <2>1. events' \in 0..MaxEvents
      BY <1>1, <1>3 DEF Next
    <2>2. CASE PersonStep
      BY <2>1, <2>2, DismissStep, RequestStep, TeammateSteps, CancelStep, PoolSteps DEF PersonStep
    <2>3. CASE Failure
      BY <2>1, <2>3, TeammateSteps, PoolSteps, CapableStep, BootStep DEF Failure
    <2>4. CASE DaemonStep
      <3>1. CASE \E fresh \in SUBSET Names : FullTick(fresh)
        <4>1. {n \in OnlineIn(member) : ~Heard(n)} \in SUBSET Names
          BY DEF OnlineIn
        <4> QED  BY <2>1, <3>1, <4>1, PoolSteps DEF FullTick
      <3>2. CASE \E i \in DOMAIN directives : DeadlinePasses(i)
        BY <2>1, <3>2, DeadlineStep
      <3>3. CASE \E n \in Names : GracePasses(n)
        BY <2>1, <3>3, TeammateSteps
      <3>4. CASE Realize
        BY <2>1, <3>4, RealizeStep
      <3> QED  BY <2>4, <3>1, <3>2, <3>3, <3>4 DEF DaemonStep
    <2>5. CASE AgentStep
      BY <2>1, <2>5, TeammateSteps, PoolSteps DEF AgentStep
    <2> QED  BY <1>3, <2>2, <2>3, <2>4, <2>5 DEF Next
  <1> QED  BY <1>2, <1>3

-----------------------------------------------------------------------------
\* The variables keep their types; a process runs in a window of its name, and a directive
\* under way is a dismissal (store/members.ts, spawner.ts).
THEOREM TypeCorrect == Spec => []TypeOK
  <1>1. QueueInv => TypeOK
    BY DEF QueueInv
  <1> QED  BY QueueInit, QueueStep, <1>1, PTL DEF Spec

\* The spawner's pass never ends a process that nobody dismissed since its window was
\* asked for, whatever is in the queue: dismissals that outlived their agent or a restart,
\* several of one name, and names that came back into use (realizePending, realizeDismiss).
THEOREM KillsOnlyDismissedCorrect == Spec => KillsOnlyDismissed
  <1> DEFINE Killed == Realize => \A n \in Names : Live(n) /\ n \notin windows' => n \in marked
  <1>1. QueueInv /\ [Next]_vars => [Killed]_vars
    <2> SUFFICES ASSUME QueueInv, Realize, NEW n \in Names, Live(n), n \notin windows'
                 PROVE  n \in marked
      OBVIOUS
    <2>1. LoopInv(Len(directives), PassAfter[Len(directives)])
      BY LoopHolds
    <2>2. n \in windows \ PassAfter[Len(directives)].windows
      BY DEF Realize, QueueInv, TypeOK
    <2>3. PICK m \in DOMAIN directives : IsDismissal(directives[m]) /\ directives[m].name = n
      BY <2>1, <2>2 DEF LoopInv
    <2> QED  BY <2>3 DEF QueueInv, Marks, Live
  <1>2. [][Killed]_vars => KillsOnlyDismissed
    BY PTL DEF KillsOnlyDismissed
  <1> QED  BY QueueInit, QueueStep, <1>1, <1>2, PTL DEF Spec

=============================================================================
