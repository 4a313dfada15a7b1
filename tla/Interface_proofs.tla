-------------------------- MODULE Interface_proofs --------------------------
(***************************************************************************)
(* What the runs check of the interface, for any strokes, elements, binds, *)
(* callbacks and bounds: the input is understood as it was typed, the      *)
(* pointers of the screen and the states of its elements agree, the binds  *)
(* follow the states of elements, and a key counts once.                   *)
(***************************************************************************)
EXTENDS Interface, FiniteSetTheorems, FunctionTheorems, SequenceTheorems, WellFoundedInduction,
        TLAPS

-----------------------------------------------------------------------------
(* Natural numbers.                                                         *)

LEMMA Least ==
    ASSUME NEW T, T \subseteq Nat, T # {}
    PROVE  \E n \in T : \A m \in T : n <= m
<1>1. PICK n \in T : \A m \in T : ~ (<<m, n>> \in OpToRel(<, Nat))
    BY NatLessThanWellFounded, WFMin
<1>2. \A m \in T : ~ (m < n)
    BY <1>1 DEF OpToRel
<1> QED
    BY <1>2

LEMMA Induction ==
    ASSUME NEW S, 0 \in S, \A n \in Nat : n \in S => n + 1 \in S
    PROVE  Nat \subseteq S
<1>1. SUFFICES ASSUME Nat \ S # {} PROVE FALSE
    OBVIOUS
<1>2. PICK n \in Nat \ S : \A m \in Nat \ S : n <= m
    BY <1>1, Least
<1>3. n # 0 /\ n - 1 \in Nat /\ n - 1 \in S /\ (n - 1) + 1 = n
    BY <1>2
<1> QED
    BY <1>2, <1>3

-----------------------------------------------------------------------------
(* Binds and what they depend on.                                          *)

Ears == [dep : Elements, cond : {v.cond : v \in Values}]
BindRecords == [bound : BOOLEAN, value : Values \cup {None}, enabled : BOOLEAN, active : BOOLEAN,
                idx : Nat, epoch : Nat, own : SUBSET Ears, ears : SUBSET Ears]
Binders == [binds : [Names -> BindRecords], set : SUBSET Names, heard : BOOLEAN, epochs : Nat,
            failed : SUBSET Names]

\* A bind r is in the active set if it is active, and then it is bound and enabled.
SoundBind(r, in) == /\ in <=> r.active
                    /\ r.active => r.bound /\ r.enabled
                    /\ r.bound => r.value \in Values
\* It follows the states s of the elements, and listens to the one it depends on.
Tracks(r, s) == r.bound /\ ~ Expired(r.value) => (r.active <=> Wanted(r, s))
Listens(r) ==
    r.bound /\ r.enabled /\ r.value.dep # None /\ r.value.dep \notin gone
        => [dep |-> r.value.dep, cond |-> r.value.cond] \in r.own \cup r.ears
GoodBind(r, in, failed, s) == SoundBind(r, in) /\ (failed \/ (Tracks(r, s) /\ Listens(r)))

Sound(b, n) == SoundBind(b.binds[n], n \in b.set)
Good(b, n, s) == GoodBind(b.binds[n], n \in b.set, n \in b.failed, s)
HeardIfAny(b) == b.set # {} => b.heard
GoodBinder(b, s) == b \in Binders /\ HeardIfAny(b) /\ \A n \in Names : Good(b, n, s)

\* c is b, but for the bind n.
Else(b, c, n) == \A m \in Names \ {n} : /\ c.binds[m] = b.binds[m] /\ (m \in c.set <=> m \in b.set)
                                        /\ (m \in c.failed <=> m \in b.failed)

LEMMA OnlyOne ==
    ASSUME NEW b, NEW c, NEW n \in Names, NEW s, \A m \in Names \ {n} : Good(b, m, s), Else(b, c, n),
           c \in Binders, HeardIfAny(c), Good(c, n, s)
    PROVE  GoodBinder(c, s)
<1>1. ASSUME NEW m \in Names, m # n PROVE Good(c, m, s)
  <2>1. Good(b, m, s) BY <1>1
  <2>2. /\ c.binds[m] = b.binds[m] /\ (m \in c.set <=> m \in b.set)
        /\ (m \in c.failed <=> m \in b.failed)
    BY <1>1 DEF Else
  <2> QED BY <2>1, <2>2 DEF Good, GoodBind, SoundBind
<1> QED BY <1>1 DEF GoodBinder

\* The parts that check_all leaves alone.
SameBut(r, q) == /\ q.bound = r.bound /\ q.value = r.value /\ q.enabled = r.enabled
                 /\ q.own = r.own /\ q.ears = r.ears /\ q.epoch = r.epoch
Checked(b, c, ns, s) ==
    /\ c \in Binders /\ c.failed = b.failed /\ c.epochs = b.epochs
    /\ \A m \in Names : /\ SameBut(b.binds[m], c.binds[m])
                        /\ m \notin ns => c.binds[m] = b.binds[m] /\ (m \in c.set <=> m \in b.set)
                        /\ Sound(b, m) => Sound(c, m)
                        /\ m \in ns /\ b.binds[m].bound => (c.binds[m].active <=> Wanted(b.binds[m], s))
    /\ HeardIfAny(b) => HeardIfAny(c)

LEMMA CheckAllDoes ==
    ASSUME NEW b \in Binders, NEW ns \in SUBSET Names, NEW s
    PROVE  Checked(b, CheckAll(b, ns, s), ns, s)
<1> DEFINE turned == Turned(b, ns, s)
           c == CheckAll(b, ns, s)
           q(n) == [b.binds[n] EXCEPT !.active = ~ @, !.idx = 0]
           set == (b.set \ turned) \cup {n \in turned : ~ b.binds[n].active}
           binds == [n \in Names |-> IF n \in turned THEN q(n) ELSE b.binds[n]]
<1>0. turned \subseteq ns /\ turned \subseteq Names BY DEF Turned
<1>1. \A n \in Names : /\ b.binds[n] \in BindRecords /\ q(n) \in BindRecords
                       /\ SameBut(b.binds[n], q(n)) /\ q(n).active = ~ b.binds[n].active
  <2> SUFFICES ASSUME NEW n \in Names
               PROVE  /\ b.binds[n] \in BindRecords /\ q(n) \in BindRecords
                      /\ SameBut(b.binds[n], q(n)) /\ q(n).active = ~ b.binds[n].active
    OBVIOUS
  <2>1. b.binds[n] \in BindRecords BY DEF Binders
  <2>2. q(n) \in BindRecords /\ q(n).active = ~ b.binds[n].active BY <2>1 DEF BindRecords
  <2>3. SameBut(b.binds[n], q(n)) BY <2>1 DEF BindRecords, SameBut
  <2> QED BY <2>1, <2>2, <2>3
<1>2. CASE turned = {}
  <2>1. c = b BY <1>2 DEF CheckAll
  <2>2. \A m \in ns : b.binds[m].bound => (b.binds[m].active <=> Wanted(b.binds[m], s))
    BY <1>2 DEF Turned
  <2> QED BY <2>1, <2>2 DEF Checked, SameBut
<1>3. CASE turned # {}
  <2>1. c = [b EXCEPT !.binds = binds, !.set = set, !.heard = (set # {})]
    <3>1. c = CheckEvent([b EXCEPT !.binds = binds, !.set = set])
      BY <1>3 DEF CheckAll
    <3>2. [b EXCEPT !.binds = binds, !.set = set].set = set BY DEF Binders
    <3> HIDE DEF binds, set
    <3> QED BY <3>1, <3>2 DEF CheckEvent
  <2>2. binds \in [Names -> BindRecords] BY <1>1
  <2>3. set \subseteq Names BY <1>0 DEF Binders
  <2>4. c \in Binders /\ c.failed = b.failed /\ c.epochs = b.epochs /\ c.binds = binds /\ c.set = set
        /\ (c.heard <=> set # {})
    <3> HIDE DEF binds, set, c
    <3> QED BY <2>1, <2>2, <2>3 DEF Binders
  <2>5. ASSUME NEW m \in Names
        PROVE  /\ SameBut(b.binds[m], c.binds[m])
               /\ m \notin ns => c.binds[m] = b.binds[m] /\ (m \in c.set <=> m \in b.set)
               /\ Sound(b, m) => Sound(c, m)
               /\ m \in ns /\ b.binds[m].bound => (c.binds[m].active <=> Wanted(b.binds[m], s))
    <3>1. CASE m \in turned
      <4>1. c.binds[m] = q(m) BY <2>4, <3>1
      <4>2. SameBut(b.binds[m], c.binds[m]) /\ c.binds[m].active = ~ b.binds[m].active
        BY <4>1, <1>1
      <4>3. b.binds[m].bound /\ ~ (b.binds[m].active <=> Wanted(b.binds[m], s)) BY <3>1 DEF Turned
      <4>4. m \in c.set <=> ~ b.binds[m].active BY <2>4, <3>1
      <4>5. b.binds[m].active \in BOOLEAN BY <1>1 DEF BindRecords
      <4>6. c.binds[m].active <=> Wanted(b.binds[m], s) BY <4>2, <4>3, <4>5
      <4>7. c.binds[m].active => b.binds[m].enabled BY <4>6 DEF Wanted
      <4> HIDE DEF c
      <4>8. Sound(b, m) => Sound(c, m)
        BY <4>2, <4>3, <4>4, <4>5, <4>7 DEF Sound, SoundBind, SameBut
      <4> QED BY <4>2, <4>6, <4>8, <3>1, <1>0
    <3>2. CASE m \notin turned
      <4>1. c.binds[m] = b.binds[m] /\ (m \in c.set <=> m \in b.set) BY <2>4, <3>2
      <4>2. m \in ns /\ b.binds[m].bound => (b.binds[m].active <=> Wanted(b.binds[m], s))
        BY <3>2 DEF Turned
      <4> HIDE DEF c
      <4>3. Sound(b, m) => Sound(c, m) BY <4>1 DEF Sound, SoundBind
      <4> QED BY <4>1, <4>2, <4>3 DEF SameBut
    <3> QED BY <3>1, <3>2
  <2>6. HeardIfAny(c) BY <2>4 DEF HeardIfAny
  <2> HIDE DEF c
  <2>7. Checked(b, c, ns, s) BY <2>4, <2>5, <2>6 DEF Checked
  <2> QED BY <2>7 DEF c
<1> QED BY <1>2, <1>3

LEMMA ListenedGood ==
    ASSUME NEW b, NEW s, NEW t, GoodBinder(b, s)
    PROVE  GoodBinder(Listened(b, s, t), t)
<1>1. CASE s = t BY <1>1 DEF Listened
<1>2. CASE s # t
  <2> DEFINE ns == {n \in Names : Heard(b, n, s, t)}
             c == CheckAll(b, ns, t)
  <2>1. b \in Binders BY DEF GoodBinder
  <2>2. ns \in SUBSET Names OBVIOUS
  <2>3. Checked(b, c, ns, t) BY <2>1, <2>2, CheckAllDoes
  <2>4. Listened(b, s, t) = c BY <1>2 DEF Listened
  <2> HIDE DEF c
  <2>5. ASSUME NEW n \in Names PROVE Good(c, n, t)
    <3> DEFINE r == b.binds[n]
               q == c.binds[n]
               e == [dep |-> r.value.dep, cond |-> r.value.cond]
    <3>1. SoundBind(q, n \in c.set)
      BY <2>3 DEF Checked, GoodBinder, Good, GoodBind, Sound
    <3>2. SameBut(r, q) /\ (n \in c.failed <=> n \in b.failed) BY <2>3 DEF Checked
    <3>3. n \in b.failed \/ (Tracks(r, s) /\ Listens(r)) BY DEF GoodBinder, Good, GoodBind
    <3>4. ASSUME Listens(r) PROVE Listens(q)
      BY <3>2, <3>4 DEF SameBut, Listens
    <3>5. ASSUME Tracks(r, s), Listens(r), r.bound, ~ Expired(r.value)
          PROVE  q.active <=> Wanted(r, t)
      <4>1. CASE n \in ns BY <2>3, <4>1, <3>5 DEF Checked
      <4>2. CASE n \notin ns
        <5>1. q = r BY <2>3, <4>2 DEF Checked
        <5>2. r.active <=> Wanted(r, s) BY <3>5 DEF Tracks
        <5>3. r.enabled => (Met(r.value, s) <=> Met(r.value, t))
          <6>1. CASE r.value.dep = None BY <6>1 DEF Met, Expired
          <6>2. CASE r.value.dep # None /\ r.enabled
            <7>1. r.value.dep \notin gone BY <6>2, <3>5 DEF Expired
            <7>2. e \in r.own \cup r.ears BY <7>1, <6>2, <3>5 DEF Listens
            <7>3. e.dep = r.value.dep /\ e.cond = r.value.cond OBVIOUS
            <7>4. (r.value.cond \in s[r.value.dep]) <=> (r.value.cond \in t[r.value.dep])
              <8> HIDE DEF e
              <8> QED BY <7>1, <7>2, <7>3, <4>2 DEF Heard
            <7> QED BY <7>1, <7>4, <6>2 DEF Met, Expired
          <6> QED BY <6>1, <6>2
        <5>4. Wanted(r, s) <=> Wanted(r, t) BY <5>3 DEF Wanted
        <5> QED BY <5>1, <5>2, <5>4
      <4> QED BY <4>1, <4>2
    <3>6. Wanted(q, t) <=> Wanted(r, t) BY <3>2 DEF SameBut, Wanted
    <3>7. ASSUME Tracks(r, s), Listens(r) PROVE Tracks(q, t)
      BY <3>7, <3>5, <3>6, <3>2 DEF Tracks, SameBut
    <3> QED BY <3>1, <3>2, <3>3, <3>4, <3>7 DEF Good, GoodBind
  <2> QED BY <2>3, <2>4, <2>5 DEF GoodBinder, Checked
<1> QED BY <1>1, <1>2

-----------------------------------------------------------------------------
(* bind, rebind, freeze, unfreeze, unbind.                                 *)

\* What _bind_dcheck leaves, whether it fails (error) or not.
DChecked(b, r, n, s) ==
    /\ r.b \in Binders /\ Else(b, r.b, n) /\ HeardIfAny(r.b)
    /\ Sound(r.b, n) /\ (~ b.binds[n].active /\ r.error => ~ r.b.binds[n].active)
    /\ r.b.binds[n].bound /\ r.b.binds[n].enabled = b.binds[n].enabled
    /\ r.b.binds[n].value = b.binds[n].value
    /\ ~ r.error => Tracks(r.b.binds[n], s) /\ Listens(r.b.binds[n])

Deactivated(b, c, n) ==
    /\ c \in Binders /\ Else(b, c, n) /\ HeardIfAny(c)
    /\ n \notin c.set /\ ~ c.binds[n].active
    /\ c.binds[n].bound = b.binds[n].bound /\ c.binds[n].value = b.binds[n].value
    /\ c.binds[n].enabled = b.binds[n].enabled
    /\ c.heard = b.heard /\ c.set = b.set \ {n} /\ c.failed = b.failed

LEMMA InactiveDoes ==
    ASSUME NEW b \in Binders, NEW n \in Names, HeardIfAny(b)
    PROVE  Deactivated(b, Inactive(b, n), n)
<1> DEFINE q == [b.binds[n] EXCEPT !.active = FALSE, !.idx = 0,
                                   !.ears = b.binds[n].ears \cup b.binds[n].own, !.own = {}]
           c == Inactive(b, n)
<1>1. b.binds[n] \in BindRecords BY DEF Binders
<1>2. /\ q \in BindRecords /\ q.active = FALSE /\ q.bound = b.binds[n].bound
      /\ q.value = b.binds[n].value /\ q.enabled = b.binds[n].enabled
  BY <1>1 DEF BindRecords
<1>3. c = [b EXCEPT !.binds = [b.binds EXCEPT ![n] = q], !.set = b.set \ {n}]
  BY <1>1 DEF Inactive, Binders, BindRecords
<1> HIDE DEF q, c
<1>4. c \in Binders /\ c.set = b.set \ {n} /\ c.binds = [b.binds EXCEPT ![n] = q]
      /\ c.heard = b.heard /\ c.failed = b.failed
  BY <1>2, <1>3 DEF Binders
<1>5. c.binds[n] = q /\ \A m \in Names \ {n} : c.binds[m] = b.binds[m]
  BY <1>4 DEF Binders
<1>6. Else(b, c, n) /\ HeardIfAny(c) BY <1>4, <1>5 DEF Else, HeardIfAny
<1>7. n \notin c.set /\ ~ c.binds[n].active BY <1>4, <1>5, <1>2
<1>8. c.binds[n].enabled = b.binds[n].enabled /\ c.binds[n].value = b.binds[n].value
      /\ c.binds[n].bound = b.binds[n].bound
  BY <1>2, <1>5
<1>9. Deactivated(b, c, n) BY <1>4, <1>6, <1>7, <1>8 DEF Deactivated
<1> QED BY <1>9 DEF c

LEMMA DCheckDoes ==
    ASSUME NEW b \in Binders, NEW n \in Names, NEW s, HeardIfAny(b), Sound(b, n), b.binds[n].bound,
           b.binds[n].value \in Values
    PROVE  DChecked(b, DCheck(b, n, s), n, s)
<1> DEFINE r == DCheck(b, n, s)
           v == b.binds[n].value
           off == Inactive(b, n)
           e == [dep |-> v.dep, cond |-> v.cond]
           silent == v.dep = None \/ v.dep \in gone
           on == IF silent THEN off ELSE [off EXCEPT !.binds[n].own = {e}]
<1>1. /\ off \in Binders /\ Else(b, off, n) /\ HeardIfAny(off)
      /\ n \notin off.set /\ ~ off.binds[n].active
      /\ off.binds[n].bound = b.binds[n].bound /\ off.binds[n].value = v
      /\ off.binds[n].enabled = b.binds[n].enabled
      /\ off.heard = b.heard /\ off.set = b.set \ {n} /\ off.failed = b.failed
  <2>1. Deactivated(b, off, n) BY InactiveDoes
  <2> HIDE DEF off
  <2> QED BY <2>1 DEF Deactivated
<1>2. CASE Collides(b, n)
  <2>1. r.error = TRUE /\ r.b = b BY <1>2 DEF DCheck
  <2> HIDE DEF r
  <2>2. DChecked(b, r, n, s) BY <2>1 DEF DChecked, Else
  <2> QED BY <2>2 DEF r
<1>3. CASE ~ Collides(b, n) /\ ~ b.binds[n].enabled
  <2>1. r.error = FALSE /\ r.b = [off EXCEPT !.heard = (off.set # {})]
    BY <1>3 DEF DCheck, CheckEvent
  <2> HIDE DEF r, off
  <2>2. /\ r.b \in Binders /\ r.b.binds = off.binds /\ r.b.set = off.set /\ r.b.failed = off.failed
        /\ (r.b.heard <=> off.set # {})
    BY <2>1, <1>1 DEF Binders
  <2>3. Else(b, r.b, n) /\ HeardIfAny(r.b) /\ Sound(r.b, n)
    BY <2>2, <1>1 DEF Else, HeardIfAny, Sound, SoundBind
  <2>4. Tracks(r.b.binds[n], s) /\ Listens(r.b.binds[n])
    BY <2>2, <1>1, <1>3 DEF Tracks, Wanted, Listens
  <2>5. DChecked(b, r, n, s) BY <2>1, <2>2, <2>3, <2>4, <1>1 DEF DChecked
  <2> QED BY <2>5 DEF r
<1>4. CASE ~ Collides(b, n) /\ b.binds[n].enabled /\ Expired(v) /\ v.strong
  <2>1. r.error = TRUE /\ r.b = off BY <1>4 DEF DCheck
  <2> HIDE DEF r, off
  <2>2. Sound(r.b, n) BY <2>1, <1>1 DEF Sound, SoundBind
  <2>3. DChecked(b, r, n, s) BY <2>1, <2>2, <1>1 DEF DChecked
  <2> QED BY <2>3 DEF r
<1>5. CASE ~ Collides(b, n) /\ b.binds[n].enabled /\ ~ (Expired(v) /\ v.strong)
  <2> DEFINE c == CheckAll(on, {n}, s)
  <2>1. r.error = FALSE /\ r.b = c BY <1>5 DEF DCheck
  <2> HIDE DEF r, off
  <2>2. /\ on \in Binders /\ on.set = off.set /\ on.failed = off.failed /\ on.heard = off.heard
        /\ \A m \in Names \ {n} : on.binds[m] = off.binds[m]
        /\ on.binds[n].bound = b.binds[n].bound /\ on.binds[n].value = v
        /\ on.binds[n].enabled = b.binds[n].enabled /\ on.binds[n].active = off.binds[n].active
        /\ ~ silent => e \in on.binds[n].own
    <3>1. CASE silent BY <3>1, <1>1
    <3>2. CASE ~ silent
      <4>1. v.dep \in Elements BY <3>2, BinderAssumption
      <4>2. e \in Ears BY <4>1 DEF Ears
      <4> DEFINE q == [off.binds[n] EXCEPT !.own = {e}]
      <4>3. off.binds[n] \in BindRecords BY <1>1 DEF Binders
      <4>4. on = [off EXCEPT !.binds = [off.binds EXCEPT ![n] = q]] BY <3>2, <1>1 DEF Binders
      <4>5. /\ q \in BindRecords /\ q.own = {e} /\ q.bound = off.binds[n].bound
            /\ q.value = off.binds[n].value /\ q.enabled = off.binds[n].enabled
            /\ q.active = off.binds[n].active
        <5> HIDE DEF e
        <5> QED BY <4>2, <4>3 DEF BindRecords
      <4> HIDE DEF q, on, e
      <4>6. on \in Binders /\ on.set = off.set /\ on.failed = off.failed /\ on.heard = off.heard
            /\ on.binds = [off.binds EXCEPT ![n] = q]
        BY <4>4, <4>5, <1>1 DEF Binders
      <4>7. on.binds[n] = q /\ \A m \in Names \ {n} : on.binds[m] = off.binds[m]
        BY <4>6, <1>1 DEF Binders
      <4> QED BY <4>5, <4>6, <4>7, <1>1
    <3> QED BY <3>1, <3>2
  <2> HIDE DEF on, c
  <2>3. Checked(on, c, {n}, s)
    <3>1. {n} \in SUBSET Names OBVIOUS
    <3> QED BY <2>2, <3>1, CheckAllDoes DEF c
  <2>4. Else(b, c, n) BY <2>2, <2>3, <1>1 DEF Else, Checked
  <2>5. HeardIfAny(c) BY <2>2, <2>3, <1>1 DEF HeardIfAny, Checked
  <2>6. Sound(on, n) BY <2>2, <1>1 DEF Sound, SoundBind
  <2>7. /\ c \in Binders /\ SameBut(on.binds[n], c.binds[n]) /\ Sound(c, n)
        /\ (c.binds[n].active <=> Wanted(on.binds[n], s))
    BY <2>3, <2>6, <2>2 DEF Checked
  <2>8. Tracks(c.binds[n], s) BY <2>7 DEF Tracks, SameBut, Wanted
  <2>9. Listens(c.binds[n]) BY <2>7, <2>2 DEF Listens, SameBut
  <2>10. DChecked(b, r, n, s) BY <2>1, <2>2, <2>4, <2>5, <2>7, <2>8, <2>9 DEF DChecked, SameBut
  <2> QED BY <2>10 DEF r
<1> QED BY <1>2, <1>3, <1>4, <1>5

LEMMA UnbindFromGood ==
    ASSUME NEW b, NEW n \in Names, NEW s, GoodBinder(b, s)
    PROVE  GoodBinder(UnbindFrom(b, n), s) /\ ~ UnbindFrom(b, n).binds[n].bound
<1>1. CASE ~ b.binds[n].bound BY <1>1 DEF UnbindFrom
<1>2. CASE b.binds[n].bound
  <2> DEFINE q == [Unbound EXCEPT !.ears = b.binds[n].own \cup b.binds[n].ears]
             c == UnbindFrom(b, n)
  <2>1. b \in Binders /\ b.binds[n] \in BindRecords BY DEF GoodBinder, Binders
  <2>2. q \in BindRecords /\ q.active = FALSE /\ q.bound = FALSE BY <2>1 DEF BindRecords, Unbound
  <2> DEFINE set == b.set \ {n}
             d == [b EXCEPT !.set = set, !.failed = @ \ {n}, !.binds[n] = q]
  <2>3. c = [d EXCEPT !.heard = (d.set # {})] BY <1>2 DEF UnbindFrom, CheckEvent
  <2> HIDE DEF q, c
  <2>4. /\ d \in Binders /\ d.set = set /\ d.failed = b.failed \ {n}
        /\ d.binds = [b.binds EXCEPT ![n] = q]
    BY <2>1, <2>2 DEF Binders
  <2> HIDE DEF d
  <2>5. /\ c \in Binders /\ c.set = set /\ c.failed = b.failed \ {n}
        /\ c.binds = [b.binds EXCEPT ![n] = q] /\ (c.heard <=> set # {})
    BY <2>3, <2>4 DEF Binders
  <2>6. c.binds[n] = q /\ \A m \in Names \ {n} : c.binds[m] = b.binds[m]
    BY <2>1, <2>5 DEF Binders
  <2>7. Else(b, c, n) /\ HeardIfAny(c) BY <2>5, <2>6 DEF Else, HeardIfAny
  <2>8. Good(c, n, s)
    BY <2>2, <2>5, <2>6 DEF Good, GoodBind, SoundBind, Tracks, Listens
  <2>9. GoodBinder(c, s) BY <2>5, <2>7, <2>8, OnlyOne DEF GoodBinder
  <2> QED BY <2>9, <2>6, <2>2 DEF c
<1> QED BY <1>1, <1>2

LEMMA BindToGood ==
    ASSUME NEW b, NEW n \in Names, NEW v \in Values, NEW s, GoodBinder(b, s)
    PROVE  GoodBinder(BindTo(b, n, v, s), s)
<1> DEFINE q == [b.binds[n] EXCEPT !.bound = TRUE, !.value = v, !.enabled = TRUE, !.epoch = b.epochs]
           with == [b EXCEPT !.binds[n] = q, !.epochs = @ + 1]
           r == DCheck(with, n, s)
           c == BindTo(b, n, v, s)
<1>1. b \in Binders /\ b.binds[n] \in BindRecords /\ HeardIfAny(b) BY DEF GoodBinder, Binders
<1>2. CASE b.binds[n].bound BY <1>2 DEF BindTo
<1>3. CASE ~ b.binds[n].bound
  <2>1. ~ b.binds[n].active /\ n \notin b.set
    BY <1>3 DEF GoodBinder, Good, GoodBind, SoundBind
  <2>2. /\ q \in BindRecords /\ q.bound = TRUE /\ q.value = v /\ q.enabled = TRUE
        /\ q.active = b.binds[n].active
    BY <1>1 DEF BindRecords, Binders
  <2>3. c = IF r.error THEN [b EXCEPT !.epochs = @ + 1] ELSE r.b
    BY <1>3 DEF BindTo
  <2> HIDE DEF q, c
  <2>4. /\ with \in Binders /\ with.set = b.set /\ with.failed = b.failed /\ with.heard = b.heard
        /\ with.binds = [b.binds EXCEPT ![n] = q]
    <3>1. b.epochs \in Nat /\ b.epochs + 1 \in Nat BY <1>1 DEF Binders
    <3>2. [b.binds EXCEPT ![n] = q] \in [Names -> BindRecords] BY <1>1, <2>2 DEF Binders
    <3>3. with = [b EXCEPT !.binds = [b.binds EXCEPT ![n] = q], !.epochs = b.epochs + 1]
      BY <1>1 DEF Binders
    <3> HIDE DEF with
    <3> QED BY <1>1, <3>1, <3>2, <3>3 DEF Binders
  <2> HIDE DEF with
  <2>5. with.binds[n] = q /\ \A m \in Names \ {n} : with.binds[m] = b.binds[m]
    BY <1>1, <2>4 DEF Binders
  <2>6. HeardIfAny(with) /\ Sound(with, n) /\ Else(b, with, n)
    BY <1>1, <2>1, <2>2, <2>4, <2>5 DEF HeardIfAny, Sound, SoundBind, Else
  <2>7. DChecked(with, r, n, s) BY <2>4, <2>6, <2>5, <2>2, DCheckDoes
  <2> HIDE DEF r
  <2>8. CASE r.error
    <3>1. c = [b EXCEPT !.epochs = @ + 1] BY <2>8, <2>3
    <3>2. c \in Binders /\ c.binds = b.binds /\ c.set = b.set /\ c.failed = b.failed /\ c.heard = b.heard
      BY <3>1, <1>1 DEF Binders
    <3>3. GoodBinder(c, s) BY <3>2 DEF GoodBinder, Good, HeardIfAny
    <3> QED BY <3>3 DEF c
  <2>9. CASE ~ r.error
    <3>1. c = r.b BY <2>9, <2>3
    <3>2. c \in Binders /\ HeardIfAny(c) BY <2>7, <3>1 DEF DChecked
    <3>3. Else(b, c, n) BY <2>6, <2>7, <3>1 DEF Else, DChecked
    <3>4. Good(c, n, s) BY <2>7, <2>9, <3>1 DEF DChecked, Good, GoodBind, Sound
    <3>5. GoodBinder(c, s) BY <3>2, <3>3, <3>4, OnlyOne DEF GoodBinder
    <3> QED BY <3>5 DEF c
  <2> QED BY <2>8, <2>9
<1> QED BY <1>2, <1>3

LEMMA RebindGood ==
    ASSUME NEW n \in Names, NEW v \in Values, GoodBinder(binder, ui.states), Rebind(n, v)
    PROVE  GoodBinder(binder', ui.states)
<1> DEFINE s == ui.states
           off == Inactive(binder, n)
           q == [off.binds[n] EXCEPT !.value = v, !.enabled = TRUE]
           new == [off EXCEPT !.binds[n] = q]
           r == DCheck(new, n, s)
           p == [r.b.binds[n] EXCEPT !.value = binder.binds[n].value,
                                     !.enabled = binder.binds[n].enabled]
           old == [r.b EXCEPT !.binds[n] = p]
           back == DCheck(old, n, s)
<1>1. /\ binder \in Binders /\ HeardIfAny(binder) /\ binder.binds[n].bound
      /\ binder.binds[n] \in BindRecords
  BY DEF GoodBinder, Rebind, Binders
<1>2. binder' = IF ~ r.error THEN [r.b EXCEPT !.failed = @ \ {n}]
                ELSE [back.b EXCEPT !.failed = IF back.error THEN @ \cup {n} ELSE @]
  BY DEF Rebind
<1>3. /\ off \in Binders /\ Else(binder, off, n) /\ HeardIfAny(off)
      /\ n \notin off.set /\ ~ off.binds[n].active
      /\ off.binds[n].bound = binder.binds[n].bound
  BY <1>1, InactiveDoes DEF Deactivated
<1> HIDE DEF off
<1>4. /\ q \in BindRecords /\ q.bound = binder.binds[n].bound /\ q.value = v /\ q.enabled = TRUE
      /\ ~ q.active
  <2>1. off.binds[n] \in BindRecords BY <1>3 DEF Binders
  <2> QED BY <1>3, <2>1 DEF BindRecords
<1> HIDE DEF q
<1>5. /\ new \in Binders /\ new.set = off.set /\ new.failed = off.failed /\ new.heard = off.heard
      /\ new.binds = [off.binds EXCEPT ![n] = q]
  BY <1>3, <1>4 DEF Binders
<1> HIDE DEF new
<1>6. new.binds[n] = q /\ \A m \in Names \ {n} : new.binds[m] = off.binds[m]
  BY <1>3, <1>5 DEF Binders
<1>7. HeardIfAny(new) /\ Sound(new, n) /\ Else(binder, new, n)
  BY <1>3, <1>4, <1>5, <1>6 DEF HeardIfAny, Sound, SoundBind, Else
<1>8. DChecked(new, r, n, s) BY <1>1, <1>4, <1>5, <1>6, <1>7, DCheckDoes
<1> HIDE DEF r
<1>9. CASE ~ r.error
  <2>1. binder' = [r.b EXCEPT !.failed = r.b.failed \ {n}] BY <1>2, <1>9
  <2>2. r.b \in Binders BY <1>8 DEF DChecked
  <2>3. /\ binder' \in Binders /\ binder'.binds = r.b.binds /\ binder'.set = r.b.set
        /\ binder'.failed = r.b.failed \ {n} /\ binder'.heard = r.b.heard
    BY <2>1, <2>2 DEF Binders
  <2>4. HeardIfAny(binder') /\ Else(binder, binder', n)
    BY <2>3, <1>7, <1>8 DEF HeardIfAny, DChecked, Else
  <2>5. Good(binder', n, s) BY <1>8, <1>9, <2>3 DEF DChecked, Good, GoodBind, Sound
  <2> QED BY <2>3, <2>4, <2>5, OnlyOne DEF GoodBinder
<1>10. CASE r.error
  <2>1. /\ r.b \in Binders /\ Else(new, r.b, n) /\ HeardIfAny(r.b) /\ Sound(r.b, n)
        /\ ~ r.b.binds[n].active /\ r.b.binds[n].bound
    BY <1>4, <1>6, <1>8, <1>10 DEF DChecked
  <2>2. n \notin r.b.set BY <2>1 DEF Sound, SoundBind
  <2>3. /\ p \in BindRecords /\ p.bound = r.b.binds[n].bound /\ p.active = r.b.binds[n].active
        /\ p.value = binder.binds[n].value
    BY <1>1, <2>1 DEF BindRecords, Binders
  <2> HIDE DEF p
  <2>4. /\ old \in Binders /\ old.set = r.b.set /\ old.failed = r.b.failed /\ old.heard = r.b.heard
        /\ old.binds = [r.b.binds EXCEPT ![n] = p]
    BY <2>1, <2>3 DEF Binders
  <2> HIDE DEF old
  <2>5. old.binds[n] = p /\ \A m \in Names \ {n} : old.binds[m] = r.b.binds[m]
    BY <2>1, <2>4 DEF Binders
  <2>6. binder.binds[n].value \in Values
    BY <1>1 DEF GoodBinder, Good, GoodBind, SoundBind
  <2>7. HeardIfAny(old) /\ Sound(old, n) /\ Else(r.b, old, n)
    BY <2>1, <2>2, <2>3, <2>4, <2>5, <2>6 DEF HeardIfAny, Sound, SoundBind, Else
  <2>8. DChecked(old, back, n, s) BY <2>1, <2>3, <2>4, <2>5, <2>6, <2>7, DCheckDoes
  <2> HIDE DEF back
  <2>9. binder' = [back.b EXCEPT !.failed = IF back.error THEN back.b.failed \cup {n} ELSE back.b.failed]
    BY <1>2, <1>10
  <2>10. /\ back.b \in Binders /\ Else(old, back.b, n) /\ HeardIfAny(back.b)
         /\ Sound(back.b, n)
         /\ ~ back.error => Tracks(back.b.binds[n], s) /\ Listens(back.b.binds[n])
    BY <2>8 DEF DChecked
  <2>11. /\ binder' \in Binders /\ binder'.binds = back.b.binds /\ binder'.set = back.b.set
         /\ binder'.failed = (IF back.error THEN back.b.failed \cup {n} ELSE back.b.failed)
         /\ binder'.heard = back.b.heard
    BY <2>9, <2>10 DEF Binders
  <2>12. HeardIfAny(binder') /\ Else(binder, binder', n)
    BY <1>7, <2>1, <2>7, <2>10, <2>11 DEF HeardIfAny, Else
  <2>13. Good(binder', n, s)
    BY <2>10, <2>11 DEF Good, GoodBind, Sound
  <2> QED BY <2>11, <2>12, <2>13, OnlyOne DEF GoodBinder
<1> QED BY <1>9, <1>10

LEMMA FreezeGood ==
    ASSUME NEW n \in Names, GoodBinder(binder, ui.states), Freeze(n)
    PROVE  GoodBinder(binder', ui.states)
<1> DEFINE b == binder
           q == [b.binds[n] EXCEPT !.own = {}, !.active = FALSE, !.idx = 0, !.enabled = FALSE]
           set == b.set \ {n}
           d == [b EXCEPT !.binds[n] = q, !.set = set, !.failed = @ \ {n}]
<1>1. b \in Binders /\ b.binds[n] \in BindRecords BY DEF GoodBinder, Binders
<1>2. /\ q \in BindRecords /\ q.active = FALSE /\ q.enabled = FALSE /\ q.bound = b.binds[n].bound
      /\ q.value = b.binds[n].value
  BY <1>1 DEF BindRecords
<1>3. binder' = [d EXCEPT !.heard = (d.set # {})] BY DEF Freeze, CheckEvent
<1> HIDE DEF q
<1>4. /\ d \in Binders /\ d.set = set /\ d.failed = b.failed \ {n}
      /\ d.binds = [b.binds EXCEPT ![n] = q]
  BY <1>1, <1>2 DEF Binders
<1> HIDE DEF d
<1>5. /\ binder' \in Binders /\ binder'.set = set /\ binder'.failed = b.failed \ {n}
      /\ binder'.binds = [b.binds EXCEPT ![n] = q] /\ (binder'.heard <=> set # {})
  BY <1>3, <1>4 DEF Binders
<1>6. binder'.binds[n] = q /\ \A m \in Names \ {n} : binder'.binds[m] = b.binds[m]
  BY <1>1, <1>5 DEF Binders
<1>7. Else(b, binder', n) /\ HeardIfAny(binder') BY <1>5, <1>6 DEF Else, HeardIfAny
<1>8. b.binds[n].bound => b.binds[n].value \in Values
  BY DEF GoodBinder, Good, GoodBind, SoundBind
<1>9. Good(binder', n, ui.states)
  BY <1>2, <1>5, <1>6, <1>8 DEF Good, GoodBind, SoundBind, Tracks, Listens, Wanted
<1> QED BY <1>5, <1>7, <1>9, OnlyOne DEF GoodBinder

LEMMA UnfreezeGood ==
    ASSUME NEW n \in Names, GoodBinder(binder, ui.states), Unfreeze(n)
    PROVE  GoodBinder(binder', ui.states)
<1> DEFINE b == binder
           s == ui.states
           q == [b.binds[n] EXCEPT !.enabled = TRUE]
           on == [b EXCEPT !.binds[n].enabled = TRUE]
           r == DCheck(on, n, s)
<1>1. /\ b \in Binders /\ b.binds[n] \in BindRecords /\ b.binds[n].bound /\ HeardIfAny(b)
      /\ SoundBind(b.binds[n], n \in b.set)
  BY DEF GoodBinder, Binders, Unfreeze, Good, GoodBind
<1>2. binder' = IF r.error THEN [r.b EXCEPT !.failed = r.b.failed \cup {n}]
                ELSE [r.b EXCEPT !.failed = r.b.failed \ {n}]
  BY DEF Unfreeze
<1>3. /\ q \in BindRecords /\ q.active = b.binds[n].active /\ q.enabled = TRUE
      /\ q.bound = b.binds[n].bound /\ q.value = b.binds[n].value
  BY <1>1 DEF BindRecords
<1>4. on = [b EXCEPT !.binds = [b.binds EXCEPT ![n] = q]] BY <1>1 DEF Binders
<1> HIDE DEF q, on
<1>5. /\ on \in Binders /\ on.set = b.set /\ on.failed = b.failed /\ on.heard = b.heard
      /\ on.binds = [b.binds EXCEPT ![n] = q]
  BY <1>1, <1>3, <1>4 DEF Binders
<1>6. on.binds[n] = q /\ \A m \in Names \ {n} : on.binds[m] = b.binds[m]
  BY <1>1, <1>5 DEF Binders
<1>7. HeardIfAny(on) /\ Sound(on, n) /\ Else(b, on, n)
  BY <1>1, <1>3, <1>5, <1>6 DEF HeardIfAny, Sound, SoundBind, Else
<1>8. b.binds[n].value \in Values BY <1>1 DEF SoundBind
<1>9. DChecked(on, r, n, s) BY <1>1, <1>3, <1>5, <1>6, <1>7, <1>8, DCheckDoes
<1> HIDE DEF r
<1>10. r.b \in Binders BY <1>9 DEF DChecked
<1>11. /\ binder' \in Binders /\ binder'.binds = r.b.binds /\ binder'.set = r.b.set
       /\ binder'.failed = (IF r.error THEN r.b.failed \cup {n} ELSE r.b.failed \ {n})
       /\ binder'.heard = r.b.heard
  BY <1>2, <1>10 DEF Binders
<1>12. HeardIfAny(binder') /\ Else(b, binder', n)
  BY <1>7, <1>9, <1>11 DEF HeardIfAny, DChecked, Else
<1>13. Good(binder', n, s) BY <1>9, <1>11 DEF DChecked, Good, GoodBind, Sound
<1> QED BY <1>11, <1>12, <1>13, OnlyOne DEF GoodBinder

\* One more value of a function on 0..n.
Longer(g, n, f, v) == /\ g = [i \in 0..(n + 1) |-> g[i]] /\ g[n + 1] = v
                      /\ \A i \in 0..n : g[i] = f[i]

LEMMA Extended == \A n \in Nat : \A f, v : \E g : Longer(g, n, f, v)
<1> TAKE n \in Nat
<1> TAKE f, v
<1> DEFINE g == [i \in 0..(n + 1) |-> IF i = n + 1 THEN v ELSE f[i]]
<1>1. g = [i \in 0..(n + 1) |-> g[i]] /\ g[n + 1] = v /\ \A i \in 0..n : g[i] = f[i]
  OBVIOUS
<1> HIDE DEF g
<1> QED BY <1>1 DEF Longer

-----------------------------------------------------------------------------
(* The callbacks.                                                          *)

LEMMA AdvanceGood ==
    ASSUME NEW b, NEW s, NEW u, NEW f, NEW slow, GoodBinder(b, s)
    PROVE  GoodBinder(Advance(b, u, f, slow), s)
<1> DEFINE idx(n) == IF Matches(b, n, u, f, slow) /\ ~ Completes(b, n, u, f, slow)
                     THEN At(b.binds[n], slow) + 1 ELSE 0
           q(n) == IF n \notin b.set THEN b.binds[n] ELSE [b.binds[n] EXCEPT !.idx = idx(n)]
           binds == [n \in Names |-> q(n)]
           c == Advance(b, u, f, slow)
<1>1. b \in Binders BY DEF GoodBinder
<1>2. ASSUME NEW n \in Names PROVE q(n) \in BindRecords /\ SameBut(b.binds[n], q(n))
                                   /\ q(n).active = b.binds[n].active
  <2>1. b.binds[n] \in BindRecords BY <1>1 DEF Binders
  <2>2. At(b.binds[n], slow) \in Nat BY <2>1 DEF At, BindRecords
  <2>3. idx(n) \in Nat BY <2>2
  <2> HIDE DEF idx
  <2> QED BY <2>1, <2>3 DEF BindRecords, SameBut
<1>3. c = [b EXCEPT !.binds = binds] BY DEF Advance
<1>4. binds \in [Names -> BindRecords] BY <1>2
<1> HIDE DEF q, c
<1>5. /\ c \in Binders /\ c.set = b.set /\ c.failed = b.failed /\ c.heard = b.heard
      /\ c.binds = binds
  <2> HIDE DEF binds
  <2> QED BY <1>1, <1>3, <1>4 DEF Binders
<1>6. ASSUME NEW n \in Names PROVE Good(c, n, s)
  <2>1. c.binds[n] = q(n) BY <1>5
  <2>2. SameBut(b.binds[n], c.binds[n]) /\ c.binds[n].active = b.binds[n].active BY <2>1, <1>2
  <2>3. Good(b, n, s) BY DEF GoodBinder
  <2> QED BY <2>2, <2>3, <1>5 DEF Good, GoodBind, SoundBind, Tracks, Listens, Wanted, SameBut
<1>7. HeardIfAny(c) BY <1>5 DEF GoodBinder, HeardIfAny
<1>8. GoodBinder(c, s) BY <1>5, <1>6, <1>7 DEF GoodBinder
<1> QED BY <1>8 DEF c

\* What the callbacks of a frame leave, one after the other.
Work(w) == /\ w = [b |-> w.b, u |-> w.u, early |-> w.early]
           /\ w.early = {} /\ GoodBinder(w.b, w.u.states)

LEMMA CallbackWork ==
    ASSUME NEW n, NEW w, Work(w)
    PROVE  Work(Callback(n, w))
<1> DEFINE c == Callback(n, w)
<1>1. CASE Does[n] = "focus"
  <2> DEFINE to == IF Field \in gone THEN None ELSE Field
             u == Focus(w.u, to)
             b == Listened(w.b, w.u.states, u.states)
  <2>1. c = [w EXCEPT !.u = u, !.b = b] BY <1>1 DEF Callback
  <2>2. GoodBinder(b, u.states) BY ListenedGood DEF Work
  <2> HIDE DEF u, b, c
  <2>3. c = [b |-> b, u |-> u, early |-> w.early] BY <2>1 DEF Work
  <2>4. Work(c) BY <2>2, <2>3 DEF Work
  <2> QED BY <2>4 DEF c
<1>2. CASE Does[n] = "renew"
  <2> DEFINE d == UnbindFrom(w.b, Renewed.name)
             b == BindTo(d, Renewed.name, Renewed.value, w.u.states)
  <2>1. c = [w EXCEPT !.b = b] BY <1>2 DEF Callback
  <2>2. Renewed.name \in Names /\ Renewed.value \in Values BY InterfaceAssumption
  <2>3. GoodBinder(d, w.u.states) BY <2>2, UnbindFromGood DEF Work
  <2> HIDE DEF d
  <2>4. GoodBinder(b, w.u.states) BY <2>2, <2>3, BindToGood
  <2> HIDE DEF b, c
  <2>5. c = [b |-> b, u |-> w.u, early |-> w.early] BY <2>1 DEF Work
  <2>6. Work(c) BY <2>4, <2>5 DEF Work
  <2> QED BY <2>6 DEF c
<1>3. CASE Does[n] \notin {"focus", "renew"}
  <2>1. c = w BY <1>3 DEF Callback
  <2> QED BY <2>1
<1> QED BY <1>1, <1>2, <1>3

LEMMA CalledWork ==
    ASSUME NEW n, NEW b, NEW w, Work(w)
    PROVE  Work(Called(n, b, w))
<1>1. CASE ~ Current(n, b, w) BY <1>1 DEF Called
<1>2. CASE Current(n, b, w)
  <2> DEFINE x == Callback(n, w)
             c == Called(n, b, w)
  <2>1. Work(x) BY CallbackWork
  <2>2. w.b.binds[n].epoch = b.binds[n].epoch BY <1>2 DEF Current
  <2>3. c = [x EXCEPT !.early = x.early] BY <1>2, <2>2 DEF Called
  <2> HIDE DEF x, c
  <2>4. c = [b |-> x.b, u |-> x.u, early |-> x.early] BY <2>1, <2>3 DEF Work
  <2>5. Work(c) BY <2>1, <2>4 DEF Work
  <2> QED BY <2>5 DEF c
<1> QED BY <1>1, <1>2

AfterRun(n, order, b, done, f) ==
    f = [i \in 0..n |-> IF i = 0 THEN done ELSE Called(order[i], b, f[i - 1])]

LEMMA AfterExists == \A order, b, done : \A n \in Nat : \E f : AfterRun(n, order, b, done, f)
<1> TAKE order, b, done
<1> DEFINE T == {n \in Nat : \E f : AfterRun(n, order, b, done, f)}
<1>1. 0 \in T
  <2>1. AfterRun(0, order, b, done, [i \in 0..0 |-> done]) BY DEF AfterRun
  <2> QED BY <2>1
<1>2. ASSUME NEW n \in Nat, n \in T PROVE n + 1 \in T
  <2>1. PICK f : AfterRun(n, order, b, done, f) BY <1>2
  <2>2. PICK last : last = Called(order[(n + 1)], b, f[n]) OBVIOUS
  <2>3. PICK g : Longer(g, n, f, last) BY Extended
  <2>4. /\ g = [i \in 0..(n + 1) |-> g[i]] /\ g[n + 1] = last
        /\ \A i \in 0..n : g[i] = f[i]
    BY <2>3 DEF Longer
  <2>5. ASSUME NEW i \in 0..(n + 1)
        PROVE  g[i] = IF i = 0 THEN done ELSE Called(order[i], b, g[i - 1])
    <3>1. CASE i = n + 1
      <4>1. n \in 0..n /\ i # 0 /\ i - 1 = n BY <3>1
      <4>2. g[n] = f[n] BY <2>4, <4>1
      <4> QED BY <2>2, <2>4, <3>1, <4>1, <4>2
    <3>2. CASE i # n + 1
      <4>1. i \in 0..n /\ (i # 0 => i - 1 \in 0..n) BY <3>2
      <4>2. f[i] = IF i = 0 THEN done ELSE Called(order[i], b, f[i - 1])
        BY <2>1, <4>1 DEF AfterRun
      <4> QED BY <2>4, <4>1, <4>2
    <3> QED BY <3>1, <3>2
  <2>6. AfterRun(n + 1, order, b, done, g) BY <2>4, <2>5 DEF AfterRun
  <2> QED BY <2>6
<1>3. Nat \subseteq T
  <2> HIDE DEF T
  <2> QED BY <1>1, <1>2, Induction
<1> QED BY <1>3

\* A frame of keys: the binds are sound after it.
LEMMA KeyInputWork ==
    ASSUME NEW b, NEW u, NEW f, NEW slow,
           NEW order \in SetToSeqs({m \in Names : Completes(b, m, u, f, slow)}),
           GoodBinder(b, u.states)
    PROVE  Work(KeyInput(b, u, f, slow, order).w)
<1> DEFINE done == [b |-> Advance(b, u, f, slow), u |-> u, early |-> {}]
           all == {m \in Names : Completes(b, m, u, f, slow)}
           key == KeyInput(b, u, f, slow, order)
<1>1. Work(done) /\ Work([done EXCEPT !.b = b])
  <2> DEFINE a == Advance(b, u, f, slow)
  <2>1. GoodBinder(a, u.states) BY AdvanceGood
  <2> HIDE DEF a
  <2>2. PICK e : e = {} OBVIOUS
  <2>3. [[b |-> a, u |-> u, early |-> e] EXCEPT !.b = b] = [b |-> b, u |-> u, early |-> e]
    OBVIOUS
  <2> QED BY <2>1, <2>2, <2>3 DEF Work, a
<1> HIDE DEF done
<1>2. CASE ~ (f.KeyInput /\ b.heard)
  <2>1. key.w = [done EXCEPT !.b = b] BY <1>2 DEF KeyInput, done
  <2> QED BY <2>1, <1>1
<1>3. CASE f.KeyInput /\ b.heard
  <2>1. PICK n \in Nat : n = Cardinality(all) /\ order \in [1..n -> all]
    <3>1. IsFiniteSet(all) BY BinderAssumption, FS_Subset
    <3>2. Cardinality(all) \in Nat BY <3>1, FS_CardinalityType
    <3> QED BY <3>2 DEF SetToSeqs
  <2>2. Len(order) = n BY <2>1
  <2>3. PICK after : after = CHOOSE g : AfterRun(n, order, b, done, g) OBVIOUS
  <2>4. key.w = after[n]
    BY <1>3, <2>2, <2>3 DEF KeyInput, AfterRun, done
  <2>5. AfterRun(n, order, b, done, after) BY <2>3, AfterExists
  <2>6. after[0] = done /\ \A i \in 1..n : after[i] = Called(order[i], b, after[i - 1])
    BY <2>5 DEF AfterRun
  <2> DEFINE T == {i \in Nat : i <= n => Work(after[i])}
  <2>7. 0 \in T BY <2>6, <1>1
  <2>8. ASSUME NEW i \in Nat, i \in T PROVE i + 1 \in T
    <3>1. SUFFICES ASSUME i + 1 <= n PROVE Work(after[i + 1]) OBVIOUS
    <3>2. Work(after[i]) BY <2>8, <3>1
    <3>3. after[i + 1] = Called(order[i + 1], b, after[i])
      <4>1. i + 1 \in 1..n /\ (i + 1) - 1 = i BY <3>1
      <4> QED BY <4>1, <2>6
    <3> QED BY <3>2, <3>3, CalledWork
  <2>9. Nat \subseteq T
    <3> HIDE DEF T
    <3> QED BY <2>7, <2>8, Induction
  <2>10. Work(after[n]) BY <2>9
  <2> QED BY <2>4, <2>10
<1> QED BY <1>2, <1>3

-----------------------------------------------------------------------------
(* What is understood of what is typed.                                    *)

Bytes == {"e", "n", "x", "A", "[", "O", "P", "M", "m", "3", "<", "<35"} \cup {s.at : s \in Strokes}

LEMMA SentBytes ==
    ASSUME NEW s \in Strokes
    PROVE  /\ Sent(s) \in Seq(Bytes) /\ Len(Sent(s)) \in 1..5
           /\ s.key = "escape" \/ Len(Sent(s)) # 1 \/ Sent(s)[1] # "e"
           /\ s.key = "escape" => Len(Sent(s)) = 1
<1> USE DEF Bytes
<1>0. s.key \in Reports \/ s.key \in Special BY InputAssumption
<1>1. CASE s.key = "letter" BY <1>1 DEF Sent
<1>2. CASE s.key = "enter" BY <1>2 DEF Sent
<1>3. CASE s.key = "escape" BY <1>3 DEF Sent
<1>4. CASE s.key = "alt" BY <1>4 DEF Sent
<1>5. CASE s.key = "up" BY <1>5 DEF Sent
<1>6. CASE s.key = "altup" BY <1>6 DEF Sent
<1>7. CASE s.key = "f1" BY <1>7 DEF Sent
<1>8. CASE s.key = "press"
  <2>1. Sent(s) = <<"e", "[", "<", s.at, "M">> BY <1>8 DEF Sent
  <2>2. "e" \in Bytes /\ "[" \in Bytes /\ "<" \in Bytes /\ s.at \in Bytes /\ "M" \in Bytes
    OBVIOUS
  <2> HIDE DEF Bytes
  <2> QED BY <2>1, <2>2, <1>8
<1>9. CASE s.key = "move"
  <2>1. Sent(s) = <<"e", "[", "<35", s.at, "M">> BY <1>9 DEF Sent
  <2>2. "e" \in Bytes /\ "[" \in Bytes /\ "<35" \in Bytes /\ s.at \in Bytes /\ "M" \in Bytes
    OBVIOUS
  <2> HIDE DEF Bytes
  <2> QED BY <2>1, <2>2, <1>9
<1>10. CASE s.key = "release"
  <2>1. Sent(s) = <<"e", "[", "<", s.at, "m">> BY <1>10 DEF Sent
  <2>2. "e" \in Bytes /\ "[" \in Bytes /\ "<" \in Bytes /\ s.at \in Bytes /\ "m" \in Bytes
    OBVIOUS
  <2> HIDE DEF Bytes
  <2> QED BY <2>1, <2>2, <1>10
<1> QED
  BY <1>0, <1>1, <1>2, <1>3, <1>4, <1>5, <1>6, <1>7, <1>8, <1>9, <1>10 DEF Reports, Special

\* p begins as s does, as far as it goes.
Begins(p, s) == \A j \in 1..Len(p) : j <= Len(Sent(s)) => p[j] = Sent(s)[j]

\* The end of a sequence.
LEMMA EndIs ==
    ASSUME NEW p \in Seq(Bytes), NEW l \in 3..Len(p), p[l] \in Final,
           \A i \in 3..(l - 1) : p[i] \notin Final
    PROVE  /\ Ends(p) # {} /\ Min(Ends(p)) = l
           /\ SubSeq(p, 1, l) \in Seq(Bytes) /\ Len(SubSeq(p, 1, l)) = l
           /\ \A i \in 1..l : SubSeq(p, 1, l)[i] = p[i]
<1>0. Len(p) \in Nat /\ l \in Nat BY LenProperties
<1>1. l \in Ends(p) /\ \A i \in Ends(p) : i \in Nat /\ l <= i BY <1>0 DEF Ends
<1>2. Min(Ends(p)) = l
  <2> DEFINE E == Ends(p)
  <2>1. l \in E /\ \A i \in E : i \in Nat /\ l <= i BY <1>1
  <2> HIDE DEF E
  <2>2. \A m \in E : (\A i \in E : m <= i) => m = l BY <2>1
  <2>3. Min(E) = l BY <2>1, <2>2 DEF Min
  <2> QED BY <2>3 DEF E
<1>3. 1 \in Int /\ l \in Int /\ \A i \in 1..l : p[i] \in Bytes BY <1>0, ElementOfSeq
<1>4. SubSeq(p, 1, l) \in Seq(Bytes) /\ Len(SubSeq(p, 1, l)) = l
      /\ \A i \in 1..l : SubSeq(p, 1, l)[i] = p[i]
  BY <1>0, <1>3, SubSeqProperties
<1> QED BY <1>1, <1>2, <1>4

\* A stroke that begins with ESC and "[" or "O", when its n bytes are there.
OfSequence(s, n) ==
    /\ n \in {3, 4, 5} /\ Len(Sent(s)) = n /\ Sent(s)[1] = "e" /\ Sent(s)[2] \in {"[", "O"}
    /\ Sent(s)[n] \in Final /\ \A i \in 3..(n - 1) : Sent(s)[i] \notin Final
    /\ \A q \in Seq(Bytes) : Len(q) = n /\ (\A i \in 1..n : q[i] = Sent(s)[i]) => Named(q) = s

LEMMA SequenceIs ==
    ASSUME NEW s \in Strokes, NEW p \in Seq(Bytes), NEW n, OfSequence(s, n), n <= Len(p),
           Begins(p, s)
    PROVE  \A late : Understand(p, late) = Event(s, n)
<1> USE DEF OfSequence
<1>0. Len(p) \in Nat BY LenProperties
<1>1. \A i \in 1..n : p[i] = Sent(s)[i] BY <1>0 DEF Begins
<1>2. n \in 3..Len(p) /\ p[n] \in Final /\ \A i \in 3..(n - 1) : p[i] \notin Final
  <2>1. \A i \in 3..(n - 1) : i \in 1..n OBVIOUS
  <2> QED BY <1>0, <1>1, <2>1
<1>3. PICK q : q = SubSeq(p, 1, n) OBVIOUS
<1>4. Ends(p) # {} /\ Min(Ends(p)) = n /\ q \in Seq(Bytes) /\ Len(q) = n
      /\ \A i \in 1..n : q[i] = p[i]
  BY <1>2, <1>3, EndIs
<1>5. Named(q) = s BY <1>1, <1>4
<1>6. Sequence(p) = Event(s, n) BY <1>3, <1>4, <1>5 DEF Sequence
<1>7. p[1] = "e" /\ p[2] \in {"[", "O"} /\ Len(p) > 1 BY <1>0, <1>1
<1> QED BY <1>6, <1>7, <1>0 DEF Understand

LEMMA NoEnd ==
    ASSUME NEW p \in Seq(Bytes), \A i \in 3..Len(p) : p[i] \notin Final
    PROVE  Sequence(p) = Wait
BY DEF Ends, Sequence

\* The first of what is there is understood when all of it is there, and then nothing else
\* is; an escape, when time has passed.
LEMMA HeadUnderstood ==
    ASSUME NEW s \in Strokes, NEW p \in Seq(Bytes), NEW late \in BOOLEAN, p # <<>>,
           Begins(p, s), late => Len(p) = 1 /\ s.key = "escape"
    PROVE  \/ /\ Understand(p, late) = Event(s, Len(Sent(s))) /\ Len(Sent(s)) <= Len(p)
           \/ /\ Understand(p, late) = Wait
              /\ Len(p) < Len(Sent(s)) \/ (s.key = "escape" /\ ~ late)
           \/ s.key = "escape" /\ Len(p) # 1
<1>0. s.key \in Reports \/ s.key \in Special BY InputAssumption
<1>1. Len(p) \in Nat \ {0} BY EmptySeq
<1>2. s = [key |-> s.key, at |-> s.at] /\ s.at \notin Final BY InputAssumption
<1>3. s.key \notin Reports => s = [key |-> s.key, at |-> None] BY InputAssumption, <1>2
<1>4. CASE s.key \in {"letter", "enter"}
  <2>1. p[1] = (IF s.key = "letter" THEN "x" ELSE "n") /\ Len(Sent(s)) = 1
    <3>1. Sent(s) = <<IF s.key = "letter" THEN "x" ELSE "n">> BY <1>4 DEF Sent
    <3>2. Len(Sent(s)) = 1 /\ Sent(s)[1] = IF s.key = "letter" THEN "x" ELSE "n" BY <3>1
    <3>3. p[1] = Sent(s)[1] BY <1>1, <3>2 DEF Begins
    <3> QED BY <3>2, <3>3
  <2>2. s = Stroke(s.key) BY <1>3, <1>4 DEF Stroke, Reports
  <2>3. Plain(p[1]) = s BY <1>4, <2>1, <2>2 DEF Plain
  <2> QED BY <2>1, <2>3, <1>1, <1>4 DEF Understand
<1>5. CASE s.key = "escape"
  <2>1. p[1] = "e" /\ Len(Sent(s)) = 1 BY <1>1, <1>5 DEF Begins, Sent
  <2>2. s = Stroke("escape") BY <1>3, <1>5 DEF Stroke, Reports
  <2>3. CASE Len(p) = 1
    BY <1>1, <1>5, <2>1, <2>2, <2>3 DEF Understand
  <2> QED BY <2>3, <1>5
<1>6. CASE s.key = "alt"
  <2>1. Sent(s) = <<"e", "x">> BY <1>6 DEF Sent
  <2>2. p[1] = "e" /\ (Len(p) > 1 => p[2] = "x") BY <1>1, <2>1 DEF Begins
  <2>3. s = Stroke("alt") BY <1>3, <1>6 DEF Stroke, Reports
  <2>4. ~ late BY <1>6
  <2>5. CASE Len(p) = 1 BY <2>1, <2>2, <2>4, <2>5 DEF Understand
  <2>6. CASE Len(p) > 1
    <3>1. Understand(p, late) = Event(s, 2) BY <2>2, <2>3, <2>6 DEF Understand
    <3> QED BY <3>1, <2>1, <2>6, <1>1
  <2> QED BY <2>5, <2>6, <1>1
<1>7. CASE s.key \in {"up", "altup", "f1", "press", "move", "release"}
  <2> DEFINE n == CASE s.key \in {"up", "f1"} -> 3 [] s.key = "altup" -> 4 [] OTHER -> 5
             t == Sent(s)
  <2>1. OfSequence(s, n)
    <3>1. CASE s.key = "up"
      <4>1. t = <<"e", "[", "A">> /\ n = 3 BY <3>1 DEF Sent
      <4>2. s = Stroke("up") BY <1>3, <3>1 DEF Stroke, Reports
      <4>3. ASSUME NEW q, Len(q) = 3, q[1] = "e", q[2] = "[", q[3] = "A" PROVE Named(q) = s
        BY <4>2, <4>3 DEF Named, Csi
      <4> QED BY <4>1, <4>3 DEF Final, OfSequence
    <3>2. CASE s.key = "altup"
      <4>1. t = <<"e", "[", "3", "A">> /\ n = 4 BY <3>2 DEF Sent
      <4>2. s = Stroke("altup") BY <1>3, <3>2 DEF Stroke, Reports
      <4>3. ASSUME NEW q, Len(q) = 4, q[1] = "e", q[2] = "[", q[3] = "3", q[4] = "A"
            PROVE  Named(q) = s
        BY <4>2, <4>3 DEF Named, Csi
      <4> QED BY <4>1, <4>3 DEF Final, OfSequence
    <3>3. CASE s.key = "f1"
      <4>1. t = <<"e", "O", "P">> /\ n = 3 BY <3>3 DEF Sent
      <4>2. s = Stroke("f1") BY <1>3, <3>3 DEF Stroke, Reports
      <4>3. ASSUME NEW q, Len(q) = 3, q[1] = "e", q[2] = "O", q[3] = "P" PROVE Named(q) = s
        BY <4>2, <4>3 DEF Named, Ss3
      <4> QED BY <4>1, <4>3 DEF Final, OfSequence
    <3>4. CASE s.key = "press"
      <4>1. t = <<"e", "[", "<", s.at, "M">> /\ n = 5 BY <3>4 DEF Sent
      <4>3. ASSUME NEW q, Len(q) = 5, q[2] = "[", q[3] = "<", q[4] = s.at, q[5] = "M"
            PROVE  Named(q) = s
        BY <1>2, <3>4, <4>3 DEF Named, Csi
      <4>4. t[1] = "e" /\ t[2] = "[" /\ t[3] = "<" /\ t[4] = s.at /\ t[5] = "M" /\ Len(t) = 5
        BY <4>1
      <4> HIDE DEF t, n
      <4>5. /\ t[n] \in Final /\ \A i \in 3..(n - 1) : t[i] \notin Final
        BY <4>1, <4>4, <1>2 DEF Final
      <4>6. \A q \in Seq(Bytes) : Len(q) = n /\ (\A i \in 1..n : q[i] = t[i]) => Named(q) = s
        BY <4>1, <4>3, <4>4
      <4> QED BY <4>1, <4>4, <4>5, <4>6 DEF OfSequence, t
    <3>5. CASE s.key = "move"
      <4>1. t = <<"e", "[", "<35", s.at, "M">> /\ n = 5 BY <3>5 DEF Sent
      <4>3. ASSUME NEW q, Len(q) = 5, q[2] = "[", q[3] = "<35", q[4] = s.at, q[5] = "M"
            PROVE  Named(q) = s
        BY <1>2, <3>5, <4>3 DEF Named, Csi
      <4>4. t[1] = "e" /\ t[2] = "[" /\ t[3] = "<35" /\ t[4] = s.at /\ t[5] = "M" /\ Len(t) = 5
        BY <4>1
      <4> HIDE DEF t, n
      <4>5. /\ t[n] \in Final /\ \A i \in 3..(n - 1) : t[i] \notin Final
        BY <4>1, <4>4, <1>2 DEF Final
      <4>6. \A q \in Seq(Bytes) : Len(q) = n /\ (\A i \in 1..n : q[i] = t[i]) => Named(q) = s
        BY <4>1, <4>3, <4>4
      <4> QED BY <4>1, <4>4, <4>5, <4>6 DEF OfSequence, t
    <3>6. CASE s.key = "release"
      <4>1. t = <<"e", "[", "<", s.at, "m">> /\ n = 5 BY <3>6 DEF Sent
      <4>3. ASSUME NEW q, Len(q) = 5, q[2] = "[", q[3] = "<", q[4] = s.at, q[5] = "m"
            PROVE  Named(q) = s
        BY <1>2, <3>6, <4>3 DEF Named, Csi
      <4>4. t[1] = "e" /\ t[2] = "[" /\ t[3] = "<" /\ t[4] = s.at /\ t[5] = "m" /\ Len(t) = 5
        BY <4>1
      <4> HIDE DEF t, n
      <4>5. /\ t[n] \in Final /\ \A i \in 3..(n - 1) : t[i] \notin Final
        BY <4>1, <4>4, <1>2 DEF Final
      <4>6. \A q \in Seq(Bytes) : Len(q) = n /\ (\A i \in 1..n : q[i] = t[i]) => Named(q) = s
        BY <4>1, <4>3, <4>4
      <4> QED BY <4>1, <4>4, <4>5, <4>6 DEF OfSequence, t
    <3> QED BY <3>1, <3>2, <3>3, <3>4, <3>5, <3>6, <1>7
  <2> HIDE DEF n
  <2>2. ~ late BY <1>7
  <2>3. CASE n <= Len(p)
    <3>1. Understand(p, late) = Event(s, n) BY <2>1, <2>3, SequenceIs
    <3> QED BY <3>1, <2>1, <2>3 DEF OfSequence
  <2>4. CASE ~ n <= Len(p)
    <3>0. n \in {3, 4, 5} /\ Len(t) = n BY <2>1 DEF OfSequence
    <3>1. \A j \in 1..Len(p) : p[j] = t[j] BY <1>1, <3>0, <2>4 DEF Begins
    <3>2. \A i \in 3..Len(p) : p[i] \notin Final BY <1>1, <2>1, <2>4, <3>1 DEF OfSequence
    <3>3. p[1] = "e" BY <1>1, <2>1, <3>1 DEF OfSequence
    <3>4. CASE Len(p) = 1 BY <3>0, <3>3, <3>4, <2>2 DEF Understand
    <3>5. CASE Len(p) > 1
      <4>1. p[2] \in {"[", "O"} BY <3>5, <1>1, <2>1, <3>1 DEF OfSequence
      <4>2. Sequence(p) = Wait BY <3>2, NoEnd
      <4>3. Understand(p, late) = Wait BY <4>1, <4>2, <3>3, <3>5, <1>1 DEF Understand
      <4> QED BY <4>3, <3>0, <2>4, <1>1
    <3> QED BY <3>4, <3>5, <1>1
  <2> QED BY <2>3, <2>4
<1> QED BY <1>0, <1>4, <1>5, <1>6, <1>7 DEF Reports, Special

\* es is what has been understood of the strokes ts, and bytes are those of the rest: of the
\* i-th, up to the c[i]-th.  Nothing has been typed after an escape that is not understood.
Spells(bytes, s, from, to) == /\ to = from + Len(Sent(s))
                              /\ \A j \in 1..Len(Sent(s)) : bytes[from + j] = Sent(s)[j]
Rising(c, k, l) == \A i, j \in k..l : i < j => c[i] < c[j]
Starts(es, ts, k) == Len(es) = k /\ \A i \in 1..k : es[i] = ts[i]
EscapeLast(ts, k) == \A i \in (k + 1)..(Len(ts) - 1) : ts[i].key # "escape"
Cut(es, bytes, ts, k, c) ==
    /\ k \in 0..Len(ts) /\ c \in [0..Len(ts) -> Int] /\ c[k] = 0 /\ c[Len(ts)] = Len(bytes)
    /\ Starts(es, ts, k) /\ Rising(c, k, Len(ts)) /\ EscapeLast(ts, k)
    /\ \A i \in (k + 1)..Len(ts) : Spells(bytes, ts[i], c[i - 1], c[i])
Fits(es, bytes, ts) == \E k, c : Cut(es, bytes, ts, k, c)

LEMMA NoneIfZero == \A S : \A s \in Seq(S) : Len(s) = 0 => s = <<>>
BY EmptySeq

LEMMA RisingIs ==
    ASSUME NEW k \in Nat, NEW l \in Nat, NEW c \in [0..l -> Int], Rising(c, k, l),
           NEW i \in k..l, NEW j \in k..l, i <= j
    PROVE  c[i] \in Int /\ c[j] \in Int /\ c[i] <= c[j]
<1>1. c[i] \in Int /\ c[j] \in Int OBVIOUS
<1>2. CASE i = j BY <1>1, <1>2
<1>3. CASE i < j BY <1>1, <1>3 DEF Rising
<1> QED BY <1>2, <1>3

\* The first stroke of the rest is at the head of the bytes.
LEMMA HeadOfCut ==
    ASSUME NEW es, NEW ts \in Seq(Strokes), NEW p \in Seq(Bytes), NEW tail \in Seq(Bytes),
           NEW k, NEW c, Cut(es, p \o tail, ts, k, c), p # <<>>
    PROVE  /\ k + 1 \in 1..Len(ts) /\ ts[k + 1] \in Strokes /\ Begins(p, ts[k + 1])
           /\ ts[k + 1].key = "escape" => Len(p) = 1 /\ tail = <<>>
           /\ c[k + 1] = Len(Sent(ts[k + 1])) /\ Len(Sent(ts[k + 1])) <= Len(p) + Len(tail)
<1> DEFINE b == p \o tail
<1>1. Len(p) \in Nat \ {0} /\ Len(tail) \in Nat BY EmptySeq, LenProperties
<1>2. Len(b) = Len(p) + Len(tail) /\ \A j \in 1..Len(p) : b[j] = p[j] BY <1>1, ConcatProperties
<1> HIDE DEF b
<1>3. Cut(es, b, ts, k, c) BY DEF b
<1>4. PICK l \in Nat : l = Len(ts) BY LenProperties
<1>5. /\ k \in 0..l /\ c \in [0..l -> Int] /\ c[k] = 0 /\ c[l] = Len(b) /\ Rising(c, k, l)
      /\ EscapeLast(ts, k) /\ \A i \in (k + 1)..l : Spells(b, ts[i], c[i - 1], c[i])
  BY <1>3, <1>4 DEF Cut
<1>6. k \in Nat /\ k < l BY <1>1, <1>2, <1>5
<1>7. PICK s : s = ts[k + 1] OBVIOUS
<1>8. s \in Strokes
  <2>1. k + 1 \in 1..Len(ts) BY <1>4, <1>6
  <2> QED BY <1>7, <2>1, ElementOfSeq
<1>9. PICK n \in 1..5 : n = Len(Sent(s)) BY <1>8, SentBytes
<1>10. c[k + 1] = n /\ \A j \in 1..n : b[j] = Sent(s)[j]
  <2>1. k + 1 \in (k + 1)..l /\ (k + 1) - 1 = k BY <1>6
  <2>2. Spells(b, ts[k + 1], c[(k + 1) - 1], c[k + 1]) BY <1>5, <2>1
  <2>3. Spells(b, s, 0, c[k + 1]) BY <2>1, <2>2, <1>5, <1>7
  <2> QED BY <2>3, <1>9 DEF Spells
<1>11. Begins(p, s) BY <1>1, <1>2, <1>9, <1>10 DEF Begins
<1>12. n <= Len(b)
  <2>1. k + 1 \in k..l /\ l \in k..l /\ k + 1 <= l BY <1>6
  <2>2. c[k + 1] <= c[l] BY <1>5, <1>6, <2>1, RisingIs
  <2> QED BY <1>5, <1>10, <2>2
<1>13. s.key = "escape" => Len(p) = 1 /\ tail = <<>>
  <2>1. SUFFICES ASSUME s.key = "escape" PROVE Len(p) = 1 /\ tail = <<>> OBVIOUS
  <2>2. k + 1 = l
    <3>1. SUFFICES ASSUME k + 1 # l PROVE FALSE OBVIOUS
    <3>2. k + 1 \in (k + 1)..(Len(ts) - 1) BY <1>4, <1>6, <3>1
    <3> QED BY <1>5, <1>7, <2>1, <3>2 DEF EscapeLast
  <2>3. n = 1 BY <1>8, <1>9, <2>1, SentBytes
  <2>4. Len(p) + Len(tail) = 1 BY <1>2, <1>5, <1>10, <2>2, <2>3
  <2>5. PICK x, y \in Nat : x = Len(p) /\ y = Len(tail) BY <1>1
  <2>6. x # 0 /\ x + y = 1 BY <1>1, <2>4, <2>5
  <2>7. x = 1 /\ y = 0 BY <2>6
  <2> QED BY <2>5, <2>7, NoneIfZero
<1> QED BY <1>2, <1>4, <1>6, <1>7, <1>8, <1>9, <1>10, <1>11, <1>12, <1>13

LEMMA Associative == \A s, t, u \in Seq(Bytes) : (s \o t) \o u = s \o (t \o u)
BY ConcatAssociative

\* What is left of p and what follows it, without the first n of p.
Left(p, tail, n, rest) ==
    /\ rest \in Seq(Bytes) /\ Len(rest) = Len(p) - n
    /\ rest \o tail \in Seq(Bytes) /\ Len(rest \o tail) = Len(p \o tail) - n
    /\ \A i \in 1..Len(rest \o tail) : (rest \o tail)[i] = (p \o tail)[i + n]

LEMMA AfterEvents ==
    ASSUME NEW p \in Seq(Bytes), NEW tail \in Seq(Bytes), NEW n \in 1..Len(p)
    PROVE  Left(p, tail, n, SubSeq(p, n + 1, Len(p)))
<1>1. PICK l \in Nat : l = Len(p) BY LenProperties
<1>2. n \in Nat /\ n <= l /\ n >= 1 BY <1>1
<1>3. PICK head, rest : head = SubSeq(p, 1, n) /\ rest = SubSeq(p, n + 1, Len(p)) OBVIOUS
<1>4. head \in Seq(Bytes) /\ Len(head) = n
  <2>1. 1 \in Int /\ n \in Int /\ \A i \in 1..n : p[i] \in Bytes BY <1>1, <1>2, ElementOfSeq
  <2> QED BY <1>2, <1>3, <2>1, SubSeqProperties
<1>5. rest \in Seq(Bytes) /\ Len(rest) = l - n
  <2>1. n + 1 \in Int /\ l \in Int /\ \A i \in (n + 1)..l : p[i] \in Bytes
    BY <1>1, <1>2, ElementOfSeq
  <2>2. rest \in Seq(Bytes) /\ Len(rest) = IF n + 1 <= l THEN l - (n + 1) + 1 ELSE 0
    BY <1>1, <1>3, <2>1, SubSeqProperties
  <2> QED BY <1>2, <2>2
<1>6. p = head \o rest
  <2>1. 1 \in 1..(Len(p) + 1) /\ n \in (1 - 1)..Len(p) /\ Len(p) \in n..Len(p) BY <1>1, <1>2
  <2>2. SubSeq(p, 1, n) \o SubSeq(p, n + 1, Len(p)) = SubSeq(p, 1, Len(p))
    BY <2>1, ConcatAdjacentSubSeq
  <2>3. SubSeq(p, 1, Len(p)) = p BY SubSeqFull
  <2> QED BY <1>3, <2>2, <2>3
<1>7. PICK a, b : a = rest \o tail /\ b = p \o tail OBVIOUS
<1>8. a \in Seq(Bytes) BY <1>5, <1>7, ConcatProperties
<1>9. b = head \o a
  <2>1. (head \o rest) \o tail = head \o (rest \o tail) BY <1>4, <1>5, Associative
  <2> QED BY <2>1, <1>6, <1>7
<1>10. PICK m \in Nat : m = Len(a) BY <1>8, LenProperties
<1>11. /\ Len(b) = n + m
       /\ \A i \in 1..(n + m) : b[i] = IF i <= n THEN head[i] ELSE a[i - n]
  BY <1>4, <1>8, <1>9, <1>10, ConcatProperties
<1>12. ASSUME NEW i \in 1..m PROVE a[i] = b[i + n]
  <2>1. i + n \in 1..(n + m) /\ ~ i + n <= n /\ (i + n) - n = i BY <1>2
  <2> QED BY <1>11, <2>1
<1>13. Len(a) = Len(b) - n /\ \A i \in 1..Len(a) : a[i] = b[i + n]
  BY <1>2, <1>10, <1>11, <1>12
<1>14. Left(p, tail, n, rest) BY <1>1, <1>5, <1>7, <1>8, <1>13 DEF Left
<1> QED BY <1>3, <1>14

\* The first stroke of the rest, which is all there.
First1(ts, k, p, s, n, rest) ==
    s = ts[k + 1] /\ n = Len(Sent(s)) /\ n <= Len(p) /\ rest = SubSeq(p, n + 1, Len(p))

\* When it is taken, what is left fits.
LEMMA TakenFits ==
    ASSUME NEW es \in Seq(Strokes), NEW ts \in Seq(Strokes), NEW p \in Seq(Bytes),
           NEW tail \in Seq(Bytes), NEW k, NEW c, Cut(es, p \o tail, ts, k, c), p # <<>>,
           NEW s, NEW n, NEW rest, First1(ts, k, p, s, n, rest)
    PROVE  /\ rest \in Seq(Bytes) /\ Len(rest) < Len(p)
           /\ Append(es, s) \in Seq(Strokes) /\ Fits(Append(es, s), rest \o tail, ts)
<1>1. Len(p) \in Nat /\ Len(es) \in Nat BY LenProperties
<1>2. PICK l \in Nat : l = Len(ts) BY LenProperties
<1>3. k + 1 \in 1..l /\ s \in Strokes /\ c[k + 1] = n /\ s = ts[k + 1]
  BY <1>2, HeadOfCut DEF First1
<1>4. n \in 1..5 /\ n \in 1..Len(p)
  <2>1. n \in 1..5 BY <1>3, SentBytes DEF First1
  <2>2. n <= Len(p) BY DEF First1
  <2> QED BY <1>1, <2>1, <2>2
<1>5. PICK a, b : a = rest \o tail /\ b = p \o tail OBVIOUS
<1>6. /\ rest \in Seq(Bytes) /\ Len(rest) = Len(p) - n /\ a \in Seq(Bytes)
      /\ Len(a) = Len(b) - n /\ \A i \in 1..Len(a) : a[i] = b[i + n]
  <2>1. Left(p, tail, n, SubSeq(p, n + 1, Len(p))) BY <1>4, AfterEvents
  <2>2. Left(p, tail, n, rest) BY <2>1 DEF First1
  <2> QED BY <1>5, <2>2 DEF Left
<1>7. PICK m \in Nat : m = Len(a) BY <1>6, LenProperties
<1>8. /\ k \in 0..l /\ c \in [0..l -> Int] /\ c[k] = 0 /\ c[l] = Len(b) /\ Rising(c, k, l)
      /\ EscapeLast(ts, k) /\ Starts(es, ts, k)
      /\ \A i \in (k + 1)..l : Spells(b, ts[i], c[i - 1], c[i])
  BY <1>2, <1>5 DEF Cut
<1>9. k \in Nat /\ k + 1 \in Nat /\ k + 1 <= l BY <1>3, <1>8
<1>10. PICK e : e = Append(es, s) OBVIOUS
<1>11. e \in Seq(Strokes) /\ Starts(e, ts, k + 1)
  <2>1. e \in Seq(Strokes) BY <1>3, <1>10
  <2>2. Len(e) = Len(es) + 1 /\ e[Len(es) + 1] = s /\ \A i \in 1..Len(es) : e[i] = es[i]
    BY <1>1, <1>3, <1>10
  <2>3. Len(es) = k /\ \A i \in 1..k : es[i] = ts[i] BY <1>8 DEF Starts
  <2>4. \A i \in 1..(k + 1) : e[i] = ts[i] BY <1>3, <1>9, <2>2, <2>3
  <2> QED BY <2>1, <2>2, <2>3, <2>4 DEF Starts
<1>12. PICK d : d = [i \in 0..l |-> c[i] - n] OBVIOUS
<1>13. /\ d \in [0..l -> Int] /\ \A i \in 0..l : c[i] \in Int /\ d[i] = c[i] - n
  <2>1. \A i \in 0..l : c[i] \in Int /\ d[i] = c[i] - n BY <1>8, <1>12
  <2>2. n \in Int BY <1>4
  <2>3. \A i \in 0..l : d[i] \in Int BY <2>1, <2>2
  <2> QED BY <1>12, <2>1, <2>3
<1>14. d[k + 1] = 0 /\ d[l] = m
  <2>1. k + 1 \in 0..l /\ l \in 0..l BY <1>9
  <2>2. c[l] = m + n
    <3>1. c[l] \in Int BY <1>8, <2>1
    <3>2. c[l] = Len(b) /\ m = Len(b) - n BY <1>6, <1>7, <1>8
    <3> QED BY <1>4, <3>1, <3>2
  <2>3. c[k + 1] = n /\ n \in Int BY <1>3, <1>4
  <2>4. d[k + 1] = c[k + 1] - n /\ d[l] = c[l] - n BY <1>13, <2>1
  <2> QED BY <2>2, <2>3, <2>4
<1>15. Rising(d, k + 1, l)
  <2>1. SUFFICES ASSUME NEW i \in (k + 1)..l, NEW j \in (k + 1)..l, i < j
                 PROVE  d[i] < d[j]
    BY DEF Rising
  <2>2. i \in k..l /\ j \in k..l /\ i \in 0..l /\ j \in 0..l BY <1>9
  <2>3. c[i] < c[j] BY <1>8, <2>1, <2>2 DEF Rising
  <2>4. /\ c[i] \in Int /\ c[j] \in Int /\ n \in Int
        /\ d[i] = c[i] - n /\ d[j] = c[j] - n
    BY <1>4, <1>13, <2>2
  <2> QED BY <2>3, <2>4
<1>16. ASSUME NEW i \in (k + 2)..l PROVE Spells(a, ts[i], d[i - 1], d[i])
  <2>1. /\ i \in (k + 1)..l /\ i \in 0..l /\ i - 1 \in 0..l /\ i \in 1..Len(ts)
        /\ i - 1 \in (k + 1)..l /\ k + 1 \in (k + 1)..l /\ l \in (k + 1)..l /\ i <= l
        /\ k + 1 <= i - 1
    BY <1>2, <1>9
  <2>2. PICK t : t = ts[i] OBVIOUS
  <2>3. PICK w \in 1..5 : w = Len(Sent(t)) BY <2>1, <2>2, ElementOfSeq, SentBytes
  <2>4. c[i] = c[i - 1] + w /\ \A j \in 1..w : b[c[i - 1] + j] = Sent(t)[j]
    <3>1. Spells(b, t, c[i - 1], c[i]) BY <1>8, <2>1, <2>2
    <3> QED BY <2>3, <3>1 DEF Spells
  <2>5. d[i] = c[i] - n /\ d[i - 1] = c[i - 1] - n /\ c[i] \in Int /\ c[i - 1] \in Int
    BY <1>13, <2>1
  <2>6. d[i] = d[i - 1] + w BY <1>4, <2>3, <2>4, <2>5
  <2>7. d[k + 1] <= d[i - 1] /\ d[i] <= d[l] /\ d[i - 1] \in Int /\ d[i] \in Int
    BY <1>9, <1>13, <1>15, <2>1, RisingIs
  <2>8. ASSUME NEW j \in 1..w PROVE a[d[i - 1] + j] = Sent(t)[j]
    <3>1. d[i - 1] + j \in 1..m /\ (d[i - 1] + j) + n = c[i - 1] + j
      <4>1. PICK x, y \in Int : x = d[i - 1] /\ y = c[i - 1] BY <2>5, <2>7
      <4>2. 0 <= x /\ x + w <= m /\ x = y - n BY <1>14, <2>5, <2>6, <2>7, <4>1
      <4>3. x + j \in 1..m /\ (x + j) + n = y + j 
        <5>1. n \in Int BY <1>4
        <5>2. j \in Int /\ 1 <= j /\ j <= w BY <2>3
        <5>3. w \in Int BY <2>3
        <5> QED BY <4>2, <5>1, <5>2, <5>3
      <4> QED BY <4>1, <4>3
    <3>2. a[d[i - 1] + j] = b[c[i - 1] + j] BY <1>6, <1>7, <3>1
    <3> QED BY <2>4, <3>2
  <2> QED BY <2>2, <2>3, <2>6, <2>8 DEF Spells
<1>17. EscapeLast(ts, k + 1)
  <2>1. \A i \in ((k + 1) + 1)..(Len(ts) - 1) : i \in (k + 1)..(Len(ts) - 1) BY <1>2, <1>9
  <2> QED BY <1>8, <2>1 DEF EscapeLast
<1>18. Cut(e, a, ts, k + 1, d)
  <2>1. (k + 1) + 1 = k + 2 /\ k + 1 \in 0..l BY <1>9
  <2>2. \A i \in ((k + 1) + 1)..l : Spells(a, ts[i], d[i - 1], d[i]) BY <1>16, <2>1
  <2> QED BY <1>2, <1>7, <1>11, <1>13, <1>14, <1>15, <1>17, <2>1, <2>2 DEF Cut
<1>19. Len(rest) < Len(p) BY <1>1, <1>4, <1>6
<1> QED BY <1>5, <1>6, <1>10, <1>11, <1>18, <1>19 DEF Fits

-----------------------------------------------------------------------------
(* The loop of the parser.                                                 *)

\* What a turn of the loop leaves: strokes that fit, and bytes.
Parses(r, es, tail, ts) ==
    /\ r.events \in Seq(Strokes) /\ r.rest \in Seq(Bytes)
    /\ Fits(es \o r.events, r.rest \o tail, ts)
\* It waits for more.
Stuck(p) == p = <<>> \/ Understand(p, FALSE).taken = 0

LEMMA ParsedTakes ==
    ASSUME NEW r, NEW late, NEW s, NEW n, Understand(r.rest, late) = Event(s, n), r.rest # <<>>,
           n # 0
    PROVE  /\ Parsed(r, late).events = Append(r.events, s)
           /\ Parsed(r, late).rest = SubSeq(r.rest, n + 1, Len(r.rest))
<1>1. PICK u : u = Understand(r.rest, late) OBVIOUS
<1>2. u.event = s /\ u.taken = n BY <1>1 DEF Event
<1>3. Parsed(r, late) = [events |-> Append(r.events, u.event),
                         rest |-> SubSeq(r.rest, u.taken + 1, Len(r.rest))]
  BY <1>1, <1>2 DEF Parsed
<1>4. PICK es, rest : es = Append(r.events, u.event) /\ rest = SubSeq(r.rest, u.taken + 1, Len(r.rest))
  OBVIOUS
<1>5. Parsed(r, late) = [events |-> es, rest |-> rest] BY <1>3, <1>4
<1>6. Parsed(r, late).events = es /\ Parsed(r, late).rest = rest BY <1>5
<1> QED BY <1>2, <1>4, <1>6

LEMMA AppendAfter ==
    \A es, z \in Seq(Strokes), t \in Strokes : Append(es \o z, t) = es \o Append(z, t)
<1> TAKE es, z \in Seq(Strokes), t \in Strokes
<1>1. es \o z \in Seq(Strokes) BY ConcatProperties
<1>2. Append(es \o z, t) = (es \o z) \o <<t>> /\ Append(z, t) = z \o <<t>>
      /\ <<t>> \in Seq(Strokes)
  BY <1>1, AppendIsConcat
<1>3. (es \o z) \o <<t>> = es \o (z \o <<t>>) BY <1>2, ConcatAssociative
<1> QED BY <1>2, <1>3

LEMMA ParsedFits ==
    ASSUME NEW es \in Seq(Strokes), NEW ts \in Seq(Strokes), NEW tail \in Seq(Bytes),
           NEW r, NEW late \in BOOLEAN, Parses(r, es, tail, ts),
           late => tail = <<>> /\ Len(r.rest) = 1 /\ r.rest[1] = "e"
    PROVE  /\ Parses(Parsed(r, late), es, tail, ts)
           /\ Stuck(Parsed(r, late).rest) \/ Len(Parsed(r, late).rest) < Len(r.rest)
           /\ Stuck(r.rest) /\ ~ late => Parsed(r, late) = r
<1>1. PICK p, z : p = r.rest /\ z = r.events OBVIOUS
<1>2. p \in Seq(Bytes) /\ z \in Seq(Strokes) /\ Fits(es \o z, p \o tail, ts) BY <1>1 DEF Parses
<1>3. CASE p = <<>>
  <2>1. Parsed(r, late) = r BY <1>1, <1>3 DEF Parsed
  <2> QED BY <2>1, <1>1, <1>3 DEF Stuck
<1>4. CASE p # <<>>
  <2>1. PICK all \in Seq(Strokes) : all = es \o z BY <1>2, ConcatProperties
  <2>2. PICK k, c : Cut(all, p \o tail, ts, k, c) BY <1>2, <2>1 DEF Fits
  <2>3. PICK s : s = ts[k + 1] OBVIOUS
  <2>4. PICK n : n = Len(Sent(s)) OBVIOUS
  <2>5. /\ s \in Strokes /\ Begins(p, s) /\ (s.key = "escape" => Len(p) = 1)
        /\ n <= Len(p) + Len(tail) /\ n \in 1..5
    <3>1. /\ s \in Strokes /\ Begins(p, s) /\ (s.key = "escape" => Len(p) = 1)
          /\ n <= Len(p) + Len(tail)
      BY <1>2, <1>4, <2>2, <2>3, <2>4, HeadOfCut
    <3> QED BY <3>1, <2>4, SentBytes
  <2>6. late => Len(p) = 1 /\ s.key = "escape"
    <3>1. SUFFICES ASSUME late PROVE Len(p) = 1 /\ s.key = "escape" OBVIOUS
    <3>2. Len(p) = 1 /\ p[1] = "e" /\ Len(tail) = 0 BY <1>1, <3>1, EmptySeq
    <3>3. n = 1 BY <2>5, <3>2
    <3>4. Sent(s)[1] = "e" BY <2>4, <2>5, <3>2, <3>3 DEF Begins
    <3> QED BY <2>4, <2>5, <3>2, <3>3, <3>4, SentBytes
  <2>7. PICK u : u = Understand(p, late) OBVIOUS
  <2>8. (u = Event(s, n) /\ n <= Len(p)) \/ u = Wait
    BY <1>2, <1>4, <2>4, <2>5, <2>6, <2>7, HeadUnderstood
  <2>9. CASE u = Event(s, n) /\ n <= Len(p)
    <3>1. PICK q, rest : q = Parsed(r, late) /\ rest = SubSeq(p, n + 1, Len(p)) OBVIOUS
    <3>0. First1(ts, k, p, s, n, rest) BY <2>3, <2>4, <2>9, <3>1 DEF First1
    <3>2. n # 0 BY <2>5
    <3>3. q.events = Append(z, s) /\ q.rest = rest
      <4>1. Understand(r.rest, late) = Event(s, n) /\ r.rest # <<>>
        BY <1>1, <1>4, <2>7, <2>9
      <4>2. /\ Parsed(r, late).events = Append(r.events, s)
            /\ Parsed(r, late).rest = SubSeq(r.rest, n + 1, Len(r.rest))
        BY <3>2, <4>1, ParsedTakes
      <4> QED BY <4>2, <1>1, <3>1
    <3>4. /\ rest \in Seq(Bytes) /\ Len(rest) < Len(p)
          /\ Fits(Append(all, s), rest \o tail, ts)
      BY <1>2, <1>4, <2>1, <2>2, <3>0, TakenFits
    <3>5. Append(z, s) \in Seq(Strokes) /\ Append(all, s) = es \o Append(z, s)
      <4>1. Append(es \o z, s) = es \o Append(z, s) BY <1>2, <2>5, AppendAfter, Zenon
      <4>2. Append(z, s) \in Seq(Strokes) BY <1>2, <2>5
      <4>3. Append(all, s) = Append(es \o z, s) BY <2>1, Zenon
      <4> QED BY <4>1, <4>2, <4>3
    <3>6. Parses(q, es, tail, ts) BY <3>3, <3>4, <3>5 DEF Parses
    <3>7. ~ (Stuck(p) /\ ~ late)
      <4>1. u.taken = n BY <2>9 DEF Event
      <4> QED BY <1>4, <2>7, <3>2, <4>1 DEF Stuck
    <3> QED BY <1>1, <3>1, <3>3, <3>4, <3>6, <3>7
  <2>10. CASE u = Wait
    <3>1. u.taken = 0 BY <2>10 DEF Wait
    <3>2. Parsed(r, late) = r BY <1>1, <2>7, <3>1 DEF Parsed
    <3>3. Understand(p, FALSE).taken = 0
      <4>1. CASE ~ late BY <2>7, <3>1, <4>1
      <4>2. CASE late
        <5>1. Len(p) = 1 /\ p[1] = "e" BY <1>1, <4>2
        <5> QED BY <5>1 DEF Understand, Wait
      <4> QED BY <4>1, <4>2
    <3> QED BY <1>1, <3>2, <3>3 DEF Stuck
  <2> QED BY <2>8, <2>9, <2>10
<1> QED BY <1>3, <1>4

LoopRun(n, p, late, f) ==
    f = [i \in 0..n |-> IF i = 0 THEN [events |-> <<>>, rest |-> p] ELSE Parsed(f[i - 1], late /\ i = 1)]

LEMMA LoopExists == \A p, late : \A n \in Nat : \E f : LoopRun(n, p, late, f)
<1> TAKE p, late
<1> DEFINE T == {n \in Nat : \E f : LoopRun(n, p, late, f)}
<1>1. 0 \in T
  <2>1. LoopRun(0, p, late, [i \in 0..0 |-> [events |-> <<>>, rest |-> p]]) BY DEF LoopRun
  <2> QED BY <2>1
<1>2. ASSUME NEW n \in Nat, n \in T PROVE n + 1 \in T
  <2>1. PICK f : LoopRun(n, p, late, f) BY <1>2
  <2>2. PICK last : last = Parsed(f[n], late /\ (n + 1) = 1) OBVIOUS
  <2>3. PICK g : Longer(g, n, f, last) BY Extended
  <2>4. /\ g = [i \in 0..(n + 1) |-> g[i]] /\ g[n + 1] = last
        /\ \A i \in 0..n : g[i] = f[i]
    BY <2>3 DEF Longer
  <2>5. ASSUME NEW i \in 0..(n + 1)
        PROVE  g[i] = IF i = 0 THEN [events |-> <<>>, rest |-> p] ELSE Parsed(g[i - 1], late /\ i = 1)
    <3>1. CASE i = n + 1
      <4>1. n \in 0..n /\ i # 0 /\ i - 1 = n BY <3>1
      <4>2. g[n] = f[n] BY <2>4, <4>1
      <4> QED BY <2>2, <2>4, <3>1, <4>1, <4>2
    <3>2. CASE i # n + 1
      <4>1. i \in 0..n /\ (i # 0 => i - 1 \in 0..n) BY <3>2
      <4>2. f[i] = IF i = 0 THEN [events |-> <<>>, rest |-> p] ELSE Parsed(f[i - 1], late /\ i = 1)
        BY <2>1, <4>1 DEF LoopRun
      <4> QED BY <2>4, <4>1, <4>2
    <3> QED BY <3>1, <3>2
  <2>6. LoopRun(n + 1, p, late, g) BY <2>4, <2>5 DEF LoopRun
  <2> QED BY <2>6
<1>3. Nat \subseteq T
  <2> HIDE DEF T
  <2> QED BY <1>1, <1>2, Induction
<1> QED BY <1>3

\* What it makes of the bytes of the line, and it does not end before it waits for more.
LEMMA ParseFits ==
    ASSUME NEW es \in Seq(Strokes), NEW ts \in Seq(Strokes), NEW tail \in Seq(Bytes),
           NEW p \in Seq(Bytes), NEW late \in BOOLEAN, Fits(es, p \o tail, ts),
           late => tail = <<>> /\ Len(p) = 1 /\ p[1] = "e"
    PROVE  Parses(Parse(p, late), es, tail, ts) /\ Stuck(Parse(p, late).rest)
<1>1. PICK n \in Nat : n = Len(p) BY LenProperties
<1>2. PICK loop : loop = CHOOSE f : LoopRun(n, p, late, f) OBVIOUS
<1>3. Parse(p, late) = loop[n] BY <1>1, <1>2 DEF Parse, LoopRun
<1>4. LoopRun(n, p, late, loop) BY <1>2, LoopExists
<1>5. /\ loop[0] = [events |-> <<>>, rest |-> p]
      /\ \A i \in 1..n : loop[i] = Parsed(loop[i - 1], late /\ i = 1)
  BY <1>4 DEF LoopRun
<1> DEFINE Looped(i) == /\ Parses(loop[i], es, tail, ts)
                        /\ Stuck(loop[i].rest) \/ Len(loop[i].rest) <= n - i
           T == {i \in Nat : i <= n => Looped(i)}
<1>6. 0 \in T
  <2>1. loop[0].events = <<>> /\ loop[0].rest = p BY <1>5
  <2>2. es \o <<>> = es BY ConcatEmptySeq
  <2>3. <<>> \in Seq(Strokes) OBVIOUS
  <2>4. Parses(loop[0], es, tail, ts) BY <2>1, <2>2, <2>3 DEF Parses
  <2> QED BY <1>1, <2>1, <2>4
<1>7. ASSUME NEW i \in Nat, i \in T PROVE i + 1 \in T
  <2>1. SUFFICES ASSUME i + 1 <= n PROVE Looped(i + 1) OBVIOUS
  <2>2. PICK r, q : r = loop[i] /\ q = loop[i + 1] OBVIOUS
  <2>3. Parses(r, es, tail, ts) /\ (Stuck(r.rest) \/ Len(r.rest) <= n - i) BY <1>7, <2>1, <2>2
  <2>4. PICK l \in BOOLEAN : l <=> late /\ i = 0 OBVIOUS
  <2>5. q = Parsed(r, l)
    <3>1. i + 1 \in 1..n /\ (i + 1) - 1 = i /\ (i + 1 = 1 <=> i = 0) BY <2>1
    <3>2. loop[i + 1] = Parsed(loop[(i + 1) - 1], late /\ i + 1 = 1) BY <3>1, <1>5
    <3>3. (late /\ i + 1 = 1) = l BY <3>1, <2>4
    <3> QED BY <3>1, <3>2, <3>3, <2>2
  <2>6. l => tail = <<>> /\ Len(r.rest) = 1 /\ r.rest[1] = "e"
    <3>1. SUFFICES ASSUME l PROVE tail = <<>> /\ Len(r.rest) = 1 /\ r.rest[1] = "e" OBVIOUS
    <3>2. r.rest = p BY <1>5, <2>2, <2>4, <3>1
    <3> QED BY <2>4, <3>1, <3>2
  <2>7. /\ Parses(q, es, tail, ts) /\ (Stuck(q.rest) \/ Len(q.rest) < Len(r.rest))
        /\ (Stuck(r.rest) /\ ~ l => q = r)
    BY <2>3, <2>5, <2>6, ParsedFits
  <2>8. Stuck(q.rest) \/ Len(q.rest) <= n - (i + 1)
    <3>1. Len(q.rest) \in Nat /\ Len(r.rest) \in Nat
      BY <2>3, <2>7, LenProperties DEF Parses
    <3>2. CASE Stuck(r.rest) /\ ~ l BY <3>2, <2>7
    <3>3. CASE Stuck(r.rest) /\ l
      <4>1. Len(r.rest) = 1 BY <2>6, <3>3
      <4>2. q.rest \in Seq(Bytes) BY <2>7 DEF Parses
      <4>3. Len(q.rest) = 0 => Stuck(q.rest) BY <4>2, NoneIfZero DEF Stuck
      <4> QED BY <2>7, <3>1, <4>1, <4>3
    <3>4. CASE ~ Stuck(r.rest)
      <4>1. Len(r.rest) <= n - i BY <2>3, <3>4
      <4> QED BY <4>1, <2>7, <3>1
    <3> QED BY <3>2, <3>3, <3>4
  <2> QED BY <2>2, <2>7, <2>8
<1>8. Nat \subseteq T
  <2> HIDE DEF T
  <2> QED BY <1>6, <1>7, Induction
<1>9. Looped(n) BY <1>8
<1>10. PICK r : r = loop[n] OBVIOUS
<1>11. Parses(r, es, tail, ts) /\ (Stuck(r.rest) \/ Len(r.rest) <= n - n) BY <1>9, <1>10
<1>12. Stuck(r.rest)
  <2>1. r.rest \in Seq(Bytes) /\ Len(r.rest) \in Nat BY <1>11, LenProperties DEF Parses
  <2>2. Len(r.rest) = 0 => Stuck(r.rest) BY <2>1, NoneIfZero DEF Stuck
  <2> QED BY <1>11, <2>1, <2>2
<1> QED BY <1>3, <1>10, <1>11, <1>12

-----------------------------------------------------------------------------
(* The input, step by step.                                                *)

InputInv ==
    /\ typed \in Seq(Strokes) /\ events \in Seq(Strokes)
    /\ line \in Seq(Bytes) /\ pending \in Seq(Bytes)
    /\ waiting \in BOOLEAN /\ expired \in BOOLEAN
    /\ waiting <=> pending # <<>>
    /\ expired => pending # <<>> /\ line = <<>>
    /\ Stuck(pending) /\ Fits(events, pending \o line, typed)

LEMMA InputWholeThen == InputInv => InputWhole
<1> SUFFICES ASSUME InputInv PROVE InputWhole OBVIOUS
<1>1. PICK k, c : Cut(events, pending \o line, typed, k, c) BY DEF InputInv, Fits
<1>2. PICK l \in Nat : l = Len(typed) BY LenProperties DEF InputInv
<1>3. k \in 0..l /\ c \in [0..l -> Int] /\ Starts(events, typed, k) /\ Rising(c, k, l)
      /\ c[k] = 0 /\ c[l] = Len(pending \o line)
  BY <1>1, <1>2 DEF Cut
<1>4. IsPrefix(events, typed)
  <2>1. Len(events) = k /\ k \in Nat /\ \A i \in 1..k : events[i] = typed[i] BY <1>3 DEF Starts
  <2>2. PICK a, b : a = SubSeq(events, 1, k) /\ b = SubSeq(typed, 1, k) OBVIOUS
  <2>3. \A i \in 1..k : events[i] \in Strokes /\ typed[i] \in Strokes
    BY <1>2, <1>3, <2>1, ElementOfSeq DEF InputInv
  <2>4. a \in Seq(Strokes) /\ Len(a) = k /\ \A i \in 1..k : a[i] = events[i]
    <3>1. 1 \in Int /\ k \in Int BY <2>1
    <3>2. /\ a \in Seq(Strokes) /\ Len(a) = IF 1 <= k THEN k - 1 + 1 ELSE 0
          /\ \A i \in 1..(k - 1 + 1) : a[i] = events[1 + i - 1]
      BY <2>2, <2>3, <3>1, SubSeqProperties
    <3> QED BY <2>1, <3>2
  <2>5. b \in Seq(Strokes) /\ Len(b) = k /\ \A i \in 1..k : b[i] = typed[i]
    <3>1. 1 \in Int /\ k \in Int BY <2>1
    <3>2. /\ b \in Seq(Strokes) /\ Len(b) = IF 1 <= k THEN k - 1 + 1 ELSE 0
          /\ \A i \in 1..(k - 1 + 1) : b[i] = typed[1 + i - 1]
      BY <2>2, <2>3, <3>1, SubSeqProperties
    <3> QED BY <2>1, <3>2
  <2>6. a = b BY <2>1, <2>4, <2>5, SeqEqual
  <2> QED BY <1>2, <1>3, <2>1, <2>2, <2>6 DEF IsPrefix
<1>5. line = <<>> /\ pending = <<>> => events = typed
  <2>1. SUFFICES ASSUME line = <<>>, pending = <<>> PROVE events = typed OBVIOUS
  <2>2. Len(pending \o line) = 0 BY <2>1
  <2>3. k = l
    <3>1. SUFFICES ASSUME k < l PROVE FALSE BY <1>3
    <3>2. k \in k..l /\ l \in k..l BY <1>3
    <3>3. c[k] < c[l] BY <1>3, <3>1, <3>2 DEF Rising
    <3> QED BY <1>3, <2>2, <3>3
  <2>4. Len(events) = Len(typed) /\ \A i \in 1..Len(events) : events[i] = typed[i]
    BY <1>2, <1>3, <2>3 DEF Starts
  <2> QED BY <2>4, SeqEqual DEF InputInv
<1> QED BY <1>4, <1>5 DEF InputWhole

\* The parser waits, with nothing on its way, for an escape only.
LEMMA EscapeWaits ==
    ASSUME NEW es, NEW ts \in Seq(Strokes), NEW p \in Seq(Bytes), NEW k, NEW c,
           Cut(es, p \o <<>>, ts, k, c), p # <<>>, Stuck(p)
    PROVE  Len(p) = 1 /\ p[1] = "e" /\ ts # <<>> /\ Last(ts).key = "escape"
<1>1. <<>> \in Seq(Bytes) /\ Len(<<>>) = 0 /\ Len(p) \in Nat \ {0} BY EmptySeq
<1>2. PICK s : s = ts[k + 1] OBVIOUS
<1>3. PICK n : n = Len(Sent(s)) OBVIOUS
<1>4. PICK tail : tail = <<>> OBVIOUS
<1>5. /\ k + 1 \in 1..Len(ts) /\ s \in Strokes /\ Begins(p, s)
      /\ (s.key = "escape" => Len(p) = 1) /\ n <= Len(p)
  <2>1. tail \in Seq(Bytes) /\ Len(tail) = 0 /\ Cut(es, p \o tail, ts, k, c) BY <1>1, <1>4
  <2>2. /\ k + 1 \in 1..Len(ts) /\ s \in Strokes /\ Begins(p, s)
        /\ (s.key = "escape" => Len(p) = 1) /\ n <= Len(p) + Len(tail)
    <3> HIDE <1>1
    <3>1. tail \in Seq(Bytes) /\ Cut(es, p \o tail, ts, k, c) BY <2>1
    <3> QED BY <1>2, <1>3, <3>1, HeadOfCut
  <2> QED BY <1>1, <2>1, <2>2
<1>6. n \in 1..5 BY <1>3, <1>5, SentBytes
<1>7. s.key = "escape"
  <2>1. PICK u : u = Understand(p, FALSE) OBVIOUS
  <2>2. \/ u = Event(s, n) /\ n <= Len(p)
        \/ u = Wait /\ (Len(p) < n \/ s.key = "escape")
        \/ s.key = "escape"
    BY <1>3, <1>5, <2>1, HeadUnderstood
  <2>3. u.taken = 0 BY <2>1 DEF Stuck
  <2>4. u # Event(s, n) BY <1>6, <2>3 DEF Event
  <2>5. ~ Len(p) < n BY <1>1, <1>5, <1>6
  <2> QED BY <2>2, <2>4, <2>5
<1>8. Len(p) = 1 BY <1>5, <1>7
<1>9. p[1] = "e"
  <2>1. Sent(s) = <<"e">> BY <1>7 DEF Sent
  <2> QED BY <1>5, <1>8, <2>1 DEF Begins
<1>10. Last(ts) = s
  <2>1. Len(ts) \in Nat /\ k \in 0..Len(ts) /\ EscapeLast(ts, k) BY LenProperties DEF Cut
  <2>2. ~ k + 1 \in (k + 1)..(Len(ts) - 1) BY <1>2, <1>7, <2>1 DEF EscapeLast
  <2>3. k + 1 = Len(ts) BY <1>5, <2>1, <2>2
  <2> QED BY <1>2, <2>3 DEF Last
<1>11. ts # <<>>
  <2>1. CASE ts = <<>>
    <3>1. Len(ts) = 0 BY <2>1
    <3> QED BY <1>5, <3>1
  <2> QED BY <2>1
<1> QED BY <1>7, <1>8, <1>9, <1>10, <1>11

\* One more stroke, and its bytes.
LEMMA Sooner == \A m \in Nat : \A n \in 1..5 : \A x \in Int : x <= m => x < m + n
OBVIOUS

LEMMA MoreFits ==
    ASSUME NEW es, NEW ts \in Seq(Strokes), NEW b \in Seq(Bytes), Fits(es, b, ts), NEW s \in Strokes,
           ts # <<>> /\ Last(ts).key = "escape" => b = <<>>
    PROVE  Fits(es, b \o Sent(s), Append(ts, s))
<1>1. PICK k, c : Cut(es, b, ts, k, c) BY DEF Fits
<1>2. PICK l \in Nat : l = Len(ts) BY LenProperties
<1>3. PICK m \in Nat : m = Len(b) BY LenProperties
<1>4. PICK n \in 1..5 : n = Len(Sent(s)) BY SentBytes
<1>5. PICK a, us : a = b \o Sent(s) /\ us = Append(ts, s) OBVIOUS
<1>6. /\ k \in 0..l /\ c \in [0..l -> Int] /\ c[k] = 0 /\ c[l] = m /\ Rising(c, k, l)
      /\ EscapeLast(ts, k) /\ Starts(es, ts, k)
      /\ \A i \in (k + 1)..l : Spells(b, ts[i], c[i - 1], c[i])
  BY <1>1, <1>2, <1>3 DEF Cut
<1>7. Len(us) = l + 1 /\ us[l + 1] = s /\ \A i \in 1..l : us[i] = ts[i] BY <1>2, <1>5
<1>8. Len(a) = m + n /\ \A i \in 1..(m + n) : a[i] = IF i <= m THEN b[i] ELSE Sent(s)[i - m]
  <2>1. Sent(s) \in Seq(Bytes) BY SentBytes
  <2> QED BY <1>3, <1>4, <1>5, <2>1, ConcatProperties
<1>9. PICK d : d = [i \in 0..(l + 1) |-> IF i <= l THEN c[i] ELSE m + n] OBVIOUS
<1>10. d \in [0..(l + 1) -> Int] /\ d[l + 1] = m + n /\ \A i \in 0..l : d[i] = c[i] /\ c[i] \in Int
  BY <1>4, <1>6, <1>9
<1>11. Rising(d, k, l + 1)
  <2>1. SUFFICES ASSUME NEW i \in k..(l + 1), NEW j \in k..(l + 1), i < j PROVE d[i] < d[j]
    BY DEF Rising
  <2>2. k \in Nat /\ i \in 0..l /\ i \in k..l BY <1>6, <2>1
  <2>3. CASE j = l + 1
    <3>1. l \in k..l /\ i <= l BY <1>6, <2>2
    <3>2. c[i] <= c[l] BY <1>6, <2>2, <3>1, RisingIs
    <3>3. d[j] = m + n /\ d[i] = c[i] /\ c[i] \in Int BY <1>10, <2>2, <2>3
    <3>4. c[l] = m BY <1>6
    <3>5. c[i] <= m BY <3>2, <3>4
    <3>6. c[i] < m + n BY <3>3, <3>5, Sooner
    <3> QED BY <3>3, <3>6
  <2>4. CASE j # l + 1
    <3>1. j \in k..l /\ j \in 0..l BY <2>2, <2>4
    <3>2. c[i] < c[j] BY <1>6, <2>1, <2>2, <3>1 DEF Rising
    <3> QED BY <1>10, <2>2, <3>1, <3>2
  <2> QED BY <2>3, <2>4
<1>12. ASSUME NEW i \in (k + 1)..(l + 1) PROVE Spells(a, us[i], d[i - 1], d[i])
  <2>1. k \in Nat BY <1>6
  <2>2. CASE i = l + 1
    <3>1. i - 1 = l /\ l \in 0..l BY <2>2
    <3>2. d[i] = m + n /\ d[i - 1] = m /\ us[i] = s BY <1>6, <1>7, <1>10, <2>2, <3>1
    <3>3. \A j \in 1..n : a[m + j] = Sent(s)[j]
      <4>1. \A j \in 1..n : m + j \in 1..(m + n) /\ ~ m + j <= m /\ (m + j) - m = j BY <1>4
      <4> QED BY <1>8, <4>1
    <3> QED BY <1>4, <3>2, <3>3 DEF Spells
  <2>3. CASE i # l + 1
    <3>1. /\ i \in (k + 1)..l /\ i \in 0..l /\ i - 1 \in 0..l /\ i \in 1..l /\ i \in k..l
          /\ i - 1 \in k..l /\ k \in k..l /\ l \in k..l /\ i <= l /\ k <= i - 1
      BY <2>1, <2>3
    <3>2. PICK t : t = ts[i] OBVIOUS
    <3>3. PICK w \in 1..5 : w = Len(Sent(t)) BY <1>2, <3>1, <3>2, ElementOfSeq, SentBytes
    <3>4. c[i] = c[i - 1] + w /\ \A j \in 1..w : b[c[i - 1] + j] = Sent(t)[j]
      <4>1. Spells(b, t, c[i - 1], c[i]) BY <1>6, <3>1, <3>2
      <4> QED BY <3>3, <4>1 DEF Spells
    <3>5. c[k] <= c[i - 1] /\ c[i] <= c[l] /\ c[i - 1] \in Int /\ c[i] \in Int
      BY <1>6, <2>1, <3>1, RisingIs
    <3>6. ASSUME NEW j \in 1..w PROVE a[c[i - 1] + j] = Sent(t)[j]
      <4>1. PICK x \in Int : x = c[i - 1] BY <3>5
      <4>2. 0 <= x /\ x + w <= m BY <1>6, <3>4, <3>5, <4>1
      <4>3. w \in Int /\ j \in Int /\ 1 <= j /\ j <= w /\ n \in Int /\ n >= 1 BY <1>4, <3>3
      <4>4. x + j \in 1..(m + n) /\ x + j <= m BY <4>2, <4>3
      <4>5. a[x + j] = b[x + j] BY <1>8, <4>4
      <4> QED BY <3>4, <4>1, <4>5
    <3>7. us[i] = t /\ d[i] = c[i] /\ d[i - 1] = c[i - 1] BY <1>7, <1>10, <3>1, <3>2
    <3> QED BY <3>3, <3>4, <3>6, <3>7 DEF Spells
  <2> QED BY <2>2, <2>3
<1>13. EscapeLast(us, k)
  <2>1. SUFFICES ASSUME NEW i \in (k + 1)..l PROVE us[i].key # "escape" BY <1>7 DEF EscapeLast
  <2>2. k \in Nat /\ i \in 1..l BY <1>6
  <2>3. CASE i # l
    <3>1. i \in (k + 1)..(Len(ts) - 1) BY <1>2, <2>2, <2>3
    <3> QED BY <1>6, <1>7, <2>2, <3>1 DEF EscapeLast
  <2>4. CASE i = l
    <3>1. k \in k..l /\ l \in k..l /\ k < l BY <2>2, <2>4
    <3>2. c[k] < c[l] BY <1>6, <3>1 DEF Rising
    <3>3. m # 0 BY <1>6, <3>2
    <3>4. b # <<>> /\ ts # <<>>
      <4>1. Len(<<>>) = 0 BY EmptySeq
      <4>2. l # 0 BY <2>2
      <4> QED BY <1>2, <1>3, <3>3, <4>1, <4>2
    <3>5. Last(ts).key # "escape" BY <3>4
    <3> QED BY <1>2, <1>7, <2>2, <2>4, <3>5 DEF Last
  <2> QED BY <2>3, <2>4
<1>14. Starts(es, us, k)
  <2>1. \A i \in 1..k : i \in 1..l BY <1>6
  <2> QED BY <1>6, <1>7, <2>1 DEF Starts
<1>15. Cut(es, a, us, k, d)
  <2>1. k \in 0..(l + 1) /\ k \in 0..l /\ d[k] = 0 BY <1>6, <1>10
  <2> QED BY <1>7, <1>8, <1>10, <1>11, <1>12, <1>13, <1>14, <2>1 DEF Cut
<1> QED BY <1>5, <1>15 DEF Fits

LEMMA TypeKeeps == ASSUME InputInv, NEW s \in Strokes, Type(s) PROVE InputInv'
<1>1. PICK k, c : Cut(events, pending \o line, typed, k, c) BY DEF InputInv, Fits
<1>2. ~ expired
  <2>1. SUFFICES ASSUME expired PROVE FALSE OBVIOUS
  <2>2. pending # <<>> /\ line = <<>> /\ pending \in Seq(Bytes) /\ Stuck(pending)
        /\ typed \in Seq(Strokes)
    BY <2>1 DEF InputInv
  <2>3. Cut(events, pending \o <<>>, typed, k, c) BY <1>1, <2>2
  <2>4. typed # <<>> /\ Last(typed).key = "escape" BY <2>2, <2>3, EscapeWaits
  <2> QED BY <2>2, <2>4 DEF Type
<1>3. PICK b : b = pending \o line OBVIOUS
<1>4. b \in Seq(Bytes) /\ Fits(events, b, typed) BY <1>3, ConcatProperties DEF InputInv
<1>5. typed # <<>> /\ Last(typed).key = "escape" => b = <<>>
  <2>1. SUFFICES ASSUME line = <<>>, pending = <<>> PROVE b = <<>> BY DEF Type
  <2> QED BY <1>3, <2>1
<1>6. Fits(events, b \o Sent(s), Append(typed, s)) BY <1>4, <1>5, MoreFits DEF InputInv
<1>7. Sent(s) \in Seq(Bytes) BY SentBytes
<1>8. b \o Sent(s) = pending \o (line \o Sent(s)) BY <1>3, <1>7, Associative DEF InputInv
<1>9. Fits(events', pending' \o line', typed') BY <1>6, <1>8 DEF Type
<1>10. typed' \in Seq(Strokes) /\ line' \in Seq(Bytes)
  BY <1>7, ConcatProperties DEF InputInv, Type
<1>11. Stuck(pending)'
  BY DEF InputInv, Type, Stuck, Understand, Sequence, Ends, Named, Csi, Ss3, Plain, Stroke, Event, Wait
<1> QED BY <1>2, <1>9, <1>10, <1>11 DEF InputInv, Type

LEMMA PassKeeps == ASSUME InputInv, Pass PROVE InputInv'
BY DEF InputInv, Pass, Stuck, Understand, Sequence, Ends, Named, Csi, Ss3, Plain, Stroke, Event, Wait

LEMMA CycleKeeps ==
    ASSUME InputInv, NEW n \in 0..Len(line), NEW r, r = Read(n), NEW f, Cycle(n, r, f)
    PROVE  InputInv' /\ r.events \in Seq(Strokes)
<1>1. PICK l \in Nat : l = Len(line) BY LenProperties DEF InputInv
<1>2. PICK front, tail : front = SubSeq(line, 1, n) /\ tail = SubSeq(line, n + 1, l) OBVIOUS
<1>3. n \in Nat /\ n <= l BY <1>1
<1>4. front \in Seq(Bytes) /\ tail \in Seq(Bytes)
  <2>1. \A i \in 1..l : line[i] \in Bytes BY <1>1, ElementOfSeq DEF InputInv
  <2>2. (\A i \in 1..n : line[i] \in Bytes) /\ \A i \in (n + 1)..l : line[i] \in Bytes
    BY <1>3, <2>1
  <2>3. 1 \in Int /\ n \in Int /\ n + 1 \in Int /\ l \in Int BY <1>3
  <2> QED BY <1>2, <2>2, <2>3, SubSeqProperties
<1>5. front \o tail = line
  <2>1. 1 \in 1..(Len(line) + 1) /\ n \in (1 - 1)..Len(line) /\ Len(line) \in n..Len(line)
    BY <1>1, <1>3
  <2>2. SubSeq(line, 1, n) \o SubSeq(line, n + 1, Len(line)) = SubSeq(line, 1, Len(line))
    BY <2>1, ConcatAdjacentSubSeq DEF InputInv
  <2>3. SubSeq(line, 1, Len(line)) = line BY SubSeqFull DEF InputInv
  <2> QED BY <1>1, <1>2, <2>2, <2>3
<1>6. PICK p : p = pending \o front OBVIOUS
<1>7. PICK late \in BOOLEAN : late <=> waiting /\ expired OBVIOUS
<1>8. p \in Seq(Bytes) BY <1>4, <1>6, ConcatProperties DEF InputInv
<1>9. Fits(events, p \o tail, typed)
  <2>1. (pending \o front) \o tail = pending \o (front \o tail) BY <1>4, Associative DEF InputInv
  <2> QED BY <1>5, <1>6, <2>1 DEF InputInv
<1>10. late => tail = <<>> /\ Len(p) = 1 /\ p[1] = "e"
  <2>1. SUFFICES ASSUME late PROVE tail = <<>> /\ Len(p) = 1 /\ p[1] = "e" OBVIOUS
  <2>2. pending # <<>> /\ line = <<>> BY <1>7, <2>1 DEF InputInv
  <2>3. l = 0 /\ n = 0 BY <1>1, <1>3, <2>2
  <2>4. front = <<>> /\ tail = <<>> BY <1>2, <2>3, SubSeqEmpty
  <2>5. p = pending BY <1>6, <2>4, ConcatEmptySeq DEF InputInv
  <2>6. PICK k, c : Cut(events, pending \o <<>>, typed, k, c) BY <2>2 DEF InputInv, Fits
  <2>7. Len(pending) = 1 /\ pending[1] = "e" BY <2>2, <2>6, EscapeWaits DEF InputInv
  <2> QED BY <2>4, <2>5, <2>7
<1>11. r = Parse(p, late) BY <1>2, <1>6, <1>7 DEF Read
<1>12. Parses(r, events, tail, typed) /\ Stuck(r.rest)
  BY <1>4, <1>8, <1>9, <1>10, <1>11, ParseFits DEF InputInv
<1>13. /\ line' = tail /\ pending' = r.rest /\ events' = events \o r.events /\ typed' = typed
       /\ waiting' = (r.rest # <<>>) /\ expired' = FALSE
  BY <1>1, <1>2 DEF Cycle
<1>14. /\ r.events \in Seq(Strokes) /\ r.rest \in Seq(Bytes) /\ events \o r.events \in Seq(Strokes)
       /\ Fits(events \o r.events, r.rest \o tail, typed)
  BY <1>12, ConcatProperties DEF Parses, InputInv
<1>15. Fits(events', pending' \o line', typed') BY <1>13, <1>14
<1>16. Stuck(pending') BY <1>12, <1>13
<1> QED BY <1>4, <1>13, <1>14, <1>15, <1>16 DEF InputInv

-----------------------------------------------------------------------------
(* The letters of what is understood.                                      *)

LEMMA LettersType == ASSUME NEW a \in Seq(Strokes) PROVE Letters(a) \in Nat
<1>1. PICK m \in Nat : m = Len(a) BY LenProperties
<1> DEFINE A == {i \in 1..m : a[i].key = "letter"}
<1>2. DOMAIN a = 1..m BY <1>1, LenProperties
<1>3. IsFiniteSet(A)
  <2>1. IsFiniteSet(1..m) BY FS_Interval
  <2> QED BY <2>1, FS_Subset
<1>4. Cardinality(A) \in Nat BY <1>3, FS_CardinalityType
<1> QED BY <1>2, <1>4 DEF Letters

-----------------------------------------------------------------------------
(* The binds, while elements come to be gone.                              *)

LEMMA GoodThen ==
    ASSUME UNCHANGED gone, GoodBinder(binder', ui'.states)
    PROVE  GoodBinder(binder, ui.states)'
BY DEF GoodBinder, HeardIfAny, Good, GoodBind, SoundBind, Tracks, Listens, Wanted, Met, Expired

LEMMA GoodLater ==
    ASSUME GoodBinder(binder, ui.states), UNCHANGED binder, gone \subseteq gone',
           \A e \in Elements \ gone' : ui'.states[e] = ui.states[e]
    PROVE  GoodBinder(binder, ui.states)'
<1>1. ASSUME NEW n \in Names PROVE Good(binder, n, ui.states)'
  <2>1. Good(binder, n, ui.states) BY DEF GoodBinder
  <2> DEFINE r == binder.binds[n]
  <2>2. r.bound => r.value.dep \in Elements \cup {None}
    BY <2>1, BinderAssumption DEF Good, GoodBind, SoundBind
  <2>3. SoundBind(r, n \in binder.set)' BY <2>1 DEF Good, GoodBind, SoundBind
  <2>4. ASSUME Tracks(r, ui.states) PROVE Tracks(r, ui.states)'
    <3>1. SUFFICES ASSUME r.bound, ~ Expired(r.value)'
                   PROVE  r.active <=> r.enabled /\ Met(r.value, ui.states)'
      BY DEF Tracks, Wanted
    <3>2. r.value.dep = None \/ r.value.dep \in Elements \ gone' BY <2>2, <3>1 DEF Expired
    <3>3. Met(r.value, ui.states)' <=> Met(r.value, ui.states) 
      <4>1. r' = r OBVIOUS
      <4>2. CASE r.value.dep = None
        <5>1. r'.value.dep = None BY <4>1, <4>2
        <5>2. Met(r.value, ui.states) BY <4>2 DEF Met, Expired
        <5>3. Met(r.value, ui.states)' BY <5>1 DEF Met, Expired
        <5> QED BY <5>2, <5>3
      <4>3. CASE r.value.dep # None
        <5>1. /\ r.value.dep \notin gone /\ r.value.dep \notin gone'
              /\ ui'.states[r.value.dep] = ui.states[r.value.dep]
          BY <3>2, <4>3
        <5>2. Met(r.value, ui.states) <=> r.value.cond \in ui.states[r.value.dep]
          BY <4>3, <5>1 DEF Met, Expired
        <5>3. Met(r.value, ui.states)' <=> r.value.cond \in ui'.states[r.value.dep]
          BY <4>1, <4>3, <5>1 DEF Met, Expired
        <5> QED BY <5>1, <5>2, <5>3
      <4> QED BY <4>2, <4>3
    <3>4. ~ Expired(r.value) BY <3>2 DEF Expired
    <3> QED BY <2>4, <3>1, <3>3, <3>4 DEF Tracks, Wanted
  <2>5. ASSUME Listens(r) PROVE Listens(r)' BY <2>5 DEF Listens
  <2> QED BY <2>1, <2>3, <2>4, <2>5 DEF Good, GoodBind
<1> QED BY <1>1 DEF GoodBinder, HeardIfAny

-----------------------------------------------------------------------------
(* The program begins.                                                     *)

BoundRun(n, s, f) ==
    f = [i \in 0..n |-> IF i = 0 THEN Empty ELSE BindTo(f[i - 1], First[i].name, First[i].value, s)]

LEMMA BoundExists == \A s : \A n \in Nat : \E f : BoundRun(n, s, f)
<1> TAKE s
<1> DEFINE T == {n \in Nat : \E f : BoundRun(n, s, f)}
<1>1. 0 \in T
  <2>1. BoundRun(0, s, [i \in 0..0 |-> Empty]) BY DEF BoundRun
  <2> QED BY <2>1
<1>2. ASSUME NEW n \in Nat, n \in T PROVE n + 1 \in T
  <2>1. PICK f : BoundRun(n, s, f) BY <1>2
  <2>2. PICK last : last = BindTo(f[n], First[(n + 1)].name, First[(n + 1)].value, s) OBVIOUS
  <2>3. PICK g : Longer(g, n, f, last) BY Extended
  <2>4. /\ g = [i \in 0..(n + 1) |-> g[i]] /\ g[n + 1] = last
        /\ \A i \in 0..n : g[i] = f[i]
    BY <2>3 DEF Longer
  <2>5. ASSUME NEW i \in 0..(n + 1)
        PROVE  g[i] = IF i = 0 THEN Empty ELSE BindTo(g[i - 1], First[i].name, First[i].value, s)
    <3>1. CASE i = n + 1
      <4>1. n \in 0..n /\ i # 0 /\ i - 1 = n BY <3>1
      <4>2. g[n] = f[n] BY <2>4, <4>1
      <4> QED BY <2>2, <2>4, <3>1, <4>1, <4>2
    <3>2. CASE i # n + 1
      <4>1. i \in 0..n /\ (i # 0 => i - 1 \in 0..n) BY <3>2
      <4>2. f[i] = IF i = 0 THEN Empty ELSE BindTo(f[i - 1], First[i].name, First[i].value, s)
        BY <2>1, <4>1 DEF BoundRun
      <4> QED BY <2>4, <4>1, <4>2
    <3> QED BY <3>1, <3>2
  <2>6. BoundRun(n + 1, s, g) BY <2>4, <2>5 DEF BoundRun
  <2> QED BY <2>6
<1>3. Nat \subseteq T
  <2> HIDE DEF T
  <2> QED BY <1>1, <1>2, Induction
<1> QED BY <1>3

LEMMA InitGood == ASSUME InitBinder PROVE GoodBinder(binder, ui.states) /\ early = {}
<1>1. PICK s : s = ui.states OBVIOUS
<1>2. PICK n \in Nat : n = Len(First) BY LenProperties, BinderAssumption
<1>3. PICK bound : bound = CHOOSE f : BoundRun(n, s, f) OBVIOUS
<1>4. binder = bound[n] /\ early = {} BY <1>1, <1>2, <1>3 DEF InitBinder, BoundRun
<1>5. BoundRun(n, s, bound) BY <1>3, BoundExists
<1>6. /\ bound[0] = Empty
      /\ \A i \in 1..n : bound[i] = BindTo(bound[i - 1], First[i].name, First[i].value, s)
  BY <1>5 DEF BoundRun
<1> DEFINE T == {i \in Nat : i <= n => GoodBinder(bound[i], s)}
<1>7. 0 \in T
  <2>1. Empty \in Binders BY DEF Empty, Unbound, Binders, BindRecords
  <2>2. GoodBinder(Empty, s)
    BY <2>1 DEF GoodBinder, HeardIfAny, Good, GoodBind, SoundBind, Tracks, Listens, Empty, Unbound
  <2> QED BY <1>6, <2>2
<1>8. ASSUME NEW i \in Nat, i \in T PROVE i + 1 \in T
  <2>1. SUFFICES ASSUME i + 1 <= n PROVE GoodBinder(bound[i + 1], s) OBVIOUS
  <2>2. PICK b : b = bound[i] OBVIOUS
  <2>3. GoodBinder(b, s) BY <1>8, <2>1, <2>2
  <2>4. i + 1 \in 1..n /\ (i + 1) - 1 = i BY <2>1
  <2>5. PICK m, v : m = First[i + 1].name /\ v = First[i + 1].value OBVIOUS
  <2>6. m \in Names /\ v \in Values
    <3>1. First[i + 1] \in [name : Names, value : Values]
      BY <1>2, <2>4, BinderAssumption, ElementOfSeq
    <3> QED BY <2>5, <3>1
  <2>7. bound[i + 1] = BindTo(b, m, v, s) BY <1>6, <2>2, <2>4, <2>5
  <2> QED BY <2>3, <2>6, <2>7, BindToGood
<1>9. Nat \subseteq T
  <2> HIDE DEF T
  <2> QED BY <1>7, <1>8, Induction
<1> QED BY <1>1, <1>4, <1>9

LEMMA InitInputInv == ASSUME InitInput PROVE InputInv
<1>1. <<>> \in Seq(Strokes) /\ <<>> \in Seq(Bytes) /\ <<>> \o <<>> = <<>> /\ Len(<<>>) = 0
  BY EmptySeq, ConcatEmptySeq
<1>2. PICK e, d : e = <<>> /\ d = [i \in 0..0 |-> 0] OBVIOUS
<1>3. Cut(e, e, e, 0, d)
  <2>1. Len(e) = 0 BY <1>1, <1>2
  <2>2. d \in [0..0 -> Int] /\ d[0] = 0 BY <1>2
  <2>3. Rising(d, 0, 0) BY DEF Rising
  <2> QED BY <2>1, <2>2, <2>3 DEF Cut, Starts, EscapeLast
<1>4. Fits(events, pending \o line, typed) BY <1>1, <1>2, <1>3 DEF Fits, InitInput
<1> QED BY <1>1, <1>4 DEF InputInv, InitInput, Stuck

-----------------------------------------------------------------------------
(* The interface.                                                          *)

\* A field has got no letters but those of a drag.
Counted == offered \in Nat /\ dragged \in Nat /\ offered <= dragged

InterfaceInv == InputInv /\ GoodBinder(binder, ui.states) /\ early = {} /\ Counted

TurnOf(n, r, f, pointed, bound, slow, order, key, end) ==
    /\ r = Read(n) /\ f = FrameOf(r.events) /\ pointed = Mouse(f)
    /\ bound = Listened(binder, ui.states, pointed.states)
    /\ order \in SetToSeqs({m \in Names : Completes(bound, m, pointed, f, slow)})
    /\ key = KeyInput(bound, pointed, f, slow, order) /\ end = Escape(key.w.u, f)
    /\ Ended(n, r, f, key, end)

LEMMA TurnIs ==
    ASSUME NEW n \in 0..Len(line), Turn(n)
    PROVE  \E r, f, pointed, bound, slow, order, key, end :
               TurnOf(n, r, f, pointed, bound, slow, order, key, end)
<1>1. PICK r, f, pointed :
      /\ r = Read(n) /\ f = FrameOf(r.events) /\ pointed = Mouse(f)
      /\ \E bound \in {Listened(binder, ui.states, pointed.states)} :
         \E slow \in {late \in BOOLEAN : late => \E m \in Names : bound.binds[m].idx > 0} :
         \E order \in SetToSeqs({m \in Names : Completes(bound, m, pointed, f, slow)}) :
         \E key \in {KeyInput(bound, pointed, f, slow, order)} :
         \E end \in {Escape(key.w.u, f)} : Ended(n, r, f, key, end)
  BY Zenon DEF Turn
<1>2. \E bound \in {Listened(binder, ui.states, pointed.states)} :
      \E slow \in {late \in BOOLEAN : late => \E m \in Names : bound.binds[m].idx > 0} :
      \E order \in SetToSeqs({m \in Names : Completes(bound, m, pointed, f, slow)}) :
      \E key \in {KeyInput(bound, pointed, f, slow, order)} :
      \E end \in {Escape(key.w.u, f)} : Ended(n, r, f, key, end)
  BY <1>1, Zenon
<1>3. PICK bound, slow :
      /\ bound = Listened(binder, ui.states, pointed.states)
      /\ \E order \in SetToSeqs({m \in Names : Completes(bound, m, pointed, f, slow)}) :
         \E key \in {KeyInput(bound, pointed, f, slow, order)} :
         \E end \in {Escape(key.w.u, f)} : Ended(n, r, f, key, end)
  BY <1>2, Zenon
<1>4. PICK order, key, end :
      /\ order \in SetToSeqs({m \in Names : Completes(bound, m, pointed, f, slow)})
      /\ key = KeyInput(bound, pointed, f, slow, order) /\ end = Escape(key.w.u, f)
      /\ Ended(n, r, f, key, end)
  BY <1>3, Zenon
<1>5. TurnOf(n, r, f, pointed, bound, slow, order, key, end) BY <1>1, <1>3, <1>4 DEF TurnOf
<1> QED BY <1>5

LEMMA LettersOf == ASSUME NEW es PROVE FrameOf(es).letters = Letters(es)
BY DEF FrameOf

\* The signals leave the letters of a frame consumed, and the field with the focus leaves it so.
LEMMA SignalledConsumed ==
    ASSUME NEW f, NEW matched, f.letters > 0
    PROVE  Signalled(f, matched) = {"now", "next"}
<1>1. TakeSequence(Fresh) = {"next"} BY DEF TakeSequence, Fresh
<1>2. TakeSequence({"next"}) = {"next"} BY DEF TakeSequence
<1>3. TakeSequence(IF matched THEN TakeSequence(Fresh) ELSE Fresh) = {"next"} BY <1>1, <1>2
<1>4. ApplyConsume({"next"}) = {"now", "next"} BY DEF ApplyConsume
<1> QED BY <1>3, <1>4 DEF Signalled

LEMMA FocusLeavesConsumed ==
    ASSUME NEW u, NEW f, NEW c, c = {"now", "next"}
    PROVE  ~ ByFocus(u, f, c).got /\ ByFocus(u, f, c).consumed = c
<1>1. TakeSequence(c) = c BY DEF TakeSequence
<1>2. ApplyConsume(c) = c BY DEF ApplyConsume
<1> QED BY <1>1, <1>2 DEF ByFocus

\* Who takes the letters: the field under the mouse, in a drag.
LEMMA TurnCounts ==
    ASSUME InterfaceInv, NEW n, NEW r, NEW f, NEW pointed, NEW bound, NEW slow, NEW order, NEW key,
           NEW end, TurnOf(n, r, f, pointed, bound, slow, order, key, end),
           r.events \in Seq(Strokes)
    PROVE  Counted'
<1>1. PICK x \in Nat : x = f.letters BY LettersOf, LettersType DEF TurnOf
<1>2. PICK c : c = Signalled(f, key.consumed) OBVIOUS
<1>3. PICK focus : focus = ByFocus(key.w.u, f, c) OBVIOUS
<1>4. PICK hover \in BOOLEAN : hover <=> ByMouse(end, f, focus.consumed) OBVIOUS
<1>5. PICK drag \in BOOLEAN : drag <=> Drag(f) BY DEF Drag
<1>6. /\ offered' = offered + (IF focus.got THEN x ELSE 0) + (IF hover THEN x ELSE 0)
      /\ dragged' = dragged + (IF drag THEN x ELSE 0)
  BY <1>1, <1>2, <1>3, <1>4, <1>5 DEF TurnOf, Ended
<1>7. offered \in Nat /\ dragged \in Nat /\ offered <= dragged BY DEF InterfaceInv, Counted
<1>8. CASE x = 0 BY <1>6, <1>7, <1>8 DEF Counted
<1>9. CASE x > 0
  <2>1. c = {"now", "next"} BY <1>1, <1>2, <1>9, SignalledConsumed
  <2>2. ~ focus.got /\ focus.consumed = c BY <1>3, <2>1, FocusLeavesConsumed
  <2>3. "now" \in focus.consumed BY <2>1, <2>2
  <2>4. hover => drag BY <1>4, <1>5, <2>3 DEF ByMouse
  <2> QED BY <1>6, <1>7, <2>2, <2>4 DEF Counted
<1> QED BY <1>8, <1>9

LEMMA TurnKeeps == ASSUME InterfaceInv, NEW n \in 0..Len(line), Turn(n) PROVE InterfaceInv'
<1>1. PICK r, f, pointed, bound, slow, order, key, end :
          TurnOf(n, r, f, pointed, bound, slow, order, key, end)
  BY TurnIs
<1>2. InputInv' /\ r.events \in Seq(Strokes) BY <1>1, CycleKeeps DEF InterfaceInv, TurnOf, Ended
<1>3. GoodBinder(bound, pointed.states) BY <1>1, ListenedGood DEF InterfaceInv, TurnOf
<1>4. order \in SetToSeqs({m \in Names : Completes(bound, m, pointed, f, slow)}) BY <1>1 DEF TurnOf
<1>5. Work(key.w)
  <2>1. Work(KeyInput(bound, pointed, f, slow, order).w) BY <1>3, <1>4, KeyInputWork
  <2>2. key = KeyInput(bound, pointed, f, slow, order) BY <1>1 DEF TurnOf
  <2> QED BY <2>1, <2>2
<1>6. key.w.early = {} /\ GoodBinder(key.w.b, key.w.u.states)
  BY <1>5 DEF Work
<1>7. Counted' BY <1>1, <1>2, TurnCounts
<1>8. PICK b, s, t : b = key.w.b /\ s = key.w.u.states /\ t = end.states OBVIOUS
<1>9. GoodBinder(binder', ui'.states)
  <2>1. GoodBinder(b, s) BY <1>6, <1>8
  <2>2. binder' = Listened(b, s, t) /\ ui'.states = t BY <1>1, <1>8 DEF TurnOf, Ended
  <2> QED BY <2>1, <2>2, ListenedGood
<1>10. GoodBinder(binder, ui.states)' BY <1>1, <1>9, GoodThen DEF TurnOf, Ended
<1>11. early' = {} BY <1>1, <1>6 DEF TurnOf, Ended, InterfaceInv
<1> QED BY <1>2, <1>7, <1>10, <1>11 DEF InterfaceInv

\* No frame, and no element that is gone; the binds are told of every change.
LEMMA RestKeeps == ASSUME InterfaceInv, Rest PROVE Counted'
BY DEF InterfaceInv, Counted, Rest, lettersVars

LEMMA ListenedKeeps ==
    ASSUME InterfaceInv, Listen, UNCHANGED gone
    PROVE  GoodBinder(binder, ui.states)' /\ early' = {}
<1>1. PICK t : t = ui'.states OBVIOUS
<1>2. GoodBinder(binder', t) BY <1>1, ListenedGood DEF InterfaceInv, Listen
<1>3. GoodBinder(binder', ui'.states) BY <1>1, <1>2
<1> QED BY <1>3, GoodThen DEF InterfaceInv, Listen

LEMMA SameInput == ASSUME InputInv, UNCHANGED inputVars PROVE InputInv'
<1>1. /\ typed' = typed /\ events' = events /\ line' = line /\ pending' = pending
      /\ waiting' = waiting /\ expired' = expired
  BY DEF inputVars
<1>2. Fits(events', pending' \o line', typed') /\ Stuck(pending') BY <1>1 DEF InputInv
<1> QED BY <1>1, <1>2 DEF InputInv

LEMMA SwitchKeeps == ASSUME InterfaceInv, Switch PROVE InterfaceInv'
<1>1. PICK n \in 0..Len(line) : \E p \in Roots : \E r \in {Read(n)} : \E f \in {FrameOf(r.events)} :
          SetTree(p, f) /\ Cycle(n, r, f) /\ Listen /\ Rest
  BY DEF Switch
<1>2. PICK r, f, p : r = Read(n) /\ SetTree(p, f) /\ Cycle(n, r, f) /\ Listen /\ Rest BY <1>1
<1>3. InputInv' /\ r.events \in Seq(Strokes) BY <1>2, CycleKeeps DEF InterfaceInv
<1>4. UNCHANGED gone BY <1>2 DEF SetTree
<1>5. GoodBinder(binder, ui.states)' /\ early' = {} BY <1>2, <1>4, ListenedKeeps
<1>6. Counted' BY <1>2, RestKeeps
<1> QED BY <1>3, <1>5, <1>6 DEF InterfaceInv

LEMMA TreeKeeps == ASSUME InterfaceInv, Tree PROVE InterfaceInv'
<1>1. gone \subseteq gone' /\ \A e \in Elements \ gone' : ui'.states[e] = ui.states[e]
  <2>1. ASSUME NEW e \in Elements, RemoveElement(e)
        PROVE  gone \subseteq gone' /\ \A x \in Elements \ gone' : ui'.states[x] = ui.states[x]
    <3>1. PICK S : gone' = gone \cup S
                   /\ ui'.states = [c \in Elements |-> IF c \in S THEN {} ELSE ui.states[c]]
      BY <2>1 DEF RemoveElement
    <3> QED BY <3>1
  <2>2. ASSUME NEW e \in Elements, NEW p \in Containers, Move(e, p)
        PROVE  gone \subseteq gone' /\ \A x \in Elements \ gone' : ui'.states[x] = ui.states[x]
    <3>1. gone' = gone /\ ui'.states = ui.states BY <2>2 DEF Move
    <3> QED BY <3>1
  <2> QED BY <2>1, <2>2 DEF Tree
<1>2. UNCHANGED <<inputVars, binder, early>> /\ Rest BY DEF Tree
<1>3. GoodBinder(binder, ui.states)' BY <1>1, <1>2, GoodLater DEF InterfaceInv
<1>4. InputInv' BY <1>2, SameInput DEF InterfaceInv
<1>5. Counted' BY <1>2, RestKeeps
<1> QED BY <1>2, <1>3, <1>4, <1>5 DEF InterfaceInv

LEMMA PointKeeps == ASSUME InterfaceInv, Point PROVE InterfaceInv'
<1>1. Listen /\ UNCHANGED inputVars /\ Rest BY DEF Point
<1>2. UNCHANGED gone BY DEF Point, CallFocus, FocusNext, ClearKeynav
<1>3. GoodBinder(binder, ui.states)' /\ early' = {} BY <1>1, <1>2, ListenedKeeps
<1>4. InputInv' BY <1>1, SameInput DEF InterfaceInv
<1>5. Counted' BY <1>1, RestKeeps
<1> QED BY <1>3, <1>4, <1>5 DEF InterfaceInv

LEMMA BindsKeeps == ASSUME InterfaceInv, Binds PROVE InterfaceInv'
<1>1. UNCHANGED <<inputVars, ui, gone, early>> /\ Rest BY DEF Binds
<1>2. GoodBinder(binder', ui.states)
  <2>1. PICK n \in Names : \/ \E v \in Values : Bind(n, v) \/ Rebind(n, v)
                           \/ Freeze(n) \/ Unfreeze(n) \/ Unbind(n)
    BY DEF Binds
  <2>2. PICK b, s : b = binder /\ s = ui.states OBVIOUS
  <2>3. GoodBinder(b, s) BY <2>2 DEF InterfaceInv
  <2>4. ASSUME NEW v \in Values, Bind(n, v) PROVE GoodBinder(binder', s)
    <3>1. GoodBinder(BindTo(b, n, v, s), s) BY <2>3, BindToGood
    <3> QED BY <2>2, <2>4, <3>1 DEF Bind
  <2>5. ASSUME NEW v \in Values, Rebind(n, v) PROVE GoodBinder(binder', s)
    BY <2>2, <2>5, RebindGood DEF InterfaceInv
  <2>6. CASE Freeze(n) BY <2>6, FreezeGood DEF InterfaceInv
  <2>7. CASE Unfreeze(n) BY <2>7, UnfreezeGood DEF InterfaceInv
  <2>8. CASE Unbind(n)
    <3>1. GoodBinder(UnbindFrom(b, n), s) BY <2>3, UnbindFromGood
    <3> QED BY <2>2, <2>8, <3>1 DEF Unbind
  <2> QED BY <2>1, <2>2, <2>4, <2>5, <2>6, <2>7, <2>8
<1>3. GoodBinder(binder, ui.states)'
  <2>1. GoodBinder(binder', ui'.states) BY <1>1, <1>2
  <2> QED BY <1>1, <2>1, GoodThen
<1>4. InputInv' BY <1>1, SameInput DEF InterfaceInv
<1>5. Counted' BY <1>1, RestKeeps
<1> QED BY <1>1, <1>3, <1>4, <1>5 DEF InterfaceInv

LEMMA TypingKeeps ==
    ASSUME InterfaceInv, Typing, UNCHANGED <<screenVars, binder, early>>, Rest
    PROVE  InterfaceInv'
<1>1. InputInv' BY TypeKeeps, PassKeeps DEF Typing, InterfaceInv
<1>2. Counted' BY RestKeeps
<1>3. GoodBinder(binder', ui'.states) /\ UNCHANGED gone BY DEF InterfaceInv, screenVars
<1>4. GoodBinder(binder, ui.states)' BY <1>3, GoodThen
<1> QED BY <1>1, <1>2, <1>4 DEF InterfaceInv

LEMMA InterfaceInvInvariant == Spec => []InterfaceInv
<1>1. Init => InterfaceInv
  <2> SUFFICES ASSUME Init PROVE InterfaceInv OBVIOUS
  <2>1. GoodBinder(binder, ui.states) /\ early = {} BY InitGood DEF Init
  <2>2. InputInv BY InitInputInv DEF Init
  <2>3. Counted BY DEF Counted, Init
  <2> QED BY <2>1, <2>2, <2>3 DEF InterfaceInv
<1>2. InterfaceInv /\ [Next]_vars => InterfaceInv'
  <2> SUFFICES ASSUME InterfaceInv, [Next]_vars PROVE InterfaceInv' OBVIOUS
  <2>1. CASE Typing /\ UNCHANGED <<screenVars, binder, early>> /\ Rest BY <2>1, TypingKeeps
  <2>2. ASSUME NEW n \in 0..Len(line), Turn(n) PROVE InterfaceInv' BY <2>2, TurnKeeps
  <2>3. CASE Tree BY <2>3, TreeKeeps
  <2>4. CASE Switch BY <2>4, SwitchKeeps
  <2>5. CASE Point BY <2>5, PointKeeps
  <2>6. CASE Binds BY <2>6, BindsKeeps
  <2>7. CASE UNCHANGED vars
    <3>1. /\ UNCHANGED <<screenVars, binder, early>> /\ UNCHANGED inputVars
          /\ UNCHANGED lettersVars
      BY <2>7 DEF vars
    <3>2. InputInv' BY <3>1, SameInput DEF InterfaceInv
    <3>3. Counted' BY <3>1, RestKeeps DEF Rest
    <3>4. GoodBinder(binder', ui'.states) /\ UNCHANGED gone BY <3>1 DEF InterfaceInv, screenVars
    <3>5. GoodBinder(binder, ui.states)' BY <3>4, GoodThen
    <3> QED BY <3>1, <3>2, <3>3, <3>5 DEF InterfaceInv
  <2> QED BY <2>1, <2>2, <2>3, <2>4, <2>5, <2>6, <2>7 DEF Next
<1> QED BY <1>1, <1>2, PTL DEF Spec

\* What is understood of the bytes of a terminal is what was typed, in order and nothing else,
\* wherever the reads cut them (UnixTerminalInput::_begincycle_impl).
THEOREM InputIsWhole == Spec => []InputWhole
<1>1. InterfaceInv => InputWhole BY InputWholeThen DEF InterfaceInv
<1> QED BY <1>1, InterfaceInvInvariant, PTL

\* A bind is active exactly while it is enabled and its element is in the state it needs,
\* through every order of binding, rebinding, freezing, focusing and removing (SystemBinder).
THEOREM BindsFollow == Spec => []BindsActive
<1>1. InterfaceInv => BindsActive
  <2> SUFFICES ASSUME InterfaceInv PROVE BindsActive OBVIOUS
  <2>1. GoodBinder(binder, ui.states) BY DEF InterfaceInv
  <2>2. \A n \in Names : Sound(binder, n)
    BY <2>1 DEF GoodBinder, Good, GoodBind, Sound
  <2>3. \A n \in Names \ binder.failed : Tracks(binder.binds[n], ui.states)
    BY <2>1 DEF GoodBinder, Good, GoodBind
  <2>4. binder.set \subseteq Names BY <2>1 DEF GoodBinder, Binders
  <2>5. binder.set # {} => binder.heard BY <2>1 DEF GoodBinder, HeardIfAny
  <2> QED BY <2>2, <2>3, <2>4, <2>5 DEF BindsActive, Sound, SoundBind, Tracks, Wanted
<1> QED BY <1>1, InterfaceInvInvariant, PTL

\* A key counts once, and for what was there when it was pressed (SystemBinder's listener of
\* KeyInput and the events of the elements).
THEOREM KeysCountOnce == Spec => []KeysOnce
<1>1. InterfaceInv => KeysOnce BY DEF InterfaceInv, Counted, KeysOnce, CalledLater, LettersOnce
<1> QED BY <1>1, InterfaceInvInvariant, PTL

-----------------------------------------------------------------------------
(* What is reached in the tree.                                            *)

LEMMA DepthType == Depth \in Nat
BY ScreenAssumption, FS_CardinalityType DEF Depth

Around(S, next) == UNION {{x} \cup next[x] : x \in S}
ReachRun(n, from, next, f) ==
    f = [i \in 0..n |-> IF i = 0 THEN from ELSE Around(f[i - 1], next)]

LEMMA ReachExists == \A from, next : \A n \in Nat : \E f : ReachRun(n, from, next, f)
<1> TAKE from, next
<1> DEFINE T == {n \in Nat : \E f : ReachRun(n, from, next, f)}
<1>1. 0 \in T
  <2>1. ReachRun(0, from, next, [i \in 0..0 |-> from]) BY DEF ReachRun
  <2> QED BY <2>1
<1>2. ASSUME NEW n \in Nat, n \in T PROVE n + 1 \in T
  <2>1. PICK f : ReachRun(n, from, next, f) BY <1>2
  <2>2. PICK last : last = Around(f[n], next) OBVIOUS
  <2>3. PICK g : Longer(g, n, f, last) BY Extended
  <2>4. /\ g = [i \in 0..(n + 1) |-> g[i]] /\ g[n + 1] = last
        /\ \A i \in 0..n : g[i] = f[i]
    BY <2>3 DEF Longer
  <2>5. ASSUME NEW i \in 0..(n + 1)
        PROVE  g[i] = IF i = 0 THEN from ELSE Around(g[i - 1], next)
    <3>1. CASE i = n + 1
      <4>1. n \in 0..n /\ i # 0 /\ i - 1 = n BY <3>1
      <4>2. g[n] = f[n] BY <2>4, <4>1
      <4> QED BY <2>2, <2>4, <3>1, <4>1, <4>2
    <3>2. CASE i # n + 1
      <4>1. i \in 0..n /\ (i # 0 => i - 1 \in 0..n) BY <3>2
      <4>2. f[i] = IF i = 0 THEN from ELSE Around(f[i - 1], next)
        BY <2>1, <4>1 DEF ReachRun
      <4> QED BY <2>4, <4>1, <4>2
    <3> QED BY <3>1, <3>2
  <2>6. ReachRun(n + 1, from, next, g) BY <2>4, <2>5 DEF ReachRun
  <2> QED BY <2>6
<1>3. Nat \subseteq T
  <2> HIDE DEF T
  <2> QED BY <1>1, <1>2, Induction
<1> QED BY <1>3

LEMMA ReachIs ==
    ASSUME NEW from, NEW next
    PROVE  \E f : /\ Reach(from, next) = f[Depth] /\ f[0] = from
                  /\ \A i \in 1..Depth : f[i] = Around(f[i - 1], next)
<1>1. PICK n \in Nat : n = Depth BY DepthType
<1>2. PICK f : f = CHOOSE g : ReachRun(n, from, next, g) OBVIOUS
<1>3. Reach(from, next) = f[n] BY <1>1, <1>2 DEF Reach, ReachRun, Around
<1>4. ReachRun(n, from, next, f) BY <1>2, ReachExists
<1>5. f[0] = from /\ \A i \in 1..n : f[i] = Around(f[i - 1], next) BY <1>4 DEF ReachRun
<1> QED BY <1>1, <1>3, <1>5

\* It is what it begins with, and in every set that is closed.
LEMMA Reached ==
    ASSUME NEW from, NEW next
    PROVE  /\ from \subseteq Reach(from, next)
           /\ \A C : from \subseteq C /\ (\A x \in C : next[x] \subseteq C)
                         => Reach(from, next) \subseteq C
<1>1. PICK f : /\ Reach(from, next) = f[Depth] /\ f[0] = from
               /\ \A i \in 1..Depth : f[i] = Around(f[i - 1], next)
  BY ReachIs
<1>2. PICK n \in Nat : n = Depth BY DepthType
<1>3. ASSUME NEW i \in Nat, i + 1 <= n PROVE f[i + 1] = Around(f[i], next)
  <2>1. i + 1 \in 1..n /\ (i + 1) - 1 = i BY <1>3
  <2> QED BY <1>1, <1>2, <2>1
<1>4. from \subseteq f[n]
  <2> DEFINE T == {i \in Nat : i <= n => from \subseteq f[i]}
  <2>1. 0 \in T BY <1>1
  <2>2. ASSUME NEW i \in Nat, i \in T PROVE i + 1 \in T
    <3>1. SUFFICES ASSUME i + 1 <= n PROVE from \subseteq f[i + 1] OBVIOUS
    <3>2. from \subseteq f[i] BY <2>2, <3>1
    <3>3. f[i] \subseteq f[i + 1] BY <1>3, <3>1 DEF Around
    <3> QED BY <3>2, <3>3
  <2>3. Nat \subseteq T
    <3> HIDE DEF T
    <3> QED BY <2>1, <2>2, Induction
  <2> QED BY <2>3
<1>5. ASSUME NEW C, from \subseteq C, \A x \in C : next[x] \subseteq C PROVE f[n] \subseteq C
  <2> DEFINE T == {i \in Nat : i <= n => f[i] \subseteq C}
  <2>1. 0 \in T BY <1>1, <1>5
  <2>2. ASSUME NEW i \in Nat, i \in T PROVE i + 1 \in T
    <3>1. SUFFICES ASSUME i + 1 <= n PROVE f[i + 1] \subseteq C OBVIOUS
    <3>2. f[i] \subseteq C BY <2>2, <3>1
    <3>3. f[i + 1] = Around(f[i], next) BY <1>3, <3>1
    <3> QED BY <3>2, <3>3, <1>5 DEF Around
  <2>3. Nat \subseteq T
    <3> HIDE DEF T
    <3> QED BY <2>1, <2>2, Induction
  <2> QED BY <2>3
<1> QED BY <1>1, <1>2, <1>4, <1>5

Links == [Elements -> SUBSET Elements]

\* As many steps as there are elements are enough.
LEMMA ReachClosed ==
    ASSUME NEW from \in SUBSET Elements, NEW next \in Links
    PROVE  /\ Reach(from, next) \subseteq Elements
           /\ \A x \in Reach(from, next) : next[x] \subseteq Reach(from, next)
<1>1. PICK f : /\ Reach(from, next) = f[Depth] /\ f[0] = from
               /\ \A i \in 1..Depth : f[i] = Around(f[i - 1], next)
  BY ReachIs
<1>2. PICK n \in Nat : n = Depth BY DepthType
<1>3. ASSUME NEW i \in Nat, i + 1 <= n PROVE f[i + 1] = Around(f[i], next)
  <2>1. i + 1 \in 1..n /\ (i + 1) - 1 = i BY <1>3
  <2> QED BY <1>1, <1>2, <2>1
<1>4. \A i \in Nat : i <= n => f[i] \subseteq Elements
  <2> DEFINE T == {i \in Nat : i <= n => f[i] \subseteq Elements}
  <2>1. 0 \in T BY <1>1
  <2>2. ASSUME NEW i \in Nat, i \in T PROVE i + 1 \in T
    <3>1. SUFFICES ASSUME i + 1 <= n PROVE f[i + 1] \subseteq Elements OBVIOUS
    <3>2. f[i] \subseteq Elements BY <2>2, <3>1
    <3> QED BY <3>2, <1>3, <3>1 DEF Around, Links
  <2>3. Nat \subseteq T
    <3> HIDE DEF T
    <3> QED BY <2>1, <2>2, Induction
  <2> QED BY <2>3
<1>5. Reach(from, next) \subseteq Elements BY <1>1, <1>2, <1>4
<1>6. CASE from = {}
  <2>1. Reach(from, next) \subseteq {} BY <1>6, Reached
  <2> QED BY <2>1
<1>7. CASE from # {}
  <2>1. \E k \in Nat : k + 1 <= n /\ f[k + 1] = f[k]
    <3>1. SUFFICES ASSUME \A k \in Nat : k + 1 <= n => f[k + 1] # f[k] PROVE FALSE OBVIOUS
    <3> DEFINE T == {i \in Nat : i <= n => Cardinality(f[i]) >= i + 1}
    <3>2. \A i \in Nat : i <= n => IsFiniteSet(f[i]) /\ Cardinality(f[i]) \in Nat
                                   /\ Cardinality(f[i]) <= n
      <4>1. TAKE i \in Nat
      <4>2. HAVE i <= n
      <4>3. f[i] \in SUBSET Elements BY <1>4, <4>2
      <4>4. IsFiniteSet(Elements) /\ Cardinality(Elements) = n BY <1>2, ScreenAssumption DEF Depth
      <4>5. IsFiniteSet(f[i]) /\ Cardinality(f[i]) <= n BY <4>3, <4>4, FS_Subset
      <4> QED BY <4>5, FS_CardinalityType
    <3>3. 0 \in T
      <4>1. IsFiniteSet(f[0]) /\ Cardinality(f[0]) \in Nat BY <3>2
      <4>2. Cardinality(f[0]) # 0 BY <1>1, <1>7, <4>1, FS_EmptySet
      <4> QED BY <4>1, <4>2
    <3>4. ASSUME NEW i \in Nat, i \in T PROVE i + 1 \in T
      <4>1. SUFFICES ASSUME i + 1 <= n PROVE Cardinality(f[i + 1]) >= (i + 1) + 1 OBVIOUS
      <4>2. i <= n /\ i + 1 \in Nat BY <4>1
      <4>3. f[i] \subseteq f[i + 1] /\ f[i] # f[i + 1] BY <1>3, <3>1, <4>1 DEF Around
      <4>4. PICK S, W : S = f[i] /\ W = f[i + 1] OBVIOUS
      <4>5. /\ IsFiniteSet(W) /\ Cardinality(W) \in Nat /\ Cardinality(S) \in Nat
            /\ S \in SUBSET W /\ S # W
        BY <3>2, <4>1, <4>2, <4>3, <4>4
      <4>6. Cardinality(S) <= Cardinality(W) /\ Cardinality(W) # Cardinality(S)
        BY <4>5, FS_Subset
      <4>7. Cardinality(S) >= i + 1 BY <3>4, <4>2, <4>4
      <4>8. Cardinality(W) >= (i + 1) + 1 BY <4>5, <4>6, <4>7
      <4> QED BY <4>4, <4>8
    <3>5. Nat \subseteq T
      <4> HIDE DEF T
      <4> QED BY <3>3, <3>4, Induction
    <3>6. Cardinality(f[n]) >= n + 1 BY <3>5
    <3> QED BY <3>2, <3>6
  <2>2. PICK k \in Nat : k + 1 <= n /\ f[k + 1] = f[k] BY <2>1
  <2>3. Around(f[k], next) = f[k] BY <1>3, <2>2
  <2> DEFINE T == {j \in Nat : k + j <= n => f[k + j] = f[k]}
  <2>4. 0 \in T BY <2>2
  <2>5. ASSUME NEW j \in Nat, j \in T PROVE j + 1 \in T
    <3>1. SUFFICES ASSUME k + (j + 1) <= n PROVE f[k + (j + 1)] = f[k] OBVIOUS
    <3>2. k + j \in Nat /\ k + j <= n /\ (k + j) + 1 <= n /\ k + (j + 1) = (k + j) + 1 BY <2>2, <3>1
    <3>3. f[k + j] = f[k] BY <2>5, <3>2
    <3>4. f[(k + j) + 1] = Around(f[k + j], next) BY <1>3, <3>2
    <3>5. f[(k + j) + 1] = f[k] BY <3>3, <3>4, <2>3
    <3> QED BY <3>2, <3>5
  <2>6. Nat \subseteq T
    <3> HIDE DEF T
    <3> QED BY <2>4, <2>5, Induction
  <2>7. f[n] = f[k]
    <3>1. PICK j \in Nat : k + j = n
      <4>1. n - k \in Nat /\ k + (n - k) = n BY <2>2
      <4> QED BY <4>1
    <3>2. k + j <= n BY <3>1
    <3>3. f[k + j] = f[k] BY <2>6, <3>2
    <3> QED BY <3>1, <3>3
  <2>8. \A x \in f[n] : next[x] \subseteq f[n] BY <2>3, <2>7 DEF Around
  <2> QED BY <1>1, <1>2, <1>5, <2>8
<1> QED BY <1>6, <1>7

-----------------------------------------------------------------------------
(* Where steps lead.                                                       *)

StepsRun(n, next, x, f) ==
    f = [i \in 0..n |-> IF i = 0 THEN x ELSE next[f[i - 1]]]

LEMMA StepsExists == \A next, x : \A n \in Nat : \E f : StepsRun(n, next, x, f)
<1> TAKE next, x
<1> DEFINE T == {n \in Nat : \E f : StepsRun(n, next, x, f)}
<1>1. 0 \in T
  <2>1. StepsRun(0, next, x, [i \in 0..0 |-> x]) BY DEF StepsRun
  <2> QED BY <2>1
<1>2. ASSUME NEW n \in Nat, n \in T PROVE n + 1 \in T
  <2>1. PICK f : StepsRun(n, next, x, f) BY <1>2
  <2>2. PICK last : last = next[f[n]] OBVIOUS
  <2>3. PICK g : Longer(g, n, f, last) BY Extended
  <2>4. /\ g = [i \in 0..(n + 1) |-> g[i]] /\ g[n + 1] = last
        /\ \A i \in 0..n : g[i] = f[i]
    BY <2>3 DEF Longer
  <2>5. ASSUME NEW i \in 0..(n + 1)
        PROVE  g[i] = IF i = 0 THEN x ELSE next[g[i - 1]]
    <3>1. CASE i = n + 1
      <4>1. n \in 0..n /\ i # 0 /\ i - 1 = n BY <3>1
      <4>2. g[n] = f[n] BY <2>4, <4>1
      <4> QED BY <2>2, <2>4, <3>1, <4>1, <4>2
    <3>2. CASE i # n + 1
      <4>1. i \in 0..n /\ (i # 0 => i - 1 \in 0..n) BY <3>2
      <4>2. f[i] = IF i = 0 THEN x ELSE next[f[i - 1]]
        BY <2>1, <4>1 DEF StepsRun
      <4> QED BY <2>4, <4>1, <4>2
    <3> QED BY <3>1, <3>2
  <2>6. StepsRun(n + 1, next, x, g) BY <2>4, <2>5 DEF StepsRun
  <2> QED BY <2>6
<1>3. Nat \subseteq T
  <2> HIDE DEF T
  <2> QED BY <1>1, <1>2, Induction
<1> QED BY <1>3

LEMMA StepsIs ==
    ASSUME NEW next, NEW x, NEW n \in Nat
    PROVE  \E f : /\ Steps(next, x, n) = f[n] /\ f[0] = x
                  /\ \A i \in 1..n : f[i] = next[f[i - 1]]
<1>1. PICK f : f = CHOOSE g : StepsRun(n, next, x, g) OBVIOUS
<1>2. Steps(next, x, n) = f[n] BY <1>1 DEF Steps, StepsRun
<1>3. StepsRun(n, next, x, f) BY <1>1, StepsExists
<1>4. f[0] = x /\ \A i \in 1..n : f[i] = next[f[i - 1]] BY <1>3 DEF StepsRun
<1> QED BY <1>2, <1>4

LEMMA StepMore ==
    ASSUME NEW next, NEW x, NEW n \in Nat
    PROVE  Steps(next, x, 0) = x /\ Steps(next, x, n + 1) = next[Steps(next, x, n)]
<1>1. PICK f : /\ Steps(next, x, n) = f[n] /\ f[0] = x
               /\ \A i \in 1..n : f[i] = next[f[i - 1]]
  BY StepsIs
<1>2. n + 1 \in Nat OBVIOUS
<1>3. PICK g : /\ Steps(next, x, n + 1) = g[n + 1] /\ g[0] = x
               /\ \A i \in 1..(n + 1) : g[i] = next[g[i - 1]]
  BY <1>2, StepsIs
<1> DEFINE T == {i \in Nat : i <= n => g[i] = f[i]}
<1>4. 0 \in T BY <1>1, <1>3
<1>5. ASSUME NEW i \in Nat, i \in T PROVE i + 1 \in T
  <2>1. SUFFICES ASSUME i + 1 <= n PROVE g[i + 1] = f[i + 1] OBVIOUS
  <2>2. i + 1 \in 1..n /\ i + 1 \in 1..(n + 1) /\ (i + 1) - 1 = i BY <2>1
  <2>3. g[i + 1] = next[g[i]] BY <1>3, <2>2
  <2>4. f[i + 1] = next[f[i]] BY <1>1, <2>2
  <2>5. g[i] = f[i] BY <1>5, <2>1
  <2> QED BY <2>3, <2>4, <2>5
<1>6. Nat \subseteq T
  <2> HIDE DEF T
  <2> QED BY <1>4, <1>5, Induction
<1>7. g[n] = f[n] BY <1>6
<1>8. n + 1 \in 1..(n + 1) /\ (n + 1) - 1 = n OBVIOUS
<1>9. g[n + 1] = next[g[n]] BY <1>3, <1>8
<1>10. Steps(next, x, 0) = x
  <2>1. 0 \in Nat OBVIOUS
  <2>2. PICK h : Steps(next, x, 0) = h[0] /\ h[0] = x BY <2>1, StepsIs
  <2> QED BY <2>2
<1> QED BY <1>1, <1>3, <1>7, <1>9, <1>10

LEMMA StepsIn ==
    ASSUME NEW next, NEW S, \A y \in S : next[y] \in S, NEW x \in S
    PROVE  \A n \in Nat : Steps(next, x, n) \in S
<1> DEFINE T == {n \in Nat : Steps(next, x, n) \in S}
<1>1. 0 \in T
  <2>1. 0 \in Nat OBVIOUS
  <2>2. Steps(next, x, 0) = x BY <2>1, StepMore
  <2> QED BY <2>1, <2>2
<1>2. ASSUME NEW n \in Nat, n \in T PROVE n + 1 \in T BY <1>2, StepMore
<1>3. Nat \subseteq T
  <2> HIDE DEF T
  <2> QED BY <1>1, <1>2, Induction
<1> QED BY <1>3

LEMMA StepFirst ==
    ASSUME NEW next, NEW x, NEW y, y = next[x]
    PROVE  \A n \in Nat : Steps(next, y, n) = Steps(next, x, n + 1)
<1> DEFINE T == {n \in Nat : Steps(next, y, n) = Steps(next, x, n + 1)}
<1>1. 0 \in T
  <2>1. 0 \in Nat OBVIOUS
  <2>2. Steps(next, y, 0) = y /\ Steps(next, x, 0) = x BY <2>1, StepMore
  <2>3. Steps(next, x, 0 + 1) = next[Steps(next, x, 0)] BY <2>1, StepMore
  <2> QED BY <2>1, <2>2, <2>3
<1>2. ASSUME NEW n \in Nat, n \in T PROVE n + 1 \in T
  <2>1. n + 1 \in Nat OBVIOUS
  <2>2. Steps(next, y, n + 1) = next[Steps(next, y, n)] BY StepMore
  <2>3. Steps(next, x, (n + 1) + 1) = next[Steps(next, x, n + 1)] BY <2>1, StepMore
  <2> QED BY <1>2, <2>1, <2>2, <2>3
<1>3. Nat \subseteq T
  <2> HIDE DEF T
  <2> QED BY <1>1, <1>2, Induction
<1> QED BY <1>3

-----------------------------------------------------------------------------
(* The tree.                                                               *)

ParentIn(par) == [x \in Elements |-> {par[x]} \ {None}]
ChildIn(chi) == [x \in Elements |-> ToSet(chi[x])]
Above(par, e) == Reach({e} \ {None}, ParentIn(par))
Under(chi, e) == Reach({e}, ChildIn(chi))

LEMMA UpIs == \A e : Up(e) = Above(parent, e) BY DEF Up, Above, ParentIn
LEMMA BelowIs == \A e : Below(e) = Under(children, e) BY DEF Below, Under, ChildIn

Parents == [Elements -> Elements \cup {None}]
Trees == [Elements -> Seq(Elements)]
Kin(chi, par) == \A c \in Elements : par[c] # None => c \in ToSet(chi[par[c]])
RootsFree(chi) == \A e \in Elements : ToSet(chi[e]) \cap Roots = {}
TreeIn(chi, par) == chi \in Trees /\ par \in Parents /\ Kin(chi, par) /\ RootsFree(chi)

LEMMA ToSetType ==
    ASSUME NEW S, NEW s \in Seq(S)
    PROVE  ToSet(s) \subseteq S
BY ElementOfSeq DEF ToSet

LEMMA AboveIs ==
    ASSUME NEW par \in Parents, NEW e \in Elements \cup {None}
    PROVE  /\ Above(par, e) \subseteq Elements
           /\ \A x \in Above(par, e) : par[x] # None => par[x] \in Above(par, e)
           /\ e # None => e \in Above(par, e)
           /\ \A C : (e # None => e \in C) /\ (\A x \in C : x \in Elements /\ (par[x] # None => par[x] \in C))
                         => Above(par, e) \subseteq C
<1>1. PICK next : next = ParentIn(par) OBVIOUS
<1>2. next \in Links
  <2>1. \A x \in Elements : {par[x]} \ {None} \in SUBSET Elements BY DEF Parents
  <2> QED BY <1>1, <2>1 DEF ParentIn, Links
<1>3. PICK from : from = {e} \ {None} OBVIOUS
<1>4. from \in SUBSET Elements BY <1>3
<1>5. Above(par, e) = Reach(from, next) BY <1>1, <1>3 DEF Above
<1>6. \A x \in Elements : next[x] = {par[x]} \ {None} BY <1>1 DEF ParentIn
<1>7. /\ Reach(from, next) \subseteq Elements
      /\ \A x \in Reach(from, next) : next[x] \subseteq Reach(from, next)
  BY <1>2, <1>4, ReachClosed
<1>8. \A x \in Above(par, e) : par[x] # None => par[x] \in Above(par, e) BY <1>5, <1>6, <1>7
<1>9. e # None => e \in Above(par, e) BY <1>3, <1>5, Reached
<1>10. ASSUME NEW C, e # None => e \in C,
              \A x \in C : x \in Elements /\ (par[x] # None => par[x] \in C)
       PROVE  Above(par, e) \subseteq C
  <2>1. from \subseteq C BY <1>3, <1>10
  <2>2. \A x \in C : next[x] \subseteq C BY <1>6, <1>10
  <2> QED BY <1>5, <2>1, <2>2, Reached
<1> QED BY <1>5, <1>7, <1>8, <1>9, <1>10

LEMMA UnderIs ==
    ASSUME NEW chi \in Trees, NEW e \in Elements
    PROVE  /\ Under(chi, e) \subseteq Elements /\ e \in Under(chi, e)
           /\ \A x \in Under(chi, e) : ToSet(chi[x]) \subseteq Under(chi, e)
           /\ \A C : e \in C /\ (\A x \in C : x \in Elements /\ ToSet(chi[x]) \subseteq C)
                         => Under(chi, e) \subseteq C
<1>1. PICK next : next = ChildIn(chi) OBVIOUS
<1>2. next \in Links
  <2>1. \A x \in Elements : ToSet(chi[x]) \in SUBSET Elements BY ToSetType DEF Trees
  <2> QED BY <1>1, <2>1 DEF ChildIn, Links
<1>3. PICK from : from = {e} OBVIOUS
<1>4. from \in SUBSET Elements BY <1>3
<1>5. Under(chi, e) = Reach(from, next) BY <1>1, <1>3 DEF Under
<1>6. \A x \in Elements : next[x] = ToSet(chi[x]) BY <1>1 DEF ChildIn
<1>7. /\ Reach(from, next) \subseteq Elements
      /\ \A x \in Reach(from, next) : next[x] \subseteq Reach(from, next)
  BY <1>2, <1>4, ReachClosed
<1>8. \A x \in Under(chi, e) : ToSet(chi[x]) \subseteq Under(chi, e) BY <1>5, <1>6, <1>7
<1>9. e \in Under(chi, e) BY <1>3, <1>5, Reached
<1>10. ASSUME NEW C, e \in C, \A x \in C : x \in Elements /\ ToSet(chi[x]) \subseteq C
       PROVE  Under(chi, e) \subseteq C
  <2>1. from \subseteq C BY <1>3, <1>10
  <2>2. \A x \in C : next[x] \subseteq C BY <1>6, <1>10
  <2> QED BY <1>5, <2>1, <2>2, Reached
<1> QED BY <1>5, <1>7, <1>8, <1>9, <1>10

\* What is above c is c and what is above its parent.
LEMMA AboveParent ==
    ASSUME NEW par \in Parents, NEW c \in Elements
    PROVE  Above(par, c) = {c} \cup Above(par, par[c])
<1>1. PICK p : p = par[c] OBVIOUS
<1>2. p \in Elements \cup {None} BY <1>1 DEF Parents
<1>3. /\ Above(par, p) \subseteq Elements
      /\ \A x \in Above(par, p) : par[x] # None => par[x] \in Above(par, p)
      /\ p # None => p \in Above(par, p)
  BY <1>2, AboveIs
<1>4. c # None BY ScreenAssumption
<1>5. /\ c \in Above(par, c)
      /\ \A x \in Above(par, c) : x \in Elements /\ (par[x] # None => par[x] \in Above(par, c))
  BY <1>4, AboveIs
<1>6. Above(par, c) \subseteq {c} \cup Above(par, p)
  <2>1. PICK C : C = {c} \cup Above(par, p) OBVIOUS
  <2>2. c \in C /\ \A x \in C : x \in Elements /\ (par[x] # None => par[x] \in C)
    BY <2>1, <1>1, <1>3
  <2>3. Above(par, c) \subseteq C BY <2>2, AboveIs
  <2> QED BY <2>1, <2>3
<1>7. p # None => p \in Above(par, c) BY <1>1, <1>5
<1>8. Above(par, p) \subseteq Above(par, c)
  <2>1. PICK C : C = Above(par, c) OBVIOUS
  <2>2. (p # None => p \in C) /\ \A x \in C : x \in Elements /\ (par[x] # None => par[x] \in C)
    BY <2>1, <1>5, <1>7
  <2>3. Above(par, p) \subseteq C BY <1>2, <2>2, AboveIs
  <2> QED BY <2>1, <2>3
<1> QED BY <1>1, <1>5, <1>6, <1>8

LEMMA AboveNone == ASSUME NEW par \in Parents PROVE Above(par, None) = {}
<1>1. PICK C : C = {} OBVIOUS
<1>2. Above(par, None) \subseteq C BY <1>1, AboveIs
<1> QED BY <1>1, <1>2

\* What is above something has it below.
LEMMA AboveUnder ==
    ASSUME NEW chi, NEW par, TreeIn(chi, par), NEW e \in Elements, NEW a \in Above(par, e)
    PROVE  e \in Under(chi, a) /\ a \in Elements
<1>1. chi \in Trees /\ par \in Parents /\ Kin(chi, par) BY DEF TreeIn
<1>2. PICK C : C = {x \in Elements : e \in Under(chi, x)} OBVIOUS
<1>3. e \in C BY <1>1, <1>2, UnderIs
<1>4. ASSUME NEW x \in C, par[x] # None PROVE par[x] \in C
  <2>1. PICK p : p = par[x] OBVIOUS
  <2>2. p \in Elements /\ x \in ToSet(chi[p]) BY <1>1, <1>2, <1>4, <2>1 DEF Parents, Kin
  <2>3. x \in Under(chi, p) BY <1>1, <2>2, UnderIs
  <2>4. PICK D : D = Under(chi, p) OBVIOUS
  <2>5. x \in D /\ \A y \in D : y \in Elements /\ ToSet(chi[y]) \subseteq D
    BY <1>1, <2>2, <2>3, <2>4, UnderIs
  <2>6. Under(chi, x) \subseteq D BY <1>1, <1>2, <2>5, UnderIs
  <2> QED BY <1>2, <2>1, <2>2, <2>4, <2>6
<1>5. \A x \in C : x \in Elements /\ (par[x] # None => par[x] \in C) BY <1>2, <1>4
<1>6. Above(par, e) \subseteq C BY <1>1, <1>3, <1>5, AboveIs
<1> QED BY <1>2, <1>6

\* A tree that differs in what e is not below leaves what is above e.
LEMMA AboveSame ==
    ASSUME NEW par \in Parents, NEW new \in Parents, NEW e \in Elements \cup {None},
           \A x \in Above(par, e) : new[x] = par[x]
    PROVE  Above(new, e) = Above(par, e)
<1>1. PICK C : C = Above(par, e) OBVIOUS
<1>2. /\ e # None => e \in C
      /\ \A x \in C : x \in Elements /\ (new[x] # None => new[x] \in C)
  BY <1>1, AboveIs
<1>3. Above(new, e) \subseteq C BY <1>2, AboveIs
<1>4. PICK D : D = Above(new, e) OBVIOUS
<1>5. /\ e # None => e \in D
      /\ \A x \in D : x \in Elements /\ (par[x] # None => par[x] \in D)
  <2>1. /\ e # None => e \in D
        /\ \A x \in D : x \in Elements /\ (new[x] # None => new[x] \in D)
    BY <1>4, AboveIs
  <2> QED BY <2>1, <1>1, <1>3, <1>4
<1>6. Above(par, e) \subseteq D BY <1>5, AboveIs
<1> QED BY <1>1, <1>3, <1>4, <1>6

-----------------------------------------------------------------------------
(* The pointers.                                                           *)

AllStates == Pointers \cup Chained \cup {"Keynavi"}
Places == Elements \cup {None}
Uis == [states : [Elements -> SUBSET AllStates], focused : Places, clicked : Places,
        targetted : Places, stale : SUBSET Elements]

\* The states of e are what the pointers of u and the iterator key point at.
PointAt(gave, key, u, e) ==
    /\ e = u.focused => "Focused" \in u.states[e]
    /\ "Focused" \in u.states[e] => e = u.focused \/ e \in gave
    /\ "Clicked" \in u.states[e] => e = u.clicked
    /\ "Hovered" \in u.states[e] => e = u.targetted
    /\ "Keynavi" \in u.states[e] => e = key
ChainAt(par, u, e) ==
    /\ "RcFocus" \in u.states[e] <=> e \in Above(par, u.focused)
    /\ "RcClick" \in u.states[e] <=> e \in Above(par, u.clicked)
    /\ "RcHover" \in u.states[e] <=> e \in Above(par, u.targetted)
Known(par, dead, gave, key, u) ==
    /\ u \in Uis
    /\ \A e \in Elements : /\ PointAt(gave, key, u, e)
                           /\ e \notin u.stale \cup dead => ChainAt(par, u, e)

\* v is u, but for the states of the elements.
But(u, v) == /\ v \in Uis /\ v.focused = u.focused /\ v.clicked = u.clicked
             /\ v.targetted = u.targetted /\ v.stale = u.stale

LEMMA OnIs ==
    ASSUME NEW u \in Uis, NEW p \in Places, NEW s \in AllStates
    PROVE  /\ But(u, On(u, p, s))
           /\ \A e \in Elements : \A t : t \in On(u, p, s).states[e]
                                             <=> t \in u.states[e] \/ (t = s /\ e = p)
<1>1. CASE p = None
  <2>1. On(u, p, s) = u BY <1>1 DEF On
  <2>2. \A e \in Elements : e # p BY <1>1, ScreenAssumption
  <2> QED BY <2>1, <2>2 DEF But
<1>2. CASE p # None
  <2> DEFINE v == On(u, p, s)
             f == [u.states EXCEPT ![p] = u.states[p] \cup {s}]
  <2>1. v = [u EXCEPT !.states = f] BY <1>2 DEF On, Uis
  <2>2. u.states \in [Elements -> SUBSET AllStates] /\ p \in Elements BY <1>2 DEF Uis, Places
  <2>3. f \in [Elements -> SUBSET AllStates] BY <2>2
  <2>4. \A e \in Elements : f[e] = IF e = p THEN u.states[e] \cup {s} ELSE u.states[e] BY <2>2
  <2> HIDE DEF v, f
  <2>5. But(u, v) /\ v.states = f BY <2>1, <2>3 DEF But, Uis
  <2>6. \A e \in Elements : \A t : t \in v.states[e] <=> t \in u.states[e] \/ (t = s /\ e = p)
    BY <2>4, <2>5
  <2> QED BY <2>5, <2>6 DEF v
<1> QED BY <1>1, <1>2

LEMMA OffIs ==
    ASSUME NEW u \in Uis, NEW p \in Places, NEW s \in AllStates
    PROVE  /\ But(u, Off(u, p, s))
           /\ \A e \in Elements : \A t : t \in Off(u, p, s).states[e]
                                             <=> t \in u.states[e] /\ ~ (t = s /\ e = p)
<1>1. CASE p = None
  <2>1. Off(u, p, s) = u BY <1>1 DEF Off
  <2>2. \A e \in Elements : e # p BY <1>1, ScreenAssumption
  <2> QED BY <2>1, <2>2 DEF But
<1>2. CASE p # None
  <2> DEFINE v == Off(u, p, s)
             f == [u.states EXCEPT ![p] = u.states[p] \ {s}]
  <2>1. v = [u EXCEPT !.states = f] BY <1>2 DEF Off, Uis
  <2>2. u.states \in [Elements -> SUBSET AllStates] /\ p \in Elements BY <1>2 DEF Uis, Places
  <2>3. f \in [Elements -> SUBSET AllStates] BY <2>2
  <2>4. \A e \in Elements : f[e] = IF e = p THEN u.states[e] \ {s} ELSE u.states[e] BY <2>2
  <2> HIDE DEF v, f
  <2>5. But(u, v) /\ v.states = f BY <2>1, <2>3 DEF But, Uis
  <2>6. \A e \in Elements : \A t : t \in v.states[e] <=> t \in u.states[e] /\ ~ (t = s /\ e = p)
    BY <2>4, <2>5
  <2> QED BY <2>5, <2>6 DEF v
<1> QED BY <1>1, <1>2

LEMMA RcIs ==
    ASSUME NEW u \in Uis, NEW s \in AllStates, NEW n, NEW o
    PROVE  /\ But(u, Rc(u, s, n, o))
           /\ \A e \in Elements : \A t :
                  t \in Rc(u, s, n, o).states[e]
                      <=> \/ t = s /\ e \in Above(parent, n) /\ e \notin Above(parent, o)
                          \/ /\ t \in u.states[e]
                             /\ ~ (t = s /\ e \in Above(parent, o) /\ e \notin Above(parent, n))
<1>1. PICK a, b : a = Above(parent, n) /\ b = Above(parent, o) OBVIOUS
<1> DEFINE v == Rc(u, s, n, o)
           f == [e \in Elements |-> CASE e \in a \ b -> u.states[e] \cup {s}
                                      [] e \in b \ a -> u.states[e] \ {s}
                                      [] OTHER -> u.states[e]]
<1>2. v = [u EXCEPT !.states = f] BY <1>1, UpIs DEF Rc
<1>3. u.states \in [Elements -> SUBSET AllStates] BY DEF Uis
<1>4. \A e \in Elements : /\ e \in a \ b => f[e] = u.states[e] \cup {s}
                          /\ e \in b \ a => f[e] = u.states[e] \ {s}
                          /\ e \notin a \ b /\ e \notin b \ a => f[e] = u.states[e]
  OBVIOUS
<1>5. f \in [Elements -> SUBSET AllStates]
  <2>1. \A e \in Elements : f[e] \in SUBSET AllStates BY <1>3, <1>4
  <2>2. f = [e \in Elements |-> f[e]] OBVIOUS
  <2> HIDE DEF f
  <2> QED BY <2>1, <2>2
<1> HIDE DEF v, f
<1>6. But(u, v) /\ v.states = f BY <1>2, <1>5 DEF But, Uis
<1>7. \A e \in Elements : \A t :
          t \in v.states[e] <=> \/ t = s /\ e \in a /\ e \notin b
                                \/ t \in u.states[e] /\ ~ (t = s /\ e \in b /\ e \notin a)
  BY <1>4, <1>6
<1> QED BY <1>1, <1>6, <1>7 DEF v

KnownNow(key, u) == Known(parent, gone, left, key, u)

\* v is u with its mouse pointers.
Clicks(u, v) == v.clicked = u.clicked
Mice(u, v) == v.clicked = u.clicked /\ v.targetted = u.targetted

LEMMA HoverKnown ==
    ASSUME NEW key, NEW u, KnownNow(key, u), NEW t \in Places
    PROVE  KnownNow(key, Hover(u, t)) /\ Clicks(u, Hover(u, t))
<1>1. CASE t = u.targetted BY <1>1 DEF Hover, Clicks
<1>2. CASE t # u.targetted
  <2>1. PICK o : o = u.targetted OBVIOUS
  <2>2. u \in Uis /\ o \in Places BY <2>1 DEF KnownNow, Known, Uis
  <2>3. PICK w : w = [u EXCEPT !.targetted = t] OBVIOUS
  <2>4. /\ w \in Uis /\ w.states = u.states /\ w.focused = u.focused /\ w.clicked = u.clicked
        /\ w.targetted = t /\ w.stale = u.stale
    BY <2>2, <2>3 DEF Uis
  <2>5. "Hovered" \in AllStates /\ "RcHover" \in AllStates BY DEF AllStates, Pointers, Chained
  <2>6. PICK x : x = Off(w, o, "Hovered") OBVIOUS
  <2>7. /\ But(w, x)
        /\ \A e \in Elements : \A s : s \in x.states[e]
                                          <=> s \in w.states[e] /\ ~ (s = "Hovered" /\ e = o)
    BY <2>2, <2>4, <2>5, <2>6, OffIs
  <2>8. PICK y : y = On(x, t, "Hovered") OBVIOUS
  <2>9. /\ But(x, y)
        /\ \A e \in Elements : \A s : s \in y.states[e]
                                          <=> s \in x.states[e] \/ (s = "Hovered" /\ e = t)
    <3>1. x \in Uis BY <2>7 DEF But
    <3> QED BY <2>5, <2>8, <3>1, OnIs
  <2>10. PICK z : z = Rc(y, "RcHover", t, o) OBVIOUS
  <2>11. PICK a, b : a = Above(parent, t) /\ b = Above(parent, o) OBVIOUS
  <2>12. /\ But(y, z)
         /\ \A e \in Elements : \A s :
                s \in z.states[e] <=> \/ s = "RcHover" /\ e \in a /\ e \notin b
                                      \/ s \in y.states[e] /\ ~ (s = "RcHover" /\ e \in b /\ e \notin a)
    <3>1. y \in Uis BY <2>9 DEF But
    <3> QED BY <2>5, <2>10, <2>11, <3>1, RcIs
  <2>13. Hover(u, t) = z BY <1>2, <2>1, <2>3, <2>6, <2>8, <2>10 DEF Hover
  <2>14. /\ z \in Uis /\ z.focused = u.focused /\ z.clicked = u.clicked /\ z.targetted = t
         /\ z.stale = u.stale
    BY <2>4, <2>7, <2>9, <2>12 DEF But
  <2>15. ASSUME NEW e \in Elements PROVE PointAt(left, key, z, e)
    <3>1. PointAt(left, key, u, e) BY DEF KnownNow, Known
    <3>2. \A s : s \in z.states[e] /\ s # "RcHover"
                     <=> s # "RcHover" /\ ((s \in u.states[e] /\ ~ (s = "Hovered" /\ e = o))
                                           \/ (s = "Hovered" /\ e = t))
      BY <2>4, <2>7, <2>9, <2>12
    <3> QED BY <2>1, <2>14, <3>1, <3>2 DEF PointAt
  <2>16. ASSUME NEW e \in Elements, e \notin z.stale \cup gone PROVE ChainAt(parent, z, e)
    <3>1. ChainAt(parent, u, e) BY <2>14, <2>16 DEF KnownNow, Known
    <3>2. \A s : s # "Hovered" => (s \in y.states[e] <=> s \in u.states[e]) BY <2>4, <2>7, <2>9
    <3>3. \A s : s \notin {"Hovered", "RcHover"} => (s \in z.states[e] <=> s \in u.states[e])
      BY <2>12, <3>2
    <3>4. "RcHover" \in z.states[e] <=> e \in a BY <2>1, <2>11, <2>12, <3>1, <3>2 DEF ChainAt
    <3> QED BY <2>11, <2>14, <3>1, <3>3, <3>4 DEF ChainAt
  <2> QED BY <2>13, <2>14, <2>15, <2>16 DEF KnownNow, Known, Clicks
<1> QED BY <1>1, <1>2

\* clicked goes to t, and the states with it.
Clicked(u, t, w, x, y, z) ==
    /\ w = [u EXCEPT !.clicked = t] /\ x = Off(w, u.clicked, "Clicked")
    /\ y = On(x, t, "Clicked") /\ z = Rc(y, "RcClick", t, u.clicked)

LEMMA ClickTo ==
    ASSUME NEW key, NEW u, KnownNow(key, u), NEW t \in Places, NEW w, NEW x, NEW y, NEW z,
           Clicked(u, t, w, x, y, z)
    PROVE  KnownNow(key, z) /\ z.clicked = t
<1>1. PICK o : o = u.clicked OBVIOUS
<1>2. u \in Uis /\ o \in Places BY <1>1 DEF KnownNow, Known, Uis
<1>4. /\ w \in Uis /\ w.states = u.states /\ w.focused = u.focused /\ w.targetted = u.targetted
      /\ w.clicked = t /\ w.stale = u.stale
  BY <1>2 DEF Uis, Clicked
<1>5. "Clicked" \in AllStates /\ "RcClick" \in AllStates BY DEF AllStates, Pointers, Chained
<1>7. /\ But(w, x)
      /\ \A e \in Elements : \A s : s \in x.states[e]
                                        <=> s \in w.states[e] /\ ~ (s = "Clicked" /\ e = o)
  <2>1. x = Off(w, o, "Clicked") BY <1>1 DEF Clicked
  <2> QED BY <1>2, <1>4, <1>5, <2>1, OffIs
<1>9. /\ But(x, y)
      /\ \A e \in Elements : \A s : s \in y.states[e]
                                        <=> s \in x.states[e] \/ (s = "Clicked" /\ e = t)
  <2>1. x \in Uis /\ y = On(x, t, "Clicked") BY <1>7 DEF But, Clicked
  <2> QED BY <1>5, <2>1, OnIs
<1>11. PICK a, b : a = Above(parent, t) /\ b = Above(parent, o) OBVIOUS
<1>12. /\ But(y, z)
       /\ \A e \in Elements : \A s :
              s \in z.states[e] <=> \/ s = "RcClick" /\ e \in a /\ e \notin b
                                    \/ s \in y.states[e] /\ ~ (s = "RcClick" /\ e \in b /\ e \notin a)
  <2>1. y \in Uis /\ z = Rc(y, "RcClick", t, o) BY <1>1, <1>9 DEF But, Clicked
  <2> QED BY <1>5, <1>11, <2>1, RcIs
<1>14. /\ z \in Uis /\ z.focused = u.focused /\ z.targetted = u.targetted /\ z.clicked = t
       /\ z.stale = u.stale
  BY <1>4, <1>7, <1>9, <1>12 DEF But
<1>15. ASSUME NEW e \in Elements PROVE PointAt(left, key, z, e)
  <2>1. PointAt(left, key, u, e) BY DEF KnownNow, Known
  <2>2. \A s : s \in z.states[e] /\ s # "RcClick"
                   <=> s # "RcClick" /\ ((s \in u.states[e] /\ ~ (s = "Clicked" /\ e = o))
                                         \/ (s = "Clicked" /\ e = t))
    BY <1>4, <1>7, <1>9, <1>12
  <2> QED BY <1>1, <1>14, <2>1, <2>2 DEF PointAt
<1>16. ASSUME NEW e \in Elements, e \notin z.stale \cup gone PROVE ChainAt(parent, z, e)
  <2>1. ChainAt(parent, u, e) BY <1>14, <1>16 DEF KnownNow, Known
  <2>2. \A s : s # "Clicked" => (s \in y.states[e] <=> s \in u.states[e]) BY <1>4, <1>7, <1>9
  <2>3. \A s : s \notin {"Clicked", "RcClick"} => (s \in z.states[e] <=> s \in u.states[e])
    BY <1>12, <2>2
  <2>4. "RcClick" \in z.states[e] <=> e \in a BY <1>1, <1>11, <1>12, <2>1, <2>2 DEF ChainAt
  <2> QED BY <1>11, <1>14, <2>1, <2>3, <2>4 DEF ChainAt
<1> QED BY <1>14, <1>15, <1>16 DEF KnownNow, Known

LEMMA ClickKnown ==
    ASSUME NEW key, NEW u, KnownNow(key, u), NEW t \in Places
    PROVE  KnownNow(key, Click(u, t)) /\ Click(u, t).clicked = t
<1>1. CASE t # u.clicked
  <2>1. PICK w : w = [u EXCEPT !.clicked = t] OBVIOUS
  <2>2. PICK x : x = Off(w, u.clicked, "Clicked") OBVIOUS
  <2>3. PICK y : y = On(x, t, "Clicked") OBVIOUS
  <2>4. PICK z : z = Rc(y, "RcClick", t, u.clicked) OBVIOUS
  <2>5. Click(u, t) = z BY <1>1, <2>1, <2>2, <2>3, <2>4 DEF Click
  <2>6. Clicked(u, t, w, x, y, z) BY <2>1, <2>2, <2>3, <2>4 DEF Clicked
  <2> QED BY <2>5, <2>6, ClickTo
<1>2. CASE t = u.clicked
  <2>1. u \in Uis BY DEF KnownNow, Known
  <2>2. "Clicked" \in AllStates BY DEF AllStates, Pointers
  <2>3. PICK z : z = Click(u, t) OBVIOUS
  <2>4. /\ But(u, z)
        /\ \A e \in Elements : \A s : s \in z.states[e]
                                          <=> s \in u.states[e] \/ (s = "Clicked" /\ e = t)
    BY <1>2, <2>1, <2>2, <2>3, OnIs DEF Click
  <2>5. ASSUME NEW e \in Elements PROVE PointAt(left, key, z, e)
    <3>1. PointAt(left, key, u, e) BY DEF KnownNow, Known
    <3> QED BY <1>2, <2>4, <3>1 DEF PointAt, But
  <2>6. ASSUME NEW e \in Elements, e \notin z.stale \cup gone PROVE ChainAt(parent, z, e)
    <3>1. ChainAt(parent, u, e) BY <2>4, <2>6 DEF KnownNow, Known, But
    <3> QED BY <2>4, <3>1 DEF ChainAt, But
  <2> QED BY <1>2, <2>3, <2>4, <2>5, <2>6 DEF KnownNow, Known, But
<1> QED BY <1>1, <1>2

LEMMA ReleaseKnown ==
    ASSUME NEW key, NEW u, KnownNow(key, u)
    PROVE  KnownNow(key, Release(u)) /\ Release(u).clicked = None
<1>1. PICK t : t = None OBVIOUS
<1>2. t \in Places BY <1>1 DEF Places
<1>3. PICK w : w = [u EXCEPT !.clicked = t] OBVIOUS
<1>4. PICK x : x = Off(w, u.clicked, "Clicked") OBVIOUS
<1>5. PICK y : y = On(x, t, "Clicked") OBVIOUS
<1>6. PICK z : z = Rc(y, "RcClick", t, u.clicked) OBVIOUS
<1>7. y = x BY <1>1, <1>5 DEF On
<1>8. Release(u) = z BY <1>1, <1>3, <1>4, <1>6, <1>7 DEF Release
<1>9. Clicked(u, t, w, x, y, z) BY <1>3, <1>4, <1>5, <1>6 DEF Clicked
<1> QED BY <1>1, <1>2, <1>8, <1>9, ClickTo

-----------------------------------------------------------------------------
(* The focus, and the callbacks that give it on.                           *)

\* v is u after focus of p, but for what is above.
Gained(u, v, p) ==
    /\ v \in Uis /\ v.focused = p /\ v.clicked = u.clicked /\ v.targetted = u.targetted
    /\ v.stale = u.stale
    /\ \A e \in Elements : \A t \in Chained : t \in v.states[e] <=> t \in u.states[e]

LEMMA GainIs ==
    ASSUME NEW key, NEW u \in Uis, NEW p \in Places, \A e \in Elements : PointAt(left, key, u, e)
    PROVE  /\ Gained(u, Gain(u, p), p)
           /\ \A e \in Elements : PointAt(left, key, Gain(u, p), e)
<1>1. PICK o : o = u.focused OBVIOUS
<1>2. o \in Places BY <1>1 DEF Uis
<1>3. PICK v : v = IF o = None THEN u ELSE [u EXCEPT !.states[o] = @ \ Pointers] OBVIOUS
<1>4. /\ But(u, v)
      /\ \A e \in Elements : \A t : t \in v.states[e]
                                        <=> t \in u.states[e] /\ ~ (t \in Pointers /\ e = o)
  <2>1. CASE o = None
    <3>1. v = u BY <1>3, <2>1
    <3>2. \A e \in Elements : e # o BY <2>1, ScreenAssumption
    <3> QED BY <3>1, <3>2 DEF But
  <2>2. CASE o # None
    <3> DEFINE f == [u.states EXCEPT ![o] = u.states[o] \ Pointers]
    <3>1. v = [u EXCEPT !.states = f] BY <1>3, <2>2 DEF Uis
    <3>2. u.states \in [Elements -> SUBSET AllStates] /\ o \in Elements
      BY <1>2, <2>2 DEF Uis, Places
    <3>3. f \in [Elements -> SUBSET AllStates] BY <3>2
    <3>4. \A e \in Elements : f[e] = IF e = o THEN u.states[e] \ Pointers ELSE u.states[e] BY <3>2
    <3> HIDE DEF f
    <3>5. But(u, v) /\ v.states = f BY <3>1, <3>3 DEF But, Uis
    <3> QED BY <3>4, <3>5
  <2> QED BY <2>1, <2>2
<1>5. PICK w : w = [v EXCEPT !.focused = p] OBVIOUS
<1>6. /\ w \in Uis /\ w.states = v.states /\ w.focused = p /\ w.clicked = u.clicked
      /\ w.targetted = u.targetted /\ w.stale = u.stale
  BY <1>4, <1>5 DEF Uis, But
<1>7. PICK x : x = On(w, p, "Focused") OBVIOUS
<1>8. "Focused" \in AllStates /\ "Focused" \in Pointers BY DEF AllStates, Pointers
<1>9. /\ But(w, x)
      /\ \A e \in Elements : \A t : t \in x.states[e]
                                        <=> t \in w.states[e] \/ (t = "Focused" /\ e = p)
  BY <1>6, <1>7, <1>8, OnIs
<1>10. Gain(u, p) = x BY <1>1, <1>3, <1>5, <1>7 DEF Gain
<1>11. \A e \in Elements : \A t :
           t \in x.states[e] <=> \/ t \in u.states[e] /\ ~ (t \in Pointers /\ e = o)
                                 \/ t = "Focused" /\ e = p
  BY <1>4, <1>6, <1>9
<1>12. /\ x \in Uis /\ x.focused = p /\ x.clicked = u.clicked /\ x.targetted = u.targetted
       /\ x.stale = u.stale
  BY <1>6, <1>9 DEF But
<1>13. Gained(u, x, p)
  <2>1. \A t \in Chained : t \notin Pointers /\ t # "Focused" BY DEF Chained, Pointers
  <2> QED BY <1>11, <1>12, <2>1 DEF Gained
<1>14. ASSUME NEW e \in Elements PROVE PointAt(left, key, x, e)
  <2>1. PointAt(left, key, u, e) OBVIOUS
  <2>2. "Keynavi" # "Focused" /\ "Clicked" # "Focused" /\ "Hovered" # "Focused" OBVIOUS
  <2> QED BY <1>1, <1>8, <1>11, <1>12, <2>1, <2>2 DEF PointAt
<1> QED BY <1>10, <1>13, <1>14

GainRun(n, u, next, p, f) ==
    f = [i \in 0..n |-> IF i = 0 THEN u ELSE Gain(f[i - 1], Steps(next, p, i - 1))]

LEMMA GainedExists == \A u, next, p : \A n \in Nat : \E f : GainRun(n, u, next, p, f)
<1> TAKE u, next, p
<1> DEFINE T == {n \in Nat : \E f : GainRun(n, u, next, p, f)}
<1>1. 0 \in T
  <2>1. GainRun(0, u, next, p, [i \in 0..0 |-> u]) BY DEF GainRun
  <2> QED BY <2>1
<1>2. ASSUME NEW n \in Nat, n \in T PROVE n + 1 \in T
  <2>1. PICK f : GainRun(n, u, next, p, f) BY <1>2
  <2>2. PICK last : last = Gain(f[n], Steps(next, p, (n + 1) - 1)) OBVIOUS
  <2>3. PICK g : Longer(g, n, f, last) BY Extended
  <2>4. /\ g = [i \in 0..(n + 1) |-> g[i]] /\ g[n + 1] = last
        /\ \A i \in 0..n : g[i] = f[i]
    BY <2>3 DEF Longer
  <2>5. ASSUME NEW i \in 0..(n + 1)
        PROVE  g[i] = IF i = 0 THEN u ELSE Gain(g[i - 1], Steps(next, p, i - 1))
    <3>1. CASE i = n + 1
      <4>1. n \in 0..n /\ i # 0 /\ i - 1 = n BY <3>1
      <4>2. g[n] = f[n] BY <2>4, <4>1
      <4> QED BY <2>2, <2>4, <3>1, <4>1, <4>2
    <3>2. CASE i # n + 1
      <4>1. i \in 0..n /\ (i # 0 => i - 1 \in 0..n) BY <3>2
      <4>2. f[i] = IF i = 0 THEN u ELSE Gain(f[i - 1], Steps(next, p, i - 1))
        BY <2>1, <4>1 DEF GainRun
      <4> QED BY <2>4, <4>1, <4>2
    <3> QED BY <3>1, <3>2
  <2>6. GainRun(n + 1, u, next, p, g) BY <2>4, <2>5 DEF GainRun
  <2> QED BY <2>6
<1>3. Nat \subseteq T
  <2> HIDE DEF T
  <2> QED BY <1>1, <1>2, Induction
<1> QED BY <1>3

BackRun(n, m, gained, next, p, f) ==
    f = [i \in 0..n |-> IF i = 0 THEN gained[m] ELSE Rc(f[i - 1], "RcFocus", Steps(next, p, m - i), gained[m - i].focused)]

LEMMA BackExists == \A m, gained, next, p : \A n \in Nat : \E f : BackRun(n, m, gained, next, p, f)
<1> TAKE m, gained, next, p
<1> DEFINE T == {n \in Nat : \E f : BackRun(n, m, gained, next, p, f)}
<1>1. 0 \in T
  <2>1. BackRun(0, m, gained, next, p, [i \in 0..0 |-> gained[m]]) BY DEF BackRun
  <2> QED BY <2>1
<1>2. ASSUME NEW n \in Nat, n \in T PROVE n + 1 \in T
  <2>1. PICK f : BackRun(n, m, gained, next, p, f) BY <1>2
  <2>2. PICK last : last = Rc(f[n], "RcFocus", Steps(next, p, m - (n + 1)), gained[m - (n + 1)].focused) OBVIOUS
  <2>3. PICK g : Longer(g, n, f, last) BY Extended
  <2>4. /\ g = [i \in 0..(n + 1) |-> g[i]] /\ g[n + 1] = last
        /\ \A i \in 0..n : g[i] = f[i]
    BY <2>3 DEF Longer
  <2>5. ASSUME NEW i \in 0..(n + 1)
        PROVE  g[i] = IF i = 0 THEN gained[m] ELSE Rc(g[i - 1], "RcFocus", Steps(next, p, m - i), gained[m - i].focused)
    <3>1. CASE i = n + 1
      <4>1. n \in 0..n /\ i # 0 /\ i - 1 = n BY <3>1
      <4>2. g[n] = f[n] BY <2>4, <4>1
      <4> QED BY <2>2, <2>4, <3>1, <4>1, <4>2
    <3>2. CASE i # n + 1
      <4>1. i \in 0..n /\ (i # 0 => i - 1 \in 0..n) BY <3>2
      <4>2. f[i] = IF i = 0 THEN gained[m] ELSE Rc(f[i - 1], "RcFocus", Steps(next, p, m - i), gained[m - i].focused)
        BY <2>1, <4>1 DEF BackRun
      <4> QED BY <2>4, <4>1, <4>2
    <3> QED BY <3>1, <3>2
  <2>6. BackRun(n + 1, m, gained, next, p, g) BY <2>4, <2>5 DEF BackRun
  <2> QED BY <2>6
<1>3. Nat \subseteq T
  <2> HIDE DEF T
  <2> QED BY <1>1, <1>2, Induction
<1> QED BY <1>3

HeirIn == [x \in Places |-> IF Heir(x) = {} THEN x ELSE Delegate[x]]

LEMMA HeirIs ==
    ASSUME parent \in Parents
    PROVE  \A x \in Places : /\ HeirIn[x] \in Places
                             /\ Above(parent, x) \subseteq Above(parent, HeirIn[x])
<1>1. TAKE x \in Places
<1>2. CASE Heir(x) = {} BY <1>2 DEF HeirIn
<1>3. CASE Heir(x) # {}
  <2>1. PICK d : d = Delegate[x] OBVIOUS
  <2>2. x # None /\ d # None /\ parent[d] = x /\ HeirIn[x] = d BY <1>3, <2>1 DEF Heir, HeirIn
  <2>3. d \in Elements BY <2>1, <2>2, <1>1, ScreenAssumption DEF Places
  <2>4. Above(parent, d) = {d} \cup Above(parent, x) BY <2>2, <2>3, AboveParent
  <2> QED BY <2>2, <2>3, <2>4 DEF Places
<1> QED BY <1>2, <1>3

HeirsOf(p) == Cardinality(Reach({p}, [x \in Elements \cup {None} |-> Heir(x)]))

\* How many calls are inside each other.
LEMMA HeirsCount ==
    ASSUME NEW p \in Places
    PROVE  HeirsOf(p) \in Nat /\ HeirsOf(p) # 0
<1>1. PICK next : next = [x \in Elements \cup {None} |-> Heir(x)] OBVIOUS
<1>2. PICK from : from = {p} OBVIOUS
<1>3. PICK C : C = Places OBVIOUS
<1>4. \A x \in C : next[x] \subseteq C
  BY <1>1, <1>3, ScreenAssumption DEF Heir, Places
<1>5. from \subseteq C BY <1>2, <1>3
<1>6. Reach(from, next) \subseteq C /\ from \subseteq Reach(from, next) BY <1>4, <1>5, Reached
<1>7. IsFiniteSet(C) BY <1>3, ScreenAssumption, FS_AddElement DEF Places
<1>8. PICK S : S = Reach(from, next) OBVIOUS
<1>9. S \in SUBSET C /\ p \in S BY <1>2, <1>6, <1>8
<1>10. IsFiniteSet(S) BY <1>7, <1>9, FS_Subset
<1>11. Cardinality(S) \in Nat /\ Cardinality(S) # 0 BY <1>9, <1>10, FS_CardinalityType, FS_EmptySet
<1> QED BY <1>1, <1>2, <1>8, <1>11 DEF HeirsOf

GainsOf(u, p) == CHOOSE f : GainRun(HeirsOf(p), u, HeirIn, p, f)
BacksOf(u, p) == CHOOSE f : BackRun(HeirsOf(p), HeirsOf(p), GainsOf(u, p), HeirIn, p, f)

LEMMA FocusIs ==
    ASSUME NEW u, NEW p
    PROVE  Focus(u, p) =
               IF p = u.focused THEN u
               ELSE [BacksOf(u, p)[HeirsOf(p)] EXCEPT !.stale = @ \cup
                        ((Up(u.focused) \ Up(p)) \cap Up(Steps(HeirIn, p, HeirsOf(p) - 1)))]
BY DEF Focus, BacksOf, GainsOf, HeirsOf, GainRun, BackRun, HeirIn, Places

LEMMA GainsWork ==
    ASSUME parent \in Parents, NEW key, NEW u, KnownNow(key, u), NEW p \in Places,
           NEW n \in Nat, n = HeirsOf(p), NEW g, g = GainsOf(u, p), NEW i \in 0..n
    PROVE  /\ Gained(u, g[i], IF i = 0 THEN u.focused ELSE Steps(HeirIn, p, i - 1))
           /\ \A e \in Elements : PointAt(left, key, g[i], e)
<1>1. u \in Uis /\ \A e \in Elements : PointAt(left, key, u, e) BY DEF KnownNow, Known
<1>2. GainRun(n, u, HeirIn, p, g) BY GainedExists DEF GainsOf
<1>3. g[0] = u /\ \A j \in 1..n : g[j] = Gain(g[j - 1], Steps(HeirIn, p, j - 1))
  BY <1>2 DEF GainRun
<1> DEFINE Given(j) == IF j = 0 THEN u.focused ELSE Steps(HeirIn, p, j - 1)
           T == {j \in Nat : j <= n => /\ Gained(u, g[j], Given(j))
                                       /\ \A e \in Elements : PointAt(left, key, g[j], e)}
<1>4. 0 \in T BY <1>1, <1>3 DEF Gained
<1>5. ASSUME NEW j \in Nat, j \in T PROVE j + 1 \in T
  <2>1. SUFFICES ASSUME j + 1 <= n
                 PROVE  /\ Gained(u, g[j + 1], Given(j + 1))
                        /\ \A e \in Elements : PointAt(left, key, g[j + 1], e)
    OBVIOUS
  <2>2. Gained(u, g[j], Given(j)) /\ \A e \in Elements : PointAt(left, key, g[j], e) BY <1>5, <2>1
  <2>3. PICK q : q = Steps(HeirIn, p, j) OBVIOUS
  <2>4. q \in Places
    <3>1. parent \in Parents => \A x \in Places : HeirIn[x] \in Places BY HeirIs
    <3> QED BY <2>3, <3>1, StepsIn
  <2>5. PICK v, w : v = g[j] /\ w = g[j + 1] OBVIOUS
  <2>6. w = Gain(v, q) /\ Given(j + 1) = q
    <3>1. j + 1 \in 1..n /\ (j + 1) - 1 = j /\ j + 1 # 0 BY <2>1
    <3>2. g[j + 1] = Gain(g[(j + 1) - 1], Steps(HeirIn, p, (j + 1) - 1)) BY <1>3, <3>1
    <3> QED BY <2>3, <2>5, <3>1, <3>2
  <2>7. v \in Uis /\ \A e \in Elements : PointAt(left, key, v, e) BY <2>2, <2>5 DEF Gained
  <2>8. Gained(v, w, q) /\ \A e \in Elements : PointAt(left, key, w, e)
    BY <2>4, <2>6, <2>7, GainIs
  <2>9. Gained(u, w, q)
    <3>1. Gained(u, v, Given(j)) BY <2>2, <2>5
    <3> HIDE DEF Given
    <3> QED BY <2>8, <3>1 DEF Gained
  <2> HIDE DEF Given
  <2> QED BY <2>5, <2>6, <2>8, <2>9
<1>6. Nat \subseteq T
  <2> HIDE DEF T
  <2> QED BY <1>4, <1>5, Induction
<1>7. i \in Nat /\ i <= n OBVIOUS
<1> QED BY <1>6, <1>7

\* v is back[i] of u, when the last call was for the i-th but m.
Back(u, v, w, m, i, p) ==
    /\ But(w, v)
    /\ \A e \in Elements : \A t : t # "RcFocus" => (t \in v.states[e] <=> t \in w.states[e])
    /\ Above(parent, Steps(HeirIn, p, m - i)) \subseteq Above(parent, Steps(HeirIn, p, m))
    /\ \A e \in Elements :
           "RcFocus" \in v.states[e] <=> \/ "RcFocus" \in u.states[e]
                                         \/ /\ e \in Above(parent, Steps(HeirIn, p, m))
                                            /\ e \notin Above(parent, Steps(HeirIn, p, m - i))

LEMMA BacksWork ==
    ASSUME parent \in Parents, NEW key, NEW u, KnownNow(key, u), NEW p \in Places,
           NEW n \in Nat, n = HeirsOf(p), NEW g, g = GainsOf(u, p), NEW b, b = BacksOf(u, p),
           NEW m \in Nat, m + 1 = n
    PROVE  Back(u, b[m], g[n], m, m, p) /\ b[n] = Rc(b[m], "RcFocus", p, u.focused)
<1>1. BackRun(n, n, g, HeirIn, p, b) BY BackExists DEF BacksOf
<1>2. /\ b[0] = g[n]
      /\ \A j \in 1..n : b[j] = Rc(b[j - 1], "RcFocus", Steps(HeirIn, p, n - j), g[n - j].focused)
  BY <1>1 DEF BackRun
<1>3. "RcFocus" \in AllStates /\ "RcFocus" \in Chained BY DEF AllStates, Chained
<1>4. PICK w : w = g[n] OBVIOUS
<1>5. Gained(u, w, Steps(HeirIn, p, m))
  <2>1. n \in 0..n /\ n # 0 /\ n - 1 = m OBVIOUS
  <2>2. Gained(u, g[n], IF n = 0 THEN u.focused ELSE Steps(HeirIn, p, n - 1))
    BY <2>1, GainsWork
  <2> QED BY <1>4, <2>1, <2>2
<1>6. \A x \in Places : HeirIn[x] \in Places /\ Above(parent, x) \subseteq Above(parent, HeirIn[x])
  BY HeirIs
<1> DEFINE T == {j \in Nat : j <= m => Back(u, b[j], w, m, j, p)}
<1>7. 0 \in T
  <2>1. b[0] = w /\ m - 0 = m BY <1>2, <1>4
  <2>2. \A e \in Elements : "RcFocus" \in w.states[e] <=> "RcFocus" \in u.states[e]
    BY <1>3, <1>5 DEF Gained
  <2>3. But(w, w) BY <1>5 DEF But, Gained
  <2>4. Back(u, w, w, m, 0, p) BY <2>1, <2>2, <2>3 DEF Back
  <2> QED BY <2>1, <2>4
<1>8. ASSUME NEW j \in Nat, j \in T PROVE j + 1 \in T
  <2>1. SUFFICES ASSUME j + 1 <= m PROVE Back(u, b[j + 1], w, m, j + 1, p) OBVIOUS
  <2>2. PICK v, x : v = b[j] /\ x = b[j + 1] OBVIOUS
  <2>3. Back(u, v, w, m, j, p) BY <1>8, <2>1, <2>2
  <2>4. PICK k \in Nat : k = m - (j + 1)
    <3>1. m - (j + 1) \in Nat BY <2>1
    <3> QED BY <3>1
  <2>5. /\ k + 1 = m - j /\ n - (j + 1) = k + 1 /\ k + 1 \in 0..n /\ k + 1 # 0
        /\ (k + 1) - 1 = k /\ j + 1 \in 1..n /\ (j + 1) - 1 = j
    BY <2>1, <2>4
  <2>6. PICK q, r, z : q = Steps(HeirIn, p, k) /\ r = Steps(HeirIn, p, k + 1)
                       /\ z = Steps(HeirIn, p, m)
    OBVIOUS
  <2>7. q \in Places /\ r = HeirIn[q] BY <1>6, <2>6, StepsIn, StepMore
  <2>8. g[k + 1].focused = q
    <3>1. Gained(u, g[k + 1], IF k + 1 = 0 THEN u.focused ELSE Steps(HeirIn, p, (k + 1) - 1))
      BY <2>5, GainsWork
    <3>2. Gained(u, g[k + 1], q) BY <2>5, <2>6, <3>1
    <3> QED BY <3>2 DEF Gained
  <2>9. x = Rc(v, "RcFocus", r, q)
    <3>1. b[j + 1] = Rc(b[(j + 1) - 1], "RcFocus", Steps(HeirIn, p, n - (j + 1)), g[n - (j + 1)].focused)
      BY <1>2, <2>5
    <3> QED BY <2>2, <2>5, <2>6, <2>8, <3>1
  <2>10. PICK A, B, C : A = Above(parent, q) /\ B = Above(parent, r) /\ C = Above(parent, z)
    OBVIOUS
  <2>11. A \subseteq B BY <1>6, <2>7, <2>10
  <2>12. /\ But(w, v) /\ B \subseteq C
         /\ \A e \in Elements : \A t : t # "RcFocus" => (t \in v.states[e] <=> t \in w.states[e])
         /\ \A e \in Elements :
                "RcFocus" \in v.states[e] <=> "RcFocus" \in u.states[e] \/ (e \in C /\ e \notin B)
    <3>1. Steps(HeirIn, p, m - j) = r BY <2>5, <2>6
    <3> QED BY <2>3, <2>6, <2>10, <3>1 DEF Back
  <2>13. /\ But(v, x)
         /\ \A e \in Elements : \A t :
                t \in x.states[e] <=> \/ t = "RcFocus" /\ e \in B /\ e \notin A
                                      \/ t \in v.states[e] /\ ~ (t = "RcFocus" /\ e \in A /\ e \notin B)
    <3>1. v \in Uis BY <2>12 DEF But
    <3> QED BY <1>3, <2>9, <2>10, <3>1, RcIs
  <2>14. /\ But(w, x) /\ A \subseteq C
         /\ \A e \in Elements : \A t : t # "RcFocus" => (t \in x.states[e] <=> t \in w.states[e])
    BY <2>11, <2>12, <2>13 DEF But
  <2>15. \A e \in Elements :
             "RcFocus" \in x.states[e] <=> "RcFocus" \in u.states[e] \/ (e \in C /\ e \notin A)
    BY <2>11, <2>12, <2>13
  <2>16. Steps(HeirIn, p, m - (j + 1)) = q BY <2>4, <2>6
  <2>17. Back(u, x, w, m, j + 1, p) BY <2>6, <2>10, <2>14, <2>15, <2>16 DEF Back
  <2> QED BY <2>2, <2>17
<1>9. Nat \subseteq T
  <2> HIDE DEF T
  <2> QED BY <1>7, <1>8, Induction
<1>10. Back(u, b[m], w, m, m, p) BY <1>9
<1>11. b[n] = Rc(b[m], "RcFocus", p, u.focused)
  <2>1. n \in 1..n /\ n - 1 = m /\ n - n = 0 /\ 0 \in 0..n /\ 0 \in Nat OBVIOUS
  <2>2. b[n] = Rc(b[n - 1], "RcFocus", Steps(HeirIn, p, n - n), g[n - n].focused) BY <1>2, <2>1
  <2>3. Steps(HeirIn, p, 0) = p BY <2>1, StepMore
  <2>4. Gained(u, g[0], IF 0 = 0 THEN u.focused ELSE Steps(HeirIn, p, 0 - 1)) BY <2>1, GainsWork
  <2>5. g[0].focused = u.focused BY <2>4 DEF Gained
  <2> QED BY <2>1, <2>2, <2>3, <2>5
<1> QED BY <1>4, <1>10, <1>11

\* Whatever the callbacks do, states and pointers agree when focus() has returned.
LEMMA FocusKnown ==
    ASSUME parent \in Parents, NEW key, NEW u, KnownNow(key, u), NEW p \in Places
    PROVE  KnownNow(key, Focus(u, p)) /\ Mice(u, Focus(u, p))
<1>1. CASE p = u.focused
  <2>1. Focus(u, p) = u BY <1>1, FocusIs
  <2> QED BY <2>1 DEF Mice
<1>2. CASE p # u.focused
  <2>1. PICK n \in Nat : n = HeirsOf(p) /\ n # 0 BY HeirsCount
  <2>2. PICK m \in Nat : m + 1 = n /\ m = n - 1
    <3>1. n - 1 \in Nat /\ (n - 1) + 1 = n BY <2>1
    <3> QED BY <3>1
  <2>3. PICK g, b : g = GainsOf(u, p) /\ b = BacksOf(u, p) OBVIOUS
  <2>4. PICK v, w, x : v = b[m] /\ w = g[n] /\ x = b[n] OBVIOUS
  <2>5. PICK z, o : z = Steps(HeirIn, p, m) /\ o = u.focused OBVIOUS
  <2>6. Back(u, v, w, m, m, p) /\ x = Rc(v, "RcFocus", p, o)
    BY <2>1, <2>2, <2>3, <2>4, <2>5, BacksWork
  <2>7. Gained(u, w, z) /\ \A e \in Elements : PointAt(left, key, w, e)
    <3>1. n \in 0..n /\ n # 0 /\ n - 1 = m BY <2>1, <2>2
    <3>2. /\ Gained(u, w, IF n = 0 THEN u.focused ELSE Steps(HeirIn, p, n - 1))
          /\ \A e \in Elements : PointAt(left, key, w, e)
      BY <2>1, <2>3, <2>4, <3>1, GainsWork
    <3> QED BY <2>5, <3>1, <3>2
  <2>8. PICK A, B, C : A = Above(parent, p) /\ B = Above(parent, o) /\ C = Above(parent, z)
    OBVIOUS
  <2>9. /\ But(w, v) /\ A \subseteq C
        /\ \A e \in Elements : \A t : t # "RcFocus" => (t \in v.states[e] <=> t \in w.states[e])
        /\ \A e \in Elements :
               "RcFocus" \in v.states[e] <=> "RcFocus" \in u.states[e] \/ (e \in C /\ e \notin A)
    <3>1. m - m = 0 /\ 0 \in Nat BY <2>2
    <3>2. Steps(HeirIn, p, m - m) = p BY <3>1, StepMore
    <3> QED BY <2>5, <2>6, <2>8, <3>2 DEF Back
  <2>10. "RcFocus" \in AllStates BY DEF AllStates, Chained
  <2>11. /\ But(v, x)
         /\ \A e \in Elements : \A t :
                t \in x.states[e] <=> \/ t = "RcFocus" /\ e \in A /\ e \notin B
                                      \/ t \in v.states[e] /\ ~ (t = "RcFocus" /\ e \in B /\ e \notin A)
    <3>1. v \in Uis BY <2>9 DEF But
    <3> QED BY <2>6, <2>8, <2>10, <3>1, RcIs
  <2>12. PICK y : y = [x EXCEPT !.stale = @ \cup ((B \ A) \cap C)] OBVIOUS
  <2>13. Focus(u, p) = y
    <3>1. Focus(u, p) = [b[n] EXCEPT !.stale = @ \cup ((Up(o) \ Up(p)) \cap Up(z))]
      BY <1>2, <2>1, <2>2, <2>3, <2>5, FocusIs
    <3>2. Up(o) = B /\ Up(p) = A /\ Up(z) = C BY <2>8, UpIs
    <3> QED BY <2>4, <2>12, <3>1, <3>2
  <2>14. C \subseteq Elements
    <3>1. \A q \in Places : HeirIn[q] \in Places BY HeirIs
    <3>2. z \in Places BY <2>5, <3>1, StepsIn
    <3> QED BY <2>8, <3>2, AboveIs DEF Places
  <2>15. /\ x \in Uis /\ x.focused = z /\ x.clicked = u.clicked /\ x.targetted = u.targetted
         /\ x.stale = u.stale
    BY <2>7, <2>9, <2>11 DEF But, Gained
  <2>16. PICK S : S = (B \ A) \cap C OBVIOUS
  <2>17. /\ y \in Uis /\ y.focused = z /\ y.clicked = u.clicked /\ y.targetted = u.targetted
         /\ y.stale = u.stale \cup S /\ y.states = x.states
    <3>1. S \subseteq Elements BY <2>14, <2>16
    <3>2. y = [x EXCEPT !.stale = @ \cup S] BY <2>12, <2>16
    <3> QED BY <2>15, <3>1, <3>2 DEF Uis
  <2>18. ASSUME NEW e \in Elements PROVE PointAt(left, key, y, e)
    <3>1. PointAt(left, key, w, e) BY <2>7
    <3>2. \A t : t # "RcFocus" => (t \in y.states[e] <=> t \in w.states[e]) BY <2>9, <2>11, <2>17
    <3>3. w.focused = y.focused /\ w.clicked = y.clicked /\ w.targetted = y.targetted
      BY <2>7, <2>17 DEF Gained
    <3> QED BY <3>1, <3>2, <3>3 DEF PointAt
  <2>19. ASSUME NEW e \in Elements, e \notin y.stale \cup gone PROVE ChainAt(parent, y, e)
    <3>1. ChainAt(parent, u, e) /\ e \notin S BY <2>17, <2>19 DEF KnownNow, Known
    <3>2. \A t \in {"RcClick", "RcHover"} : t \in y.states[e] <=> t \in u.states[e]
      <4>1. \A t \in {"RcClick", "RcHover"} : t \in Chained /\ t # "RcFocus" BY DEF Chained
      <4>2. \A t \in {"RcClick", "RcHover"} : t \in w.states[e] <=> t \in u.states[e]
        BY <2>7, <4>1 DEF Gained
      <4> QED BY <2>9, <2>11, <2>17, <4>1, <4>2
    <3>3. "RcFocus" \in y.states[e] <=> e \in C
      <4>1. "RcFocus" \in u.states[e] <=> e \in B BY <2>5, <2>8, <3>1 DEF ChainAt
      <4>2. "RcFocus" \in v.states[e] <=> e \in B \/ (e \in C /\ e \notin A) BY <2>9, <4>1
      <4>3. "RcFocus" \in x.states[e] <=> \/ e \in A /\ e \notin B
                                          \/ "RcFocus" \in v.states[e] /\ ~ (e \in B /\ e \notin A)
        BY <2>11
      <4>4. ~ (e \in B /\ e \notin A /\ e \in C) BY <2>16, <3>1
      <4> QED BY <2>9, <2>17, <4>2, <4>3, <4>4
    <3> QED BY <2>8, <2>17, <3>1, <3>2, <3>3 DEF ChainAt
  <2> QED BY <2>13, <2>17, <2>18, <2>19 DEF KnownNow, Known, Mice
<1> QED BY <1>1, <1>2

-----------------------------------------------------------------------------
(* The mouse, the keyboard's iterator and the binds.                       *)

TreeNow == TreeIn(children, parent) /\ root \in Roots /\ keynav \in Places \ Roots

LEMMA ShownType == ASSUME TreeNow PROVE Shown \subseteq Elements /\ root \in Elements
<1>1. root \in Elements BY ScreenAssumption DEF TreeNow
<1>2. Below(root) \subseteq Elements BY <1>1, BelowIs, UnderIs DEF TreeNow, TreeIn
<1> QED BY <1>1, <1>2 DEF Shown

LEMMA TargetType ==
    ASSUME TreeNow, NEW f
    PROVE  Target(f) \in Places /\ UpTarget(f) \in Places
<1>1. PICK t : t = Target(f) OBVIOUS
<1>2. t \in Places BY <1>1, ShownType DEF Target, Places
<1>3. parent \in [Elements -> Places] BY DEF TreeNow, TreeIn, Parents, Places
<1>4. PICK next : next = [x \in Elements \cup {None} |-> IF x \in Sinks \cup {None} THEN x ELSE parent[x]]
  OBVIOUS
<1>5. \A x \in Places : next[x] \in Places
  <2>1. TAKE x \in Places
  <2>2. next[x] = IF x \in Sinks \cup {None} THEN x ELSE parent[x] BY <1>4 DEF Places
  <2>3. x \notin Sinks \cup {None} => x \in Elements BY DEF Places
  <2> QED BY <1>3, <2>2, <2>3
<1>6. Depth \in Nat BY DepthType
<1>7. \A p \in Places : Sink(p) \in Places
  <2>1. TAKE p \in Places
  <2>2. Sink(p) = Steps(next, p, Depth) BY <1>4 DEF Sink
  <2> QED BY <1>5, <1>6, <2>2, StepsIn
<1>8. t # None => parent[t] \in Places BY <1>2, <1>3 DEF Places
<1>9. UpTarget(f) \in Places BY <1>1, <1>2, <1>7, <1>8 DEF UpTarget
<1> QED BY <1>1, <1>2, <1>9

LEMMA KeyOff ==
    ASSUME NEW key \in Places, NEW u, KnownNow(key, u), NEW new
    PROVE  KnownNow(new, Off(u, key, "Keynavi")) /\ Clicks(u, Off(u, key, "Keynavi"))
<1>1. u \in Uis BY DEF KnownNow, Known
<1>2. "Keynavi" \in AllStates BY DEF AllStates
<1>3. PICK v : v = Off(u, key, "Keynavi") OBVIOUS
<1>4. /\ But(u, v)
      /\ \A e \in Elements : \A t : t \in v.states[e]
                                        <=> t \in u.states[e] /\ ~ (t = "Keynavi" /\ e = key)
  BY <1>1, <1>2, <1>3, OffIs
<1>5. ASSUME NEW e \in Elements PROVE PointAt(left, new, v, e)
  <2>1. PointAt(left, key, u, e) BY DEF KnownNow, Known
  <2> QED BY <1>4, <2>1 DEF PointAt, But
<1>6. ASSUME NEW e \in Elements, e \notin v.stale \cup gone PROVE ChainAt(parent, v, e)
  <2>1. ChainAt(parent, u, e) BY <1>4, <1>6 DEF KnownNow, Known, But
  <2> QED BY <1>4, <2>1 DEF ChainAt, But
<1> QED BY <1>3, <1>4, <1>5, <1>6 DEF KnownNow, Known, But, Clicks

LEMMA KeyOn ==
    ASSUME NEW key \in Places, NEW u, KnownNow(key, u)
    PROVE  KnownNow(key, On(u, key, "Keynavi")) /\ Clicks(u, On(u, key, "Keynavi"))
<1>1. u \in Uis BY DEF KnownNow, Known
<1>2. "Keynavi" \in AllStates BY DEF AllStates
<1>3. PICK v : v = On(u, key, "Keynavi") OBVIOUS
<1>4. /\ But(u, v)
      /\ \A e \in Elements : \A t : t \in v.states[e]
                                        <=> t \in u.states[e] \/ (t = "Keynavi" /\ e = key)
  BY <1>1, <1>2, <1>3, OnIs
<1>5. ASSUME NEW e \in Elements PROVE PointAt(left, key, v, e)
  <2>1. PointAt(left, key, u, e) BY DEF KnownNow, Known
  <2> QED BY <1>4, <2>1 DEF PointAt, But
<1>6. ASSUME NEW e \in Elements, e \notin v.stale \cup gone PROVE ChainAt(parent, v, e)
  <2>1. ChainAt(parent, u, e) BY <1>4, <1>6 DEF KnownNow, Known, But
  <2> QED BY <1>4, <2>1 DEF ChainAt, But
<1> QED BY <1>3, <1>4, <1>5, <1>6 DEF KnownNow, Known, But, Clicks

\* What the mouse does, and that something stays clicked only while the button is down.
LEMMA MouseKnown ==
    ASSUME TreeNow, KnownNow(keynav, ui), NEW f
    PROVE  /\ KnownNow(keynav, Mouse(f))
           /\ Mouse(f).clicked # None =>
                  \/ ~ f.KeyMouseInput /\ ui.clicked # None
                  \/ "left" \notin f.released /\ ("left" \in f.pressed \/ ui.clicked # None)
<1>1. CASE ~ (f.MouseMovement \/ f.KeyMouseInput) BY <1>1 DEF Mouse
<1>2. CASE f.MouseMovement \/ f.KeyMouseInput
  <2>1. Target(f) \in Places /\ UpTarget(f) \in Places BY TargetType
  <2>2. parent \in Parents /\ keynav \in Places BY DEF TreeNow, TreeIn
  <2>3. PICK hover : hover = Hover(ui, Target(f)) OBVIOUS
  <2>4. KnownNow(keynav, hover) /\ hover.clicked = ui.clicked
    BY <2>1, <2>3, HoverKnown DEF Clicks
  <2>5. PICK click : click = IF "left" \in f.pressed THEN Click(hover, UpTarget(f)) ELSE hover
    OBVIOUS
  <2>6. /\ KnownNow(keynav, click)
        /\ click.clicked # None => "left" \in f.pressed \/ ui.clicked # None
    BY <2>1, <2>4, <2>5, ClickKnown
  <2>7. PICK release : release = IF "left" \in f.released THEN Release(click) ELSE click OBVIOUS
  <2>8. /\ KnownNow(keynav, release)
        /\ release.clicked # None => "left" \notin f.released /\ click.clicked # None
    BY <2>6, <2>7, ReleaseKnown
  <2>9. PICK end : end = IF "left" \in f.pressed /\ release.focused # UpTarget(f)
                         THEN Focus(Off(release, keynav, "Keynavi"), UpTarget(f)) ELSE release
    OBVIOUS
  <2>10. Mouse(f) = end BY <1>2, <2>3, <2>5, <2>7, <2>9 DEF Mouse
  <2>11. KnownNow(keynav, end) /\ end.clicked = release.clicked
    <3>1. PICK w : w = Off(release, keynav, "Keynavi") OBVIOUS
    <3>2. KnownNow(keynav, w) /\ w.clicked = release.clicked
      BY <2>2, <2>8, <3>1, KeyOff DEF Clicks
    <3>3. PICK x : x = Focus(w, UpTarget(f)) OBVIOUS
    <3>4. KnownNow(keynav, x) /\ x.clicked = w.clicked
      BY <2>1, <2>2, <3>2, <3>3, FocusKnown DEF Mice
    <3> QED BY <2>8, <2>9, <3>1, <3>2, <3>3, <3>4
  <2> QED BY <2>6, <2>8, <2>10, <2>11
<1> QED BY <1>1, <1>2

HeldRun(n, es, first, f) ==
    f = [i \in 0..n |-> IF i = 0 THEN first ELSE Hold(f[i - 1], es[i])]

LEMMA HeldExists == \A es, first : \A n \in Nat : \E f : HeldRun(n, es, first, f)
<1> TAKE es, first
<1> DEFINE T == {n \in Nat : \E f : HeldRun(n, es, first, f)}
<1>1. 0 \in T
  <2>1. HeldRun(0, es, first, [i \in 0..0 |-> first]) BY DEF HeldRun
  <2> QED BY <2>1
<1>2. ASSUME NEW n \in Nat, n \in T PROVE n + 1 \in T
  <2>1. PICK f : HeldRun(n, es, first, f) BY <1>2
  <2>2. PICK last : last = Hold(f[n], es[(n + 1)]) OBVIOUS
  <2>3. PICK g : Longer(g, n, f, last) BY Extended
  <2>4. /\ g = [i \in 0..(n + 1) |-> g[i]] /\ g[n + 1] = last
        /\ \A i \in 0..n : g[i] = f[i]
    BY <2>3 DEF Longer
  <2>5. ASSUME NEW i \in 0..(n + 1)
        PROVE  g[i] = IF i = 0 THEN first ELSE Hold(g[i - 1], es[i])
    <3>1. CASE i = n + 1
      <4>1. n \in 0..n /\ i # 0 /\ i - 1 = n BY <3>1
      <4>2. g[n] = f[n] BY <2>4, <4>1
      <4> QED BY <2>2, <2>4, <3>1, <4>1, <4>2
    <3>2. CASE i # n + 1
      <4>1. i \in 0..n /\ (i # 0 => i - 1 \in 0..n) BY <3>2
      <4>2. f[i] = IF i = 0 THEN first ELSE Hold(f[i - 1], es[i])
        BY <2>1, <4>1 DEF HeldRun
      <4> QED BY <2>4, <4>1, <4>2
    <3> QED BY <3>1, <3>2
  <2>6. HeldRun(n + 1, es, first, g) BY <2>4, <2>5 DEF HeldRun
  <2> QED BY <2>6
<1>3. Nat \subseteq T
  <2> HIDE DEF T
  <2> QED BY <1>1, <1>2, Induction
<1> QED BY <1>3

\* The button in a frame of strokes.
LEMMA Button ==
    ASSUME NEW es \in Seq(Strokes), NEW f, f = FrameOf(es), "left" \notin pulse
    PROVE  /\ "left" \notin f.pulse
           /\ "left" \in f.pressed => "left" \in f.cur
           /\ "left" \in cur /\ "left" \notin f.released => "left" \in f.cur
           /\ "left" \in cur /\ ~ f.KeyMouseInput => "left" \in f.cur
<1>1. PICK n \in Nat : n = Len(es) BY LenProperties
<1>2. PICK hold : hold = CHOOSE g : HeldRun(n, es, Swapped, g) OBVIOUS
<1>3. HeldRun(n, es, Swapped, hold) BY <1>2, HeldExists
<1>4. hold[0] = Swapped BY <1>3 DEF HeldRun
<1>5. PICK pulsed : pulsed = UNION {Keys(es[i]) : i \in DOMAIN es} OBVIOUS
<1>6. PICK now : now = hold[n] \cup pulsed OBVIOUS
<1>7. /\ f.cur = now /\ f.pulse = pulsed /\ f.pressed = now \ cur /\ f.released = cur \ now
      /\ f.KeyMouseInput <=> \E i \in 1..n : hold[i] # hold[i - 1]
  BY <1>1, <1>2, <1>5, <1>6 DEF FrameOf, HeldRun
<1>8. "left" \notin pulsed
  <2>1. ASSUME NEW i \in DOMAIN es PROVE "left" \notin Keys(es[i])
    <3>1. PICK s \in Strokes : s = es[i] BY ElementOfSeq, LenProperties
    <3>2. s.key \in Reports \/ s.key \in Special BY InputAssumption
    <3>3. s.key # "left" BY <3>2 DEF Reports, Special
    <3> QED BY <3>1, <3>3 DEF Keys
  <2> QED BY <1>5, <2>1
<1>9. ASSUME "left" \in cur, ~ f.KeyMouseInput PROVE "left" \in now
  <2>1. \A i \in 1..n : hold[i] = hold[i - 1] BY <1>7, <1>9
  <2> DEFINE T == {i \in Nat : i <= n => "left" \in hold[i]}
  <2>2. 0 \in T BY <1>4, <1>9 DEF Swapped
  <2>3. ASSUME NEW i \in Nat, i \in T PROVE i + 1 \in T
    <3>1. SUFFICES ASSUME i + 1 <= n PROVE "left" \in hold[i + 1] OBVIOUS
    <3>2. i + 1 \in 1..n /\ (i + 1) - 1 = i BY <3>1
    <3>3. hold[i + 1] = hold[i] BY <2>1, <3>2
    <3>4. "left" \in hold[i] BY <2>3, <3>1
    <3> QED BY <3>3, <3>4
  <2>4. Nat \subseteq T
    <3> HIDE DEF T
    <3> QED BY <2>2, <2>3, Induction
  <2>5. "left" \in hold[n] BY <2>4
  <2> QED BY <1>6, <2>5
<1> QED BY <1>7, <1>8, <1>9

\* w is what the binds have made of u.
Handled(u, w) == Work(w) /\ KnownNow(keynav, w.u) /\ Clicks(u, w.u)

LEMMA CallbackKnown ==
    ASSUME TreeNow, NEW n, NEW u, NEW w, Handled(u, w)
    PROVE  Handled(u, Callback(n, w))
<1> DEFINE c == Callback(n, w)
<1>1. Work(c) BY CallbackWork DEF Handled
<1>2. CASE Does[n] = "focus"
  <2> DEFINE to == IF Field \in gone THEN None ELSE Field
             v == Focus(w.u, to)
             b == Listened(w.b, w.u.states, v.states)
  <2>1. c = [w EXCEPT !.u = v, !.b = b] BY <1>2 DEF Callback
  <2>2. to \in Places BY ScreenAssumption, InterfaceAssumption DEF Places
  <2>3. parent \in Parents BY DEF TreeNow, TreeIn
  <2> HIDE DEF to
  <2>4. KnownNow(keynav, v) /\ Mice(w.u, v) BY <2>2, <2>3, FocusKnown DEF Handled
  <2> HIDE DEF v, b
  <2>5. c.u = v
    <3>1. w = [b |-> w.b, u |-> w.u, early |-> w.early]
      BY DEF Handled, Work
    <3> HIDE DEF c
    <3> QED BY <2>1, <3>1
  <2> HIDE DEF c
  <2>6. Handled(u, c) BY <1>1, <2>4, <2>5 DEF Handled, Mice, Clicks
  <2> QED BY <2>6 DEF c
<1>3. CASE Does[n] # "focus"
  <2>1. c.u = w.u
    <3>1. w = [b |-> w.b, u |-> w.u, early |-> w.early]
      BY DEF Handled, Work
    <3>2. CASE Does[n] = "renew"
      <4> DEFINE b == BindTo(UnbindFrom(w.b, Renewed.name), Renewed.name, Renewed.value, w.u.states)
      <4>1. c = [w EXCEPT !.b = b] BY <3>2 DEF Callback
      <4> HIDE DEF b, c
      <4> QED BY <3>1, <4>1
    <3>3. CASE Does[n] # "renew" BY <1>3, <3>3 DEF Callback
    <3> QED BY <3>2, <3>3
  <2> HIDE DEF c
  <2>2. Handled(u, c) BY <1>1, <2>1 DEF Handled
  <2> QED BY <2>2 DEF c
<1> QED BY <1>2, <1>3

LEMMA CalledKnown ==
    ASSUME TreeNow, NEW n, NEW b, NEW u, NEW w, Handled(u, w)
    PROVE  Handled(u, Called(n, b, w))
<1>1. CASE ~ Current(n, b, w) BY <1>1 DEF Called
<1>2. CASE Current(n, b, w)
  <2> DEFINE x == Callback(n, w)
             c == Called(n, b, w)
  <2>1. Handled(u, x) BY CallbackKnown
  <2>2. w.b.binds[n].epoch = b.binds[n].epoch BY <1>2 DEF Current
  <2>3. c = [x EXCEPT !.early = x.early] BY <1>2, <2>2 DEF Called
  <2>4. Work(c) BY CalledWork DEF Handled
  <2>5. x = [b |-> x.b, u |-> x.u, early |-> x.early]
    BY <2>1 DEF Handled, Work
  <2> HIDE DEF x, c
  <2>6. c.u = x.u BY <2>3, <2>5
  <2>7. Handled(u, c) BY <2>1, <2>4, <2>6 DEF Handled
  <2> QED BY <2>7 DEF c
<1> QED BY <1>1, <1>2

LEMMA KeyInputKnown ==
    ASSUME TreeNow, NEW b, NEW u, NEW f, NEW slow,
           NEW order \in SetToSeqs({m \in Names : Completes(b, m, u, f, slow)}),
           GoodBinder(b, u.states), KnownNow(keynav, u)
    PROVE  Handled(u, KeyInput(b, u, f, slow, order).w)
<1> DEFINE done == [b |-> Advance(b, u, f, slow), u |-> u, early |-> {}]
           all == {m \in Names : Completes(b, m, u, f, slow)}
           key == KeyInput(b, u, f, slow, order)
<1>1. done.u = u /\ [done EXCEPT !.b = b].u = u /\ Clicks(u, u) BY DEF Clicks
<1>2. Work(done)
  <2> DEFINE a == Advance(b, u, f, slow)
  <2>1. GoodBinder(a, u.states) BY AdvanceGood
  <2> HIDE DEF a
  <2>2. PICK e : e = {} OBVIOUS
  <2>3. Work([b |-> a, u |-> u, early |-> e]) BY <2>1, <2>2 DEF Work
  <2> QED BY <2>2, <2>3 DEF a
<1>3. Handled(u, done) BY <1>1, <1>2 DEF Handled
<1>4. Work(key.w) BY KeyInputWork
<1> HIDE DEF done
<1>5. CASE ~ (f.KeyInput /\ b.heard)
  <2>1. key.w = [done EXCEPT !.b = b] BY <1>5 DEF KeyInput, done
  <2> HIDE DEF key
  <2>2. Handled(u, key.w) BY <1>1, <1>4, <2>1 DEF Handled
  <2> QED BY <2>2 DEF key
<1>6. CASE f.KeyInput /\ b.heard
  <2>1. PICK n \in Nat : n = Cardinality(all) /\ order \in [1..n -> all]
    <3>1. IsFiniteSet(all) BY BinderAssumption, FS_Subset
    <3>2. Cardinality(all) \in Nat BY <3>1, FS_CardinalityType
    <3> QED BY <3>2 DEF SetToSeqs
  <2>10. Len(order) = n BY <2>1
  <2>2. PICK after : after = CHOOSE g : AfterRun(n, order, b, done, g) OBVIOUS
  <2>3. key.w = after[n] BY <1>6, <2>10, <2>2 DEF KeyInput, AfterRun, done
  <2>4. AfterRun(n, order, b, done, after) BY <2>2, AfterExists
  <2>5. after[0] = done /\ \A i \in 1..n : after[i] = Called(order[i], b, after[i - 1])
    BY <2>4 DEF AfterRun
  <2> DEFINE T == {i \in Nat : i <= n => Handled(u, after[i])}
  <2>6. 0 \in T BY <1>3, <2>5
  <2>7. ASSUME NEW i \in Nat, i \in T PROVE i + 1 \in T
    <3>1. SUFFICES ASSUME i + 1 <= n PROVE Handled(u, after[i + 1]) OBVIOUS
    <3>2. Handled(u, after[i]) BY <2>7, <3>1
    <3>3. after[i + 1] = Called(order[i + 1], b, after[i])
      <4>1. i + 1 \in 1..n /\ (i + 1) - 1 = i BY <3>1
      <4> QED BY <4>1, <2>5
    <3> QED BY <3>2, <3>3, CalledKnown
  <2>8. Nat \subseteq T
    <3> HIDE DEF T
    <3> QED BY <2>6, <2>7, Induction
  <2>9. Handled(u, after[n]) BY <2>8
  <2> QED BY <2>3, <2>9
<1> QED BY <1>5, <1>6

-----------------------------------------------------------------------------
(* What is removed or moved.                                               *)

LEMMA SeqItems ==
    ASSUME NEW S, NEW s \in Seq(S), NEW x
    PROVE  x \in ToSet(s) <=> \E i \in 1..Len(s) : s[i] = x
BY LenProperties DEF ToSet

\* All but one place of s.
LEMMA RemoveAtIs ==
    ASSUME NEW S, NEW s \in Seq(S), NEW k \in 1..Len(s)
    PROVE  /\ RemoveAt(s, k) \in Seq(S)
           /\ \A i \in 1..Len(s) : i # k => s[i] \in ToSet(RemoveAt(s, k))
           /\ ToSet(RemoveAt(s, k)) \subseteq ToSet(s)
<1>1. PICK l \in Nat : l = Len(s) BY LenProperties
<1>2. k \in Nat /\ 1 <= k /\ k <= l BY <1>1
<1>3. \A i \in 1..l : s[i] \in S BY <1>1, ElementOfSeq
<1>4. PICK a, b : a = SubSeq(s, 1, k - 1) /\ b = SubSeq(s, k + 1, l) OBVIOUS
<1>5. /\ a \in Seq(S) /\ Len(a) = k - 1 /\ \A i \in 1..(k - 1) : a[i] = s[i]
  <2>1. /\ 1 \in Int /\ k - 1 \in Int /\ \A i \in 1..(k - 1) : s[i] \in S BY <1>2, <1>3
  <2>2. /\ SubSeq(s, 1, k - 1) \in Seq(S)
        /\ Len(SubSeq(s, 1, k - 1)) = IF 1 <= k - 1 THEN (k - 1) - 1 + 1 ELSE 0
        /\ \A i \in 1..((k - 1) - 1 + 1) : SubSeq(s, 1, k - 1)[i] = s[1 + i - 1]
    BY <2>1, SubSeqProperties
  <2>3. Len(a) = k - 1 BY <1>2, <1>4, <2>2
  <2>4. ASSUME NEW i \in 1..(k - 1) PROVE a[i] = s[i]
    <3>1. i \in 1..((k - 1) - 1 + 1) /\ 1 + i - 1 = i BY <1>2
    <3> QED BY <1>4, <2>2, <3>1
  <2> QED BY <1>4, <2>2, <2>3, <2>4
<1>6. /\ b \in Seq(S) /\ Len(b) = l - k /\ \A i \in 1..(l - k) : b[i] = s[i + k]
  <2>1. /\ k + 1 \in Int /\ l \in Int /\ \A i \in (k + 1)..l : s[i] \in S BY <1>2, <1>3
  <2>2. /\ SubSeq(s, k + 1, l) \in Seq(S)
        /\ Len(SubSeq(s, k + 1, l)) = IF k + 1 <= l THEN l - (k + 1) + 1 ELSE 0
        /\ \A i \in 1..(l - (k + 1) + 1) : SubSeq(s, k + 1, l)[i] = s[(k + 1) + i - 1]
    BY <2>1, SubSeqProperties
  <2>3. Len(b) = l - k BY <1>2, <1>4, <2>2
  <2>4. ASSUME NEW i \in 1..(l - k) PROVE b[i] = s[i + k]
    <3>1. i \in 1..(l - (k + 1) + 1) /\ (k + 1) + i - 1 = i + k BY <1>2
    <3> QED BY <1>4, <2>2, <3>1
  <2> QED BY <1>4, <2>2, <2>3, <2>4
<1>7. PICK r : r = a \o b OBVIOUS
<1>8. RemoveAt(s, k) = r BY <1>1, <1>4, <1>7 DEF RemoveAt
<1>9. /\ r \in Seq(S) /\ Len(r) = Len(a) + Len(b)
      /\ \A i \in 1..(Len(a) + Len(b)) : r[i] = IF i <= Len(a) THEN a[i] ELSE b[i - Len(a)]
  BY <1>5, <1>6, <1>7, ConcatProperties
<1>10. /\ Len(r) = l - 1
       /\ \A i \in 1..(l - 1) : r[i] = IF i <= k - 1 THEN s[i] ELSE s[i + 1]
  <2>1. Len(r) = l - 1 BY <1>2, <1>5, <1>6, <1>9
  <2>2. ASSUME NEW i \in 1..(l - 1) PROVE r[i] = IF i <= k - 1 THEN s[i] ELSE s[i + 1]
    <3>1. i \in 1..(Len(a) + Len(b)) BY <1>2, <1>5, <1>6
    <3>2. CASE i <= k - 1
      <4>1. i <= Len(a) /\ i \in 1..(k - 1) BY <1>5, <3>2
      <4> QED BY <1>5, <1>9, <3>1, <3>2, <4>1
    <3>3. CASE ~ (i <= k - 1)
      <4>1. ~ (i <= Len(a)) /\ i - Len(a) = i - (k - 1) BY <1>5, <3>3
      <4>2. i - (k - 1) \in 1..(l - k) /\ (i - (k - 1)) + k = i + 1 BY <1>2, <3>3
      <4>3. r[i] = b[i - (k - 1)] BY <1>9, <3>1, <4>1
      <4> QED BY <1>6, <3>3, <4>2, <4>3
    <3> QED BY <3>2, <3>3
  <2> QED BY <2>1, <2>2
<1>11. ASSUME NEW i \in 1..l, i # k PROVE s[i] \in ToSet(r)
  <2>1. CASE i < k
    <3>1. i \in 1..(l - 1) /\ i <= k - 1 BY <1>2, <2>1
    <3>2. i \in 1..Len(r) /\ r[i] = s[i] BY <1>10, <3>1
    <3> QED BY <1>9, <3>2, SeqItems
  <2>2. CASE i > k
    <3>1. i - 1 \in 1..(l - 1) /\ ~ (i - 1 <= k - 1) /\ (i - 1) + 1 = i BY <1>2, <2>2
    <3>2. i - 1 \in 1..Len(r) /\ r[i - 1] = s[i] BY <1>10, <3>1
    <3> QED BY <1>9, <3>2, SeqItems
  <2> QED BY <1>2, <1>11, <2>1, <2>2
<1>12. ASSUME NEW x \in ToSet(r) PROVE x \in ToSet(s)
  <2>1. PICK i \in 1..Len(r) : r[i] = x BY <1>9, SeqItems
  <2>2. i \in 1..(l - 1) BY <1>10, <2>1
  <2>3. i \in 1..l /\ i + 1 \in 1..l BY <1>2, <2>2
  <2>4. x = s[i] \/ x = s[i + 1] BY <1>10, <2>1, <2>2
  <2> QED BY <1>1, <2>3, <2>4, SeqItems
<1> QED BY <1>1, <1>8, <1>9, <1>11, <1>12

LEMMA WithoutIs ==
    ASSUME NEW s \in Seq(Elements), NEW e
    PROVE  /\ Without(s, e) \in Seq(Elements)
           /\ ToSet(Without(s, e)) \subseteq ToSet(s)
           /\ \A x \in ToSet(s) : x # e => x \in ToSet(Without(s, e))
<1>1. CASE ~ Contains(s, e) BY <1>1 DEF Without
<1>2. CASE Contains(s, e)
  <2>1. PICK k : k = CHOOSE i \in DOMAIN s : s[i] = e OBVIOUS
  <2>2. DOMAIN s = 1..Len(s) BY LenProperties
  <2>3. k \in 1..Len(s) /\ s[k] = e BY <1>2, <2>1, <2>2 DEF Contains
  <2>4. Without(s, e) = RemoveAt(s, k) BY <1>2, <2>1 DEF Without
  <2>5. ASSUME NEW x \in ToSet(s), x # e PROVE x \in ToSet(RemoveAt(s, k))
    <3>1. PICK i \in 1..Len(s) : s[i] = x BY SeqItems
    <3>2. i # k BY <2>3, <2>5, <3>1
    <3> QED BY <2>3, <3>1, <3>2, RemoveAtIs
  <2> QED BY <2>3, <2>4, <2>5, RemoveAtIs
<1> QED BY <1>1, <1>2

LEMMA AppendItems ==
    ASSUME NEW s \in Seq(Elements), NEW e \in Elements
    PROVE  Append(s, e) \in Seq(Elements) /\ ToSet(Append(s, e)) = ToSet(s) \cup {e}
<1>1. PICK l \in Nat : l = Len(s) BY LenProperties
<1>2. PICK r : r = Append(s, e) OBVIOUS
<1>3. /\ r \in Seq(Elements) /\ Len(r) = l + 1 /\ (\A i \in 1..l : r[i] = s[i]) /\ r[l + 1] = e
  BY <1>1, <1>2, AppendProperties
<1>4. \A i : i \in 1..(l + 1) <=> i \in 1..l \/ i = l + 1 OBVIOUS
<1>5. \A x : x \in ToSet(r) <=> \E i \in 1..(l + 1) : r[i] = x BY <1>3, SeqItems
<1>6. \A x : x \in ToSet(s) <=> \E i \in 1..l : s[i] = x BY <1>1, SeqItems
<1>7. \A x : x \in ToSet(r) <=> x \in ToSet(s) \/ x = e BY <1>3, <1>4, <1>5, <1>6
<1> QED BY <1>2, <1>3, <1>7

\* What is above an element that is not below e is not below e.
LEMMA AboveApart ==
    ASSUME NEW chi, NEW par, TreeIn(chi, par), NEW e \in Elements, NEW q \in Places,
           q \notin Under(chi, e)
    PROVE  Above(par, q) \cap Under(chi, e) = {}
<1>1. chi \in Trees /\ par \in Parents BY DEF TreeIn
<1>2. SUFFICES ASSUME NEW a \in Above(par, q), a \in Under(chi, e) PROVE FALSE OBVIOUS
<1>3. q # None
  <2>1. Above(par, None) = {} BY <1>1, AboveNone
  <2> QED BY <2>1
<1>4. q \in Elements BY <1>3 DEF Places
<1>5. q \in Under(chi, a) /\ a \in Elements BY <1>4, AboveUnder
<1>6. PICK C : C = Under(chi, e) OBVIOUS
<1>7. a \in C /\ \A x \in C : x \in Elements /\ ToSet(chi[x]) \subseteq C BY <1>1, <1>2, <1>6, UnderIs
<1>8. Under(chi, a) \subseteq C BY <1>1, <1>5, <1>7, UnderIs
<1> QED BY <1>5, <1>6, <1>8

LEMMA AboveKept ==
    ASSUME NEW chi, NEW par, TreeIn(chi, par), NEW e \in Elements, NEW new \in Parents,
           \A x \in Elements \ Under(chi, e) : new[x] = par[x],
           NEW q \in Places, q \notin Under(chi, e)
    PROVE  Above(new, q) = Above(par, q)
<1>1. par \in Parents BY DEF TreeIn
<1>2. q \in Elements \cup {None} BY DEF Places
<1>3. Above(par, q) \subseteq Elements BY <1>1, <1>2, AboveIs
<1>4. Above(par, q) \cap Under(chi, e) = {} BY AboveApart
<1>5. \A x \in Above(par, q) : new[x] = par[x] BY <1>3, <1>4
<1> QED BY <1>1, <1>2, <1>5, AboveSame

\* What the screen points at in u is kept by v or is below e, and then nothing or stale.
Trails(new, e, u, v, q, r) ==
    \/ q \notin Under(children, e) /\ r = q
    \/ /\ q \in Under(children, e)
       /\ r = None \/ (r = q /\ Above(new, q) \subseteq v.stale)
       /\ Above(parent, q) \subseteq v.stale

LEMMA ChainTrails ==
    ASSUME TreeNow, NEW e \in Elements, NEW new \in Parents,
           \A x \in Elements \ Under(children, e) : new[x] = parent[x],
           NEW u, NEW v, NEW q \in Places, NEW r, Trails(new, e, u, v, q, r)
    PROVE  \A x \in Elements \ v.stale : x \in Above(new, r) <=> x \in Above(parent, q)
<1>1. CASE q \notin Under(children, e) /\ r = q
  <2>1. Above(new, q) = Above(parent, q) BY <1>1, AboveKept DEF TreeNow
  <2> QED BY <1>1, <2>1
<1>2. CASE /\ q \in Under(children, e)
           /\ r = None \/ (r = q /\ Above(new, q) \subseteq v.stale)
           /\ Above(parent, q) \subseteq v.stale
  <2>1. Above(new, None) = {} BY AboveNone
  <2>2. \A x \in Elements \ v.stale : x \notin Above(new, r) BY <1>2, <2>1
  <2> QED BY <1>2, <2>2
<1> QED BY <1>1, <1>2 DEF Trails

LEMMA RemoveKnown ==
    ASSUME TreeNow, KnownNow(keynav, ui), NEW e \in Elements, RemoveElement(e)
    PROVE  TreeIn(children', parent') /\ Known(parent', gone', left, keynav, ui')
<1>1. PICK S : S = Under(children, e) OBVIOUS
<1>2. Below(e) = S BY <1>1, BelowIs
<1>3. /\ S \subseteq Elements /\ e \in S /\ \A x \in S : ToSet(children[x]) \subseteq S
  BY <1>1, UnderIs DEF TreeNow, TreeIn
<1>4. /\ children \in Trees /\ parent \in Parents /\ Kin(children, parent) /\ RootsFree(children)
  BY DEF TreeNow, TreeIn
<1>5. PICK chi, par, st : /\ chi = [p \in Elements |-> IF p \in S THEN <<>> ELSE Without(children[p], e)]
                          /\ par = [c \in Elements |-> IF c \in S THEN None ELSE parent[c]]
                          /\ st = [c \in Elements |-> IF c \in S THEN {} ELSE ui.states[c]]
  OBVIOUS
<1>6. PICK stale : stale = ui.stale \cup UNION {Up(x) : x \in S \cap Spoken} OBVIOUS
<1>7. PICK v : v = [states |-> st, focused |-> Lost(ui.focused, S), clicked |-> Lost(ui.clicked, S),
                    targetted |-> Lost(ui.targetted, S), stale |-> stale]
  OBVIOUS
<1>8. children' = chi /\ parent' = par /\ ui' = v /\ gone' = gone \cup S
  BY <1>2, <1>5, <1>6, <1>7 DEF RemoveElement
<1>9. ASSUME NEW p \in Elements
      PROVE  /\ chi[p] \in Seq(Elements) /\ ToSet(chi[p]) \subseteq ToSet(children[p])
             /\ p \notin S => \A x \in ToSet(children[p]) : x # e => x \in ToSet(chi[p])
  <2>1. children[p] \in Seq(Elements) BY <1>4 DEF Trees
  <2>2. CASE p \in S
    <3>1. chi[p] = <<>> BY <1>5, <2>2
    <3>2. <<>> \in Seq(Elements) /\ ToSet(<<>>) = {} BY DEF ToSet
    <3> QED BY <2>2, <3>1, <3>2
  <2>3. CASE p \notin S
    <3>1. chi[p] = Without(children[p], e) BY <1>5, <2>3
    <3> QED BY <2>1, <3>1, WithoutIs
  <2> QED BY <2>2, <2>3
<1>10. TreeIn(chi, par)
  <2>1. chi \in Trees BY <1>5, <1>9 DEF Trees
  <2>2. par \in Parents BY <1>4, <1>5 DEF Parents
  <2>3. RootsFree(chi) BY <1>4, <1>9 DEF RootsFree
  <2>4. ASSUME NEW c \in Elements, par[c] # None PROVE c \in ToSet(chi[par[c]])
    <3>1. c \notin S /\ par[c] = parent[c] BY <1>5, <2>4
    <3>2. PICK p \in Elements : p = parent[c] BY <1>4, <2>4, <3>1 DEF Parents
    <3>3. c \in ToSet(children[p]) BY <1>4, <2>4, <3>1, <3>2 DEF Kin
    <3>4. p \notin S /\ c # e BY <1>3, <3>1, <3>3
    <3> QED BY <1>9, <3>1, <3>2, <3>3, <3>4
  <2> QED BY <2>1, <2>2, <2>3, <2>4 DEF TreeIn, Kin
<1>11. /\ ui \in Uis
       /\ \A x \in Elements : /\ PointAt(left, keynav, ui, x)
                              /\ x \notin ui.stale \cup gone => ChainAt(parent, ui, x)
  BY DEF KnownNow, Known
<1>12. /\ v.states = st /\ v.focused = Lost(ui.focused, S) /\ v.clicked = Lost(ui.clicked, S)
       /\ v.targetted = Lost(ui.targetted, S) /\ v.stale = stale
  BY <1>7
<1>13. ASSUME NEW q \in Places, q \in {ui.focused, ui.clicked, ui.targetted}
       PROVE  Trails(par, e, ui, v, q, Lost(q, S)) /\ Lost(q, S) \in Places
  <2>1. CASE q \notin S BY <1>1, <2>1 DEF Trails, Lost
  <2>2. CASE q \in S
    <3>1. q \in S \cap Spoken BY <1>3, <1>13, <2>2, ScreenAssumption DEF Spoken
    <3>2. Up(q) \subseteq stale BY <1>6, <3>1
    <3>3. Above(parent, q) \subseteq v.stale BY <1>12, <3>2, UpIs
    <3> QED BY <1>1, <2>2, <3>3 DEF Trails, Lost, Places
  <2> QED BY <2>1, <2>2
<1>14. ui.focused \in Places /\ ui.clicked \in Places /\ ui.targetted \in Places BY <1>11 DEF Uis
<1>15. stale \subseteq Elements
  <2>1. ASSUME NEW x \in S PROVE Up(x) \subseteq Elements
    <3>1. x \in Elements \cup {None} BY <1>3
    <3> QED BY <1>4, <3>1, AboveIs, UpIs
  <2>2. ui.stale \subseteq Elements BY <1>11 DEF Uis
  <2> QED BY <1>6, <2>1, <2>2
<1>16. st \in [Elements -> SUBSET AllStates] BY <1>5, <1>11 DEF Uis
<1>17. v \in Uis
  <2>1. Lost(ui.focused, S) \in Places /\ Lost(ui.clicked, S) \in Places /\ Lost(ui.targetted, S) \in Places
    BY <1>13, <1>14
  <2> QED BY <1>7, <1>15, <1>16, <2>1 DEF Uis
<1>18. ASSUME NEW x \in Elements PROVE PointAt(left, keynav, v, x)
  <2>1. PointAt(left, keynav, ui, x) BY <1>11
  <2>2. CASE x \in S
    <3>1. v.states[x] = {} BY <1>5, <1>12, <2>2
    <3>2. x # v.focused BY <1>12, <2>2, ScreenAssumption DEF Lost
    <3> QED BY <3>1, <3>2 DEF PointAt
  <2>3. CASE x \notin S
    <3>1. v.states[x] = ui.states[x] BY <1>5, <1>12, <2>3
    <3>2. \A q : x = q <=> x = Lost(q, S) BY <2>3, ScreenAssumption DEF Lost
    <3>3. /\ x = ui.focused <=> x = v.focused
          /\ x = ui.clicked <=> x = v.clicked
          /\ x = ui.targetted <=> x = v.targetted
      BY <1>12, <3>2
    <3> QED BY <2>1, <3>1, <3>3 DEF PointAt
  <2> QED BY <2>2, <2>3
<1>19. ASSUME NEW x \in Elements, x \notin v.stale \cup (gone \cup S) PROVE ChainAt(par, v, x)
  <2>1. x \notin ui.stale \cup gone BY <1>6, <1>12, <1>19
  <2>2. ChainAt(parent, ui, x) BY <1>11, <2>1
  <2>3. v.states[x] = ui.states[x] BY <1>5, <1>12, <1>19
  <2>4. par \in Parents /\ \A y \in Elements \ Under(children, e) : par[y] = parent[y]
    BY <1>1, <1>5, <1>10 DEF TreeIn
  <2>5. ASSUME NEW q \in Places, q \in {ui.focused, ui.clicked, ui.targetted}
        PROVE  x \in Above(par, Lost(q, S)) <=> x \in Above(parent, q)
    <3>1. PICK r : r = Lost(q, S) OBVIOUS
    <3>2. Trails(par, e, ui, v, q, r) BY <1>13, <2>5, <3>1
    <3>3. \A y \in Elements \ v.stale : y \in Above(par, r) <=> y \in Above(parent, q)
      BY <2>4, <3>2, ChainTrails
    <3> QED BY <1>19, <3>1, <3>3
  <2> QED BY <1>12, <1>14, <2>2, <2>3, <2>5 DEF ChainAt
<1>20. Known(par, gone \cup S, left, keynav, v) BY <1>17, <1>18, <1>19 DEF Known
<1> QED BY <1>8, <1>10, <1>20

LEMMA MoveKnown ==
    ASSUME TreeNow, KnownNow(keynav, ui), NEW e \in Elements, NEW p \in Elements, Move(e, p)
    PROVE  TreeIn(children', parent') /\ Known(parent', gone', left, keynav, ui')
<1>1. PICK S : S = Under(children, e) OBVIOUS
<1>2. Below(e) = S BY <1>1, BelowIs
<1>3. S \subseteq Elements /\ e \in S BY <1>1, UnderIs DEF TreeNow, TreeIn
<1>4. /\ children \in Trees /\ parent \in Parents /\ Kin(children, parent) /\ RootsFree(children)
  BY DEF TreeNow, TreeIn
<1>5. PICK chi, par :
          /\ chi = [q \in Elements |-> LET rest == Without(children[q], e)
                                       IN IF q = p THEN Append(rest, e) ELSE rest]
          /\ par = [c \in Elements |-> IF c = e THEN p ELSE IF c \in S THEN None ELSE parent[c]]
  OBVIOUS
<1>6. children' = chi /\ parent' = par /\ gone' = gone BY <1>2, <1>5 DEF Move
<1>7. PICK stale : stale = ui.stale \cup UNION {Up(x) \cup Above(par, x) : x \in S \cap Spoken}
  OBVIOUS
<1>8. PICK v : v = [ui EXCEPT !.stale = stale] OBVIOUS
<1>9. ui' = v
  <2>1. \A x : Up(x)' = Above(par, x) BY <1>6 DEF Up, Above, ParentIn
  <2>2. ui' = [ui EXCEPT !.stale = ui.stale \cup UNION {Up(x) \cup Up(x)' : x \in S \cap Spoken}]
    BY <1>2 DEF Move
  <2> QED BY <1>7, <1>8, <2>1, <2>2
<1>10. ASSUME NEW q \in Elements
       PROVE  /\ chi[q] \in Seq(Elements) /\ ToSet(chi[q]) \subseteq ToSet(children[q]) \cup {e}
              /\ \A x \in ToSet(children[q]) : x # e => x \in ToSet(chi[q])
              /\ q = p => e \in ToSet(chi[q])
  <2>1. PICK s : s = children[q] OBVIOUS
  <2>2. s \in Seq(Elements) BY <1>4, <2>1 DEF Trees
  <2>3. PICK w : w = Without(s, e) OBVIOUS
  <2>4. /\ w \in Seq(Elements) /\ ToSet(w) \subseteq ToSet(s)
        /\ \A x \in ToSet(s) : x # e => x \in ToSet(w)
    BY <2>2, <2>3, WithoutIs
  <2>5. CASE q = p
    <3>1. chi[q] = Append(w, e) BY <1>5, <2>1, <2>3, <2>5
    <3> QED BY <2>1, <2>4, <3>1, AppendItems
  <2>6. CASE q # p
    <3>1. chi[q] = w BY <1>5, <2>1, <2>3, <2>6
    <3> QED BY <2>1, <2>4, <2>6, <3>1
  <2> QED BY <2>5, <2>6
<1>11. TreeIn(chi, par)
  <2>1. chi \in Trees
    <3>1. chi = [q \in Elements |-> chi[q]] BY <1>5
    <3> QED BY <1>10, <3>1 DEF Trees
  <2>2. par \in Parents BY <1>4, <1>5 DEF Parents
  <2>3. RootsFree(chi)
    <3>1. parent[e] \in Elements /\ e \in ToSet(children[parent[e]])
      BY <1>4 DEF Move, Kin, Parents
    <3>2. e \notin Roots BY <1>4, <3>1 DEF RootsFree
    <3> QED BY <1>4, <1>10, <3>2 DEF RootsFree
  <2>4. ASSUME NEW c \in Elements, par[c] # None PROVE c \in ToSet(chi[par[c]])
    <3>1. CASE c = e
      <4>1. par[c] = p BY <1>5, <3>1
      <4> QED BY <1>10, <3>1, <4>1
    <3>2. CASE c # e
      <4>1. par[c] = parent[c] BY <1>5, <2>4, <3>2
      <4>2. PICK q \in Elements : q = parent[c] BY <1>4, <2>4, <4>1 DEF Parents
      <4>3. c \in ToSet(children[q]) BY <1>4, <2>4, <4>1, <4>2 DEF Kin
      <4> QED BY <1>10, <3>2, <4>1, <4>2, <4>3
    <3> QED BY <3>1, <3>2
  <2> QED BY <2>1, <2>2, <2>3, <2>4 DEF TreeIn, Kin
<1>12. /\ ui \in Uis
       /\ \A x \in Elements : /\ PointAt(left, keynav, ui, x)
                              /\ x \notin ui.stale \cup gone => ChainAt(parent, ui, x)
  BY DEF KnownNow, Known
<1>13. ui.focused \in Places /\ ui.clicked \in Places /\ ui.targetted \in Places BY <1>12 DEF Uis
<1>14. par \in Parents /\ \A y \in Elements \ Under(children, e) : par[y] = parent[y]
  BY <1>1, <1>3, <1>5, <1>11 DEF TreeIn
<1>15. stale \subseteq Elements
  <2>1. ASSUME NEW x \in S PROVE Up(x) \cup Above(par, x) \subseteq Elements
    <3>1. x \in Elements \cup {None} BY <1>3
    <3> QED BY <1>4, <1>14, <3>1, AboveIs, UpIs
  <2>2. ui.stale \subseteq Elements BY <1>12 DEF Uis
  <2> QED BY <1>7, <2>1, <2>2
<1>16. /\ v \in Uis /\ v.states = ui.states /\ v.focused = ui.focused /\ v.clicked = ui.clicked
       /\ v.targetted = ui.targetted /\ v.stale = stale
  BY <1>8, <1>12, <1>15 DEF Uis
<1>17. ASSUME NEW q \in {ui.focused, ui.clicked, ui.targetted}
       PROVE  Trails(par, e, ui, v, q, q)
  <2>1. CASE q \notin S BY <1>1, <2>1 DEF Trails
  <2>2. CASE q \in S
    <3>1. q \in S \cap Spoken BY <1>3, <2>2, ScreenAssumption DEF Spoken
    <3>2. Up(q) \subseteq stale /\ Above(par, q) \subseteq stale BY <1>7, <3>1
    <3>3. Above(parent, q) \subseteq v.stale /\ Above(par, q) \subseteq v.stale
      BY <1>16, <3>2, UpIs
    <3> QED BY <1>1, <2>2, <3>3 DEF Trails
  <2> QED BY <2>1, <2>2
<1>18. ASSUME NEW x \in Elements PROVE PointAt(left, keynav, v, x)
  <2>1. PointAt(left, keynav, ui, x) BY <1>12
  <2> QED BY <1>16, <2>1 DEF PointAt
<1>19. ASSUME NEW x \in Elements, x \notin v.stale \cup gone PROVE ChainAt(par, v, x)
  <2>1. x \notin ui.stale \cup gone BY <1>7, <1>16, <1>19
  <2>2. ChainAt(parent, ui, x) BY <1>12, <2>1
  <2>3. ASSUME NEW q \in {ui.focused, ui.clicked, ui.targetted}
        PROVE  x \in Above(par, q) <=> x \in Above(parent, q)
    <3>1. Trails(par, e, ui, v, q, q) BY <1>17
    <3>2. q \in Places BY <1>13
    <3>3. \A y \in Elements \ v.stale : y \in Above(par, q) <=> y \in Above(parent, q)
      BY <1>14, <3>1, <3>2, ChainTrails
    <3> QED BY <1>19, <3>3
  <2> QED BY <1>16, <2>2, <2>3 DEF ChainAt
<1>20. Known(par, gone, left, keynav, v) BY <1>16, <1>18, <1>19 DEF Known
<1> QED BY <1>6, <1>9, <1>11, <1>20

\* The focus is let go of when the other tree is shown.
LEMMA SwitchKnown ==
    ASSUME TreeNow, KnownNow(keynav, ui), NEW r, NEW f, SetTree(r, f)
    PROVE  /\ KnownNow(keynav, ui)' /\ ui'.clicked = ui.clicked
           /\ UNCHANGED <<children, parent, keynav, gone>> /\ root' = r /\ r \in Roots
<1>1. /\ ui \in Uis
      /\ \A x \in Elements : /\ PointAt(left, keynav, ui, x)
                             /\ x \notin ui.stale \cup gone => ChainAt(parent, ui, x)
  BY DEF KnownNow, Known
<1>2. PICK o \in Places : o = ui.focused BY <1>1 DEF Uis
<1>3. PICK v : v = [ui EXCEPT !.focused = None, !.stale = @ \cup Up(o)] OBVIOUS
<1>4. PICK gave : gave = left \cup ({o} \ {None}) OBVIOUS
<1>5. ui' = v /\ left' = gave BY <1>2, <1>3, <1>4 DEF SetTree
<1>6. UNCHANGED <<children, parent, keynav, gone>> /\ root' = r /\ r \in Roots BY DEF SetTree
<1>7. parent \in Parents BY DEF TreeNow, TreeIn
<1>8. Up(o) = Above(parent, o) /\ Above(parent, o) \subseteq Elements
  BY <1>7, UpIs, AboveIs DEF Places
<1>9. /\ v \in Uis /\ v.states = ui.states /\ v.focused = None /\ v.clicked = ui.clicked
      /\ v.targetted = ui.targetted /\ v.stale = ui.stale \cup Up(o)
  BY <1>1, <1>3, <1>8 DEF Uis, Places
<1>10. ASSUME NEW x \in Elements PROVE PointAt(gave, keynav, v, x)
  <2>1. PointAt(left, keynav, ui, x) /\ x # None BY <1>1, ScreenAssumption
  <2> QED BY <1>2, <1>4, <1>9, <2>1 DEF PointAt
<1>11. ASSUME NEW x \in Elements, x \notin v.stale \cup gone PROVE ChainAt(parent, v, x)
  <2>1. ChainAt(parent, ui, x) /\ x \notin Above(parent, o) BY <1>1, <1>8, <1>9, <1>11
  <2>2. Above(parent, None) = {} BY <1>7, AboveNone
  <2> QED BY <1>2, <1>9, <2>1, <2>2 DEF ChainAt
<1>12. Known(parent, gone, gave, keynav, v) BY <1>9, <1>10, <1>11 DEF Known
<1>13. Known(parent', gone', left', keynav', ui') BY <1>5, <1>6, <1>12
<1> QED BY <1>5, <1>6, <1>9, <1>13 DEF KnownNow

-----------------------------------------------------------------------------
(* Where navigation goes.                                                  *)

Against(next) == [x \in Elements |-> {z \in Elements : next[z] = x}]

\* As many steps as there are elements come to the end, wherever that can be reached from.
LEMMA StepsEnd ==
    ASSUME NEW next, NEW Fix, \A x \in Fix : next[x] = x,
           NEW y \in Reach(Fix, Against(next)), Fix \subseteq Elements
    PROVE  Steps(next, y, Depth) \in Fix
<1>1. PICK back : back = Against(next) OBVIOUS
<1>2. back \in Links BY <1>1 DEF Against, Links
<1>3. PICK f : /\ Reach(Fix, back) = f[Depth] /\ f[0] = Fix
               /\ \A i \in 1..Depth : f[i] = Around(f[i - 1], back)
  BY ReachIs
<1>4. PICK n \in Nat : n = Depth BY DepthType
<1>5. \A x \in Elements : \A z : z \in back[x] <=> z \in Elements /\ next[z] = x
  BY <1>1 DEF Against
<1> DEFINE T == {i \in Nat : i <= n => /\ f[i] \subseteq Elements
                                       /\ \A z \in f[i] : Steps(next, z, i) \in Fix}
<1>6. 0 \in T
  <2>1. \A z \in Fix : Steps(next, z, 0) = z BY StepMore
  <2> QED BY <1>3, <2>1
<1>7. ASSUME NEW i \in Nat, i \in T PROVE i + 1 \in T
  <2>1. SUFFICES ASSUME i + 1 <= n
                 PROVE  /\ f[i + 1] \subseteq Elements
                        /\ \A z \in f[i + 1] : Steps(next, z, i + 1) \in Fix
    OBVIOUS
  <2>2. f[i] \subseteq Elements /\ \A z \in f[i] : Steps(next, z, i) \in Fix BY <1>7, <2>1
  <2>3. i + 1 \in 1..n /\ (i + 1) - 1 = i BY <2>1
  <2>4. f[i + 1] = Around(f[i], back) BY <1>3, <1>4, <2>3
  <2>5. ASSUME NEW z \in f[i + 1] PROVE z \in Elements /\ Steps(next, z, i + 1) \in Fix
    <3>1. PICK x \in f[i] : z \in {x} \cup back[x] BY <2>4 DEF Around
    <3>2. CASE z = x
      <4>1. Steps(next, z, i + 1) = next[Steps(next, z, i)] BY StepMore
      <4>2. Steps(next, z, i) \in Fix BY <2>2, <3>2
      <4> QED BY <2>2, <3>2, <4>1, <4>2
    <3>3. CASE z \in back[x]
      <4>1. z \in Elements /\ x = next[z] BY <1>5, <2>2, <3>3
      <4>2. Steps(next, x, i) = Steps(next, z, i + 1) BY <4>1, StepFirst
      <4> QED BY <2>2, <4>1, <4>2
    <3> QED BY <3>1, <3>2, <3>3
  <2> QED BY <2>5
<1>8. Nat \subseteq T
  <2> HIDE DEF T
  <2> QED BY <1>6, <1>7, Induction
<1>9. \A z \in f[n] : Steps(next, z, n) \in Fix BY <1>8
<1> QED BY <1>1, <1>3, <1>4, <1>9

\* What is below a root that parent() reaches from there.
Inner(r) == Under(children, r) \ Roots
Sturdy(r) == r \in Roots /\ RootedIn(r)

LEMMA RootBare == ASSUME TreeNow, NEW r \in Roots PROVE r \in Elements /\ parent[r] = None
<1>1. r \in Elements BY ScreenAssumption
<1>2. /\ parent \in Parents /\ Kin(children, parent) /\ RootsFree(children) BY DEF TreeNow, TreeIn
<1>3. SUFFICES ASSUME parent[r] # None PROVE FALSE BY <1>1
<1>4. parent[r] \in Elements BY <1>1, <1>2, <1>3 DEF Parents
<1>5. r \in ToSet(children[parent[r]]) BY <1>1, <1>2, <1>3 DEF Kin
<1> QED BY <1>2, <1>4, <1>5 DEF RootsFree

LEMMA InnerParent ==
    ASSUME TreeNow, NEW r, Sturdy(r), NEW x \in Inner(r)
    PROVE  /\ parent[x] \in Under(children, r) /\ parent[x] \in Elements
           /\ x \in Elements /\ x \in ToSet(children[parent[x]])
<1>1. /\ parent \in Parents /\ children \in Trees /\ Kin(children, parent)
      /\ TreeIn(children, parent)
  BY DEF TreeNow, TreeIn
<1>2. r \in Roots /\ r \in Elements BY ScreenAssumption DEF Sturdy
<1>3. x \in Elements /\ x \in Under(children, r) /\ x # r BY <1>1, <1>2, UnderIs DEF Inner
<1>4. r \in Above(parent, x) BY <1>3, UpIs, BelowIs DEF Sturdy, RootedIn
<1>5. PICK p \in Elements \cup {None} : p = parent[x] BY <1>1, <1>3 DEF Parents
<1>6. Above(parent, x) = {x} \cup Above(parent, p) BY <1>1, <1>3, <1>5, AboveParent
<1>7. r \in Above(parent, p) BY <1>3, <1>4, <1>6
<1>8. p # None
  <2>1. Above(parent, None) = {} BY <1>1, AboveNone
  <2> QED BY <1>7, <2>1
<1>9. p \in Elements BY <1>5, <1>8
<1>10. p \in Under(children, r) BY <1>1, <1>7, <1>9, AboveUnder
<1>11. x \in ToSet(children[p]) BY <1>1, <1>3, <1>5, <1>8 DEF Kin
<1> QED BY <1>3, <1>5, <1>9, <1>10, <1>11

LEMMA InnerChild ==
    ASSUME TreeNow, NEW r, Sturdy(r), NEW x \in Under(children, r)
    PROVE  ToSet(children[x]) \subseteq Inner(r) /\ children[x] \in Seq(Elements)
<1>1. children \in Trees /\ RootsFree(children) /\ r \in Elements
  BY ScreenAssumption DEF TreeNow, TreeIn, Sturdy
<1>2. x \in Elements /\ ToSet(children[x]) \subseteq Under(children, r) BY <1>1, UnderIs
<1> QED BY <1>1, <1>2 DEF Inner, RootsFree, Trees

LEMMA Sides ==
    ASSUME TreeNow, NEW r, Sturdy(r), NEW x \in Inner(r)
    PROVE  /\ After(x) \in Inner(r) \cup {None}
           /\ Before(x) \in Inner(r) \cup {None}
<1>1. PICK p : p = parent[x] OBVIOUS
<1>2. p \in Under(children, r) /\ x \in ToSet(children[p]) BY <1>1, InnerParent
<1>3. PICK s : s = children[p] OBVIOUS
<1>4. s \in Seq(Elements) /\ ToSet(s) \subseteq Inner(r) /\ x \in ToSet(s)
  BY <1>2, <1>3, InnerChild
<1>5. PICK l \in Nat : l = Len(s) BY <1>4, LenProperties
<1>6. DOMAIN s = 1..l BY <1>4, <1>5, LenProperties
<1>7. PICK i : i = CHOOSE j \in DOMAIN s : s[j] = x OBVIOUS
<1>8. i \in 1..l BY <1>4, <1>6, <1>7 DEF ToSet
<1>9. \A j \in 1..l : s[j] \in Inner(r) BY <1>4, <1>6 DEF ToSet
<1>10. After(x) = IF i < l THEN s[i + 1] ELSE None BY <1>1, <1>3, <1>5, <1>7 DEF After, Siblings
<1>11. Before(x) = IF i > 1 THEN s[i - 1] ELSE None BY <1>1, <1>3, <1>7 DEF Before, Siblings
<1>12. (i < l => i + 1 \in 1..l) /\ (i > 1 => i - 1 \in 1..l) BY <1>8
<1> QED BY <1>9, <1>10, <1>11, <1>12

\* The climb ends at an element that has one next to it, or at a root.
Climbing(near) == [x \in Elements |-> IF parent[x] = None \/ near[x] # None THEN x ELSE parent[x]]

LEMMA ClimbIs ==
    ASSUME TreeNow, NEW r, Sturdy(r), NEW near, NEW y \in Under(children, r)
    PROVE  \E c \in Under(children, r) : /\ c = Steps(Climbing(near), y, Depth)
                                         /\ parent[c] = None \/ (c \in Inner(r) /\ near[c] # None)
<1>1. PICK next : next = Climbing(near) OBVIOUS
<1>2. PICK Fix : Fix = {x \in Elements : parent[x] = None \/ near[x] # None} OBVIOUS
<1>3. \A x \in Elements : /\ x \in Fix => next[x] = x
                          /\ x \notin Fix => next[x] = parent[x] /\ parent[x] # None
  BY <1>1, <1>2 DEF Climbing
<1>4. /\ parent \in Parents /\ children \in Trees BY DEF TreeNow, TreeIn
<1>5. r \in Roots /\ r \in Elements /\ parent[r] = None BY RootBare DEF Sturdy
<1>6. PICK B : B = Under(children, r) OBVIOUS
<1>7. B \subseteq Elements BY <1>4, <1>5, <1>6, UnderIs
<1>8. \A x \in B : next[x] \in B
  <2>1. TAKE x \in B
  <2>2. CASE x \in Fix BY <1>3, <1>7, <2>2
  <2>3. CASE x \notin Fix
    <3>1. next[x] = parent[x] /\ parent[x] # None BY <1>3, <1>7, <2>3
    <3>2. x \notin Roots BY <3>1, RootBare
    <3>3. x \in Inner(r) BY <1>6, <3>2 DEF Inner
    <3> QED BY <1>6, <3>1, <3>3, InnerParent
  <2> QED BY <2>2, <2>3
<1>9. PICK back : back = Against(next) OBVIOUS
<1>10. back \in Links BY <1>9 DEF Against, Links
<1>11. Fix \in SUBSET Elements BY <1>2
<1>12. PICK T : T = Reach(Fix, back) OBVIOUS
<1>13. Fix \subseteq T /\ T \subseteq Elements /\ \A x \in T : back[x] \subseteq T
  BY <1>10, <1>11, <1>12, Reached, ReachClosed
<1>14. y \in T
  <2>1. SUFFICES ASSUME y \notin T PROVE FALSE OBVIOUS
  <2>2. PICK C : C = Elements \ T OBVIOUS
  <2>3. y \in C /\ y \in Elements BY <1>6, <1>7, <2>1, <2>2
  <2>4. ASSUME NEW x \in C PROVE x \in Elements /\ (parent[x] # None => parent[x] \in C)
    <3>1. x \in Elements /\ x \notin T /\ x \notin Fix BY <1>13, <2>2
    <3>2. next[x] = parent[x] /\ parent[x] # None BY <1>3, <3>1
    <3>3. parent[x] \in Elements BY <1>4, <3>1, <3>2 DEF Parents
    <3>4. x \in back[parent[x]] BY <1>9, <3>1, <3>2, <3>3 DEF Against
    <3> QED BY <1>13, <2>2, <3>1, <3>3, <3>4
  <2>5. Above(parent, y) \subseteq C BY <1>4, <2>3, <2>4, AboveIs
  <2>6. r \in Above(parent, y) BY <1>6, UpIs, BelowIs DEF Sturdy, RootedIn
  <2>7. r \in Fix BY <1>2, <1>5
  <2> QED BY <1>13, <2>2, <2>5, <2>6, <2>7
<1>15. PICK c : c = Steps(next, y, Depth) OBVIOUS
<1>16. c \in Fix
  <2>1. y \in Reach(Fix, Against(next)) BY <1>9, <1>12, <1>14
  <2>2. \A x \in Fix : next[x] = x BY <1>3, <1>11
  <2> QED BY <1>11, <1>15, <2>1, <2>2, StepsEnd
<1>17. c \in B BY <1>6, <1>8, <1>15, DepthType, StepsIn
<1>18. parent[c] # None => c \in Inner(r) /\ near[c] # None
  <2>1. SUFFICES ASSUME parent[c] # None PROVE c \in Inner(r) /\ near[c] # None OBVIOUS
  <2>2. c \notin Roots BY <2>1, RootBare
  <2> QED BY <1>2, <1>6, <1>16, <1>17, <2>1, <2>2 DEF Inner
<1> QED BY <1>1, <1>6, <1>15, <1>17, <1>18

LEMMA EndsIn ==
    ASSUME NEW S, NEW s \in Seq(S), s # <<>>
    PROVE  Head(s) \in ToSet(s) /\ Last(s) \in ToSet(s)
<1>1. PICK l \in Nat : l = Len(s) BY LenProperties
<1>2. l # 0 BY <1>1, NoneIfZero
<1>3. 1 \in 1..l /\ l \in 1..l BY <1>2
<1>4. Head(s) = s[1] /\ Last(s) = s[l] BY <1>1 DEF Last
<1> QED BY <1>1, <1>3, <1>4, SeqItems

\* Something is shown that takes input.
Busy == TreeNow /\ Sturdy(root) /\ children[root] # <<>>

LEMMA StartsIn ==
    ASSUME Busy
    PROVE  Head(children[root]) \in Inner(root) /\ Last(children[root]) \in Inner(root)
<1>1. TreeNow /\ Sturdy(root) /\ children[root] # <<>> BY DEF Busy
<1>2. root \in Under(children, root) BY <1>1, ShownType, UnderIs DEF TreeNow, TreeIn
<1>3. PICK s : s = children[root] OBVIOUS
<1>4. s \in Seq(Elements) /\ ToSet(s) \subseteq Inner(root) BY <1>1, <1>2, <1>3, InnerChild
<1> QED BY <1>1, <1>3, <1>4, EndsIn

Both(r) == Inner(r) \cup Inner(root)

LEMMA UpIn ==
    ASSUME Busy, NEW r, Sturdy(r), NEW x \in Inner(r)
    PROVE  CycleUp(x) \in Both(r) /\ CycleUpBack(x) \in Both(r)
<1>1. TreeNow BY DEF Busy
<1>2. parent[x] \in Under(children, r) BY <1>1, InnerParent
<1>3. CycleUp(x) \in Both(r)
  <2>1. PICK near : near = [y \in Elements |-> After(y)] OBVIOUS
  <2>2. PICK c \in Under(children, r) :
            /\ c = Steps(Climbing(near), parent[x], Depth)
            /\ parent[c] = None \/ (c \in Inner(r) /\ near[c] # None)
    BY <1>1, <1>2, ClimbIs
  <2>3. Climbing(near)
            = [y \in Elements |-> IF parent[y] = None \/ After(y) # None THEN y ELSE parent[y]]
    BY <2>1 DEF Climbing
  <2>4. CycleUp(x) = IF parent[c] = None THEN Head(children[root]) ELSE After(c)
    BY <2>2, <2>3 DEF CycleUp
  <2>5. parent[c] # None => After(c) \in Inner(r)
    <3>1. SUFFICES ASSUME parent[c] # None PROVE After(c) \in Inner(r) OBVIOUS
    <3>2. c \in Inner(r) /\ near[c] # None BY <2>2, <3>1
    <3>3. c \in Elements /\ After(c) \in Inner(r) \cup {None} BY <1>1, <3>2, InnerParent, Sides
    <3> QED BY <2>1, <3>2, <3>3
  <2> QED BY <2>4, <2>5, StartsIn DEF Both
<1>4. CycleUpBack(x) \in Both(r)
  <2>1. PICK near : near = [y \in Elements |-> Before(y)] OBVIOUS
  <2>2. PICK c \in Under(children, r) :
            /\ c = Steps(Climbing(near), parent[x], Depth)
            /\ parent[c] = None \/ (c \in Inner(r) /\ near[c] # None)
    BY <1>1, <1>2, ClimbIs
  <2>3. Climbing(near)
            = [y \in Elements |-> IF parent[y] = None \/ Before(y) # None THEN y ELSE parent[y]]
    BY <2>1 DEF Climbing
  <2>4. CycleUpBack(x) = IF parent[c] = None THEN Last(children[root]) ELSE Before(c)
    BY <2>2, <2>3 DEF CycleUpBack
  <2>5. parent[c] # None => Before(c) \in Inner(r)
    <3>1. SUFFICES ASSUME parent[c] # None PROVE Before(c) \in Inner(r) OBVIOUS
    <3>2. c \in Inner(r) /\ near[c] # None BY <2>2, <3>1
    <3>3. c \in Elements /\ Before(c) \in Inner(r) \cup {None} BY <1>1, <3>2, InnerParent, Sides
    <3> QED BY <2>1, <3>2, <3>3
  <2> QED BY <2>4, <2>5, StartsIn DEF Both
<1> QED BY <1>3, <1>4

LEMMA NextIn ==
    ASSUME Busy, NEW r, Sturdy(r), NEW x \in Inner(r)
    PROVE  Following(x) \in Both(r) /\ Preceding(x) \in Both(r)
<1>1. TreeNow BY DEF Busy
<1>2. x \in Under(children, r) BY DEF Inner
<1>3. PICK s : s = children[x] OBVIOUS
<1>4. s \in Seq(Elements) /\ ToSet(s) \subseteq Inner(r) BY <1>1, <1>2, <1>3, InnerChild
<1>5. s # <<>> => Head(s) \in Inner(r) /\ Last(s) \in Inner(r) BY <1>4, EndsIn
<1>6. After(x) \in Inner(r) \cup {None} /\ Before(x) \in Inner(r) \cup {None} BY <1>1, Sides
<1>7. CycleUp(x) \in Both(r) /\ CycleUpBack(x) \in Both(r) BY UpIn
<1>8. \/ s # <<>> /\ Following(x) = Head(s) /\ Preceding(x) = Last(s)
      \/ /\ s = <<>>
         /\ (After(x) # None /\ Following(x) = After(x)) \/ Following(x) = CycleUp(x)
         /\ (Before(x) # None /\ Preceding(x) = Before(x)) \/ Preceding(x) = CycleUpBack(x)
  BY <1>3 DEF Following, Preceding
<1> QED BY <1>5, <1>6, <1>7, <1>8 DEF Both

\* Navigation from an element of a tree comes to one of it or of the one that is shown.
LEMMA OnwardIn ==
    ASSUME Busy, NEW r, Sturdy(r), NEW x \in Inner(r), NEW reverse
    PROVE  Onward(x, reverse) \in Both(r)
<1>1. Sturdy(root) /\ TreeNow BY DEF Busy
<1>2. PICK B : B = Both(r) OBVIOUS
<1>3. \A y \in B : Following(y) \in B /\ Preceding(y) \in B /\ y \in Elements
  <2>1. TAKE y \in B
  <2>2. CASE y \in Inner(r) BY <1>1, <1>2, <2>2, NextIn, InnerParent
  <2>3. CASE y \in Inner(root)
    <3>1. Following(y) \in Both(root) /\ Preceding(y) \in Both(root) /\ y \in Elements
      BY <1>1, <2>3, NextIn, InnerParent
    <3> QED BY <1>2, <3>1 DEF Both
  <2> QED BY <1>2, <2>2, <2>3 DEF Both
<1>4. x \in B BY <1>2 DEF Both
<1>5. Depth \in Nat BY DepthType
<1>6. Forward(x) \in B
  <2>1. PICK next : next = [y \in Elements |-> IF y \in Inputs THEN y ELSE Following(y)] OBVIOUS
  <2>2. \A y \in B : next[y] \in B BY <1>3, <2>1
  <2>3. PICK z \in B : z = Following(x) BY <1>3, <1>4
  <2>4. Steps(next, z, Depth) \in B BY <1>5, <2>2, StepsIn
  <2> QED BY <2>1, <2>3, <2>4 DEF Forward
<1>7. Backward(x) \in B
  <2>1. PICK next : next = [y \in Elements |-> IF y \in Inputs THEN y ELSE Preceding(y)] OBVIOUS
  <2>2. \A y \in B : next[y] \in B BY <1>3, <2>1
  <2>3. PICK z \in B : z = Preceding(x) BY <1>3, <1>4
  <2>4. Steps(next, z, Depth) \in B BY <1>5, <2>2, StepsIn
  <2> QED BY <2>1, <2>3, <2>4 DEF Backward
<1> QED BY <1>2, <1>6, <1>7 DEF Onward

LEMMA BusyIs ==
    ASSUME TreeNow, Rooted, Shown \cap Inputs # {}
    PROVE  Busy
<1>1. children \in Trees /\ root \in Roots /\ root \in Elements
  BY ScreenAssumption DEF TreeNow, TreeIn
<1>2. Sturdy(root) BY <1>1 DEF Sturdy, Rooted
<1>3. SUFFICES ASSUME children[root] = <<>> PROVE FALSE BY <1>2 DEF Busy
<1>4. ToSet(children[root]) = {} BY <1>3 DEF ToSet
<1>5. PICK C : C = {root} OBVIOUS
<1>6. root \in C /\ \A x \in C : x \in Elements /\ ToSet(children[x]) \subseteq C
  BY <1>1, <1>4, <1>5
<1>7. Under(children, root) \subseteq C BY <1>1, <1>6, UnderIs
<1> QED BY <1>5, <1>7, BelowIs DEF Shown

LEMMA Arrives ==
    ASSUME TreeNow, KnownNow(keynav, ui), NEW reverse, FocusNext(reverse)
    PROVE  keynav' \in Elements \ Roots
<1>1. Busy BY BusyIs DEF FocusNext
<1>2. TreeNow /\ Sturdy(root) BY <1>1 DEF Busy
<1>3. Start(reverse) \in Inner(root) BY <1>1, StartsIn DEF Start
<1>4. \A r : Sturdy(r) => Both(r) \subseteq Elements \ Roots
  <2>1. ASSUME NEW r, Sturdy(r), NEW x \in Inner(r) PROVE x \in Elements \ Roots
    BY <1>2, <2>1, InnerParent DEF Inner
  <2> QED BY <1>2, <2>1 DEF Both
<1>5. CASE Begun # None
  <2>1. PICK r \in Roots : Begun \in Below(r) /\ RootedIn(r) BY <1>5 DEF FocusNext
  <2>2. Begun \notin Roots
    <3>1. keynav \notin Roots BY DEF TreeNow
    <3>2. ui.focused \in Roots => parent[ui.focused] = None BY <1>2, RootBare
    <3> QED BY <1>5, <3>1, <3>2 DEF Begun
  <2>3. Sturdy(r) /\ Begun \in Inner(r) BY <2>1, <2>2, BelowIs DEF Sturdy, Inner
  <2>4. Onward(Begun, reverse) \in Both(r) BY <1>1, <2>3, OnwardIn
  <2>5. keynav' = Onward(Begun, reverse) BY <1>5 DEF FocusNext
  <2> QED BY <1>4, <2>3, <2>4, <2>5
<1>6. CASE Begun = None
  <2>1. Onward(Start(reverse), reverse) \in Both(root) BY <1>1, <1>2, <1>3, OnwardIn
  <2>2. keynav' \in {Start(reverse), Onward(Start(reverse), reverse)} BY <1>6 DEF FocusNext
  <2> QED BY <1>2, <1>3, <1>4, <2>1, <2>2 DEF Both
<1> QED BY <1>5, <1>6

LEMMA NextKnown ==
    ASSUME TreeNow, KnownNow(keynav, ui), NEW reverse, FocusNext(reverse)
    PROVE  /\ KnownNow(keynav, ui)' /\ ui'.clicked = ui.clicked
           /\ UNCHANGED <<children, parent, root, gone, left>> /\ keynav' \in Places \ Roots
<1>1. parent \in Parents /\ keynav \in Places BY DEF TreeNow, TreeIn
<1>2. PICK to : to = keynav' OBVIOUS
<1>3. to \in Places /\ to \notin Roots BY <1>2, Arrives DEF Places
<1>4. PICK w : w = Off(ui, keynav, "Keynavi") OBVIOUS
<1>5. KnownNow(to, w) /\ w.clicked = ui.clicked BY <1>1, <1>4, KeyOff DEF Clicks
<1>6. PICK x : x = On(w, to, "Keynavi") OBVIOUS
<1>7. KnownNow(to, x) /\ x.clicked = w.clicked BY <1>3, <1>5, <1>6, KeyOn DEF Clicks
<1>8. PICK y : y = Focus(x, to) OBVIOUS
<1>9. KnownNow(to, y) /\ y.clicked = x.clicked BY <1>1, <1>3, <1>7, <1>8, FocusKnown DEF Mice
<1>10. ui' = y /\ UNCHANGED <<children, parent, root, gone, left>>
  BY <1>2, <1>4, <1>6, <1>8 DEF FocusNext
<1>11. Known(parent', gone', left', keynav', ui') BY <1>2, <1>9, <1>10 DEF KnownNow
<1> QED BY <1>2, <1>3, <1>5, <1>7, <1>9, <1>10, <1>11 DEF KnownNow

LEMMA ClearKnown ==
    ASSUME TreeNow, KnownNow(keynav, ui), ClearKeynav
    PROVE  /\ KnownNow(keynav, ui)' /\ ui'.clicked = ui.clicked
           /\ UNCHANGED <<children, parent, root, gone, left>> /\ keynav' \in Places \ Roots
<1>1. parent \in Parents /\ keynav \in Places BY DEF TreeNow, TreeIn
<1>2. PICK to : to = None OBVIOUS
<1>3. to \in Places /\ to \notin Roots BY <1>2, ScreenAssumption DEF Places
<1>4. PICK w : w = Off(ui, keynav, "Keynavi") OBVIOUS
<1>5. KnownNow(to, w) /\ w.clicked = ui.clicked BY <1>1, <1>4, KeyOff DEF Clicks
<1>8. PICK y : y = Focus(w, to) OBVIOUS
<1>9. KnownNow(to, y) /\ y.clicked = w.clicked BY <1>1, <1>3, <1>5, <1>8, FocusKnown DEF Mice
<1>10. ui' = y /\ keynav' = to /\ UNCHANGED <<children, parent, root, gone, left>>
  BY <1>2, <1>4, <1>8 DEF ClearKeynav
<1>11. Known(parent', gone', left', keynav', ui') BY <1>9, <1>10 DEF KnownNow
<1> QED BY <1>3, <1>5, <1>9, <1>10, <1>11 DEF KnownNow

LEMMA CallKnown ==
    ASSUME TreeNow, KnownNow(keynav, ui), NEW e \in Elements \cup {None}, CallFocus(e)
    PROVE  /\ KnownNow(keynav, ui)' /\ ui'.clicked = ui.clicked
           /\ UNCHANGED <<children, parent, root, gone, left, keynav>>
<1>1. parent \in Parents BY DEF TreeNow, TreeIn
<1>2. e \in Places BY DEF Places
<1>8. PICK y : y = Focus(ui, e) OBVIOUS
<1>9. KnownNow(keynav, y) /\ y.clicked = ui.clicked BY <1>1, <1>2, <1>8, FocusKnown DEF Mice
<1>10. ui' = y /\ UNCHANGED <<children, parent, root, gone, left, keynav>>
  BY <1>8 DEF CallFocus
<1>11. Known(parent', gone', left', keynav', ui') BY <1>9, <1>10 DEF KnownNow
<1> QED BY <1>9, <1>10, <1>11 DEF KnownNow

-----------------------------------------------------------------------------
(* The pointers, whatever is done.                                         *)

Pressed == /\ "left" \notin pulse /\ missed \in BOOLEAN
           /\ (ui.clicked # None => "left" \in cur \/ missed)
PointersInv == TreeNow /\ KnownNow(keynav, ui) /\ Pressed

LEMMA PointersBegin == Init => PointersInv
<1> SUFFICES ASSUME Init PROVE PointersInv OBVIOUS
<1>1. /\ children = Planted /\ root = Home /\ keynav = None /\ gone = {} /\ left = {}
      /\ missed = FALSE /\ pulse = {}
  BY DEF Init, InitInput, InitScreen
<1>2. PICK st, none, nil : st = [e \in Elements |-> {}] /\ none = {} /\ nil = None OBVIOUS
<1>3. ui = [states |-> st, focused |-> nil, clicked |-> nil, targetted |-> nil, stale |-> none]
  BY <1>2 DEF Init, InitScreen
<1>4. /\ ui.states = st /\ ui.focused = nil /\ ui.clicked = nil /\ ui.targetted = nil
  BY <1>3
<1>5. \A e \in Elements : parent[e] = LET ps == {p \in Elements : Contains(Planted[p], e)}
                                      IN IF ps = {} THEN None ELSE CHOOSE p \in ps : TRUE
  BY DEF Init, InitScreen
<1>6. \A e \in Elements : parent[e] # None =>
          parent[e] \in Elements /\ Contains(Planted[parent[e]], e)
  <2>1. TAKE e \in Elements
  <2>2. PICK ps : ps = {p \in Elements : Contains(Planted[p], e)} OBVIOUS
  <2>3. parent[e] = IF ps = {} THEN None ELSE CHOOSE p \in ps : TRUE BY <1>5, <2>2
  <2>4. parent[e] # None => parent[e] \in ps BY <2>3
  <2> QED BY <2>2, <2>4
<1>7. TreeNow
  <2>1. children \in Trees BY <1>1, ScreenAssumption DEF Trees
  <2>2. parent \in Parents
    <3>1. parent = [e \in Elements |-> parent[e]] BY DEF Init, InitScreen
    <3>2. \A e \in Elements : parent[e] \in Elements \cup {None} BY <1>6
    <3> QED BY <3>1, <3>2 DEF Parents
  <2>3. RootsFree(children) BY <1>1, ScreenAssumption DEF RootsFree
  <2>4. Kin(children, parent)
    <3>1. ASSUME NEW c \in Elements, parent[c] # None PROVE c \in ToSet(children[parent[c]])
      <4>1. PICK s : s = Planted[parent[c]] OBVIOUS
      <4>2. s \in Seq(Elements) /\ Contains(s, c) BY <1>6, <3>1, <4>1, ScreenAssumption
      <4>3. c \in ToSet(s) BY <4>2, SeqItems DEF Contains
      <4> QED BY <1>1, <4>1, <4>3
    <3> QED BY <3>1 DEF Kin
  <2>5. root \in Roots /\ keynav \in Places \ Roots BY <1>1, ScreenAssumption DEF Places
  <2> QED BY <2>1, <2>2, <2>3, <2>4, <2>5 DEF TreeNow, TreeIn
<1>8. KnownNow(keynav, ui)
  <2>1. ui \in Uis
    <3>1. st \in [Elements -> SUBSET AllStates] /\ none \in SUBSET Elements /\ nil \in Places
      BY <1>2 DEF Places
    <3> QED BY <1>3, <3>1 DEF Uis
  <2>2. Above(parent, nil) = {} BY <1>2, <1>7, AboveNone DEF TreeNow, TreeIn
  <2>3. ASSUME NEW e \in Elements
        PROVE  PointAt(left, keynav, ui, e) /\ ChainAt(parent, ui, e)
    <3>1. ui.states[e] = {} /\ e # nil BY <1>2, <1>4, ScreenAssumption
    <3> QED BY <1>4, <2>2, <3>1 DEF PointAt, ChainAt
  <2> QED BY <2>1, <2>3 DEF KnownNow, Known
<1>9. Pressed BY <1>1, <1>2, <1>4 DEF Pressed
<1> QED BY <1>7, <1>8, <1>9 DEF PointersInv

\* Nothing of the tree, the pointers and the button.
LEMMA PointersStay ==
    ASSUME PointersInv, UNCHANGED <<children, parent, root, ui, keynav, gone, left, missed>>,
           UNCHANGED <<cur, pulse>>
    PROVE  PointersInv'
<1>1. TreeNow' BY DEF PointersInv, TreeNow
<1>2. Known(parent', gone', left', keynav', ui') BY DEF PointersInv, KnownNow
<1>3. Pressed' BY DEF PointersInv, Pressed
<1> QED BY <1>1, <1>2, <1>3 DEF PointersInv, KnownNow

LEMMA EscapeKnown ==
    ASSUME TreeNow, NEW u, KnownNow(keynav, u), NEW f
    PROVE  KnownNow(keynav, Escape(u, f)) /\ Clicks(u, Escape(u, f))
<1>1. PICK to : to = None OBVIOUS
<1>2. to \in Places /\ parent \in Parents BY <1>1 DEF Places, TreeNow, TreeIn
<1>3. PICK v : v = Focus(u, to) OBVIOUS
<1>4. KnownNow(keynav, v) /\ Clicks(u, v) BY <1>2, <1>3, FocusKnown DEF Mice, Clicks
<1>5. Escape(u, f) = v \/ Escape(u, f) = u BY <1>1, <1>3 DEF Escape
<1> QED BY <1>4, <1>5 DEF Clicks

LEMMA PointersTurn ==
    ASSUME InterfaceInv, PointersInv, NEW n \in 0..Len(line), Turn(n) PROVE PointersInv'
<1>1. PICK r, f, pointed, bound, slow, order, key, end :
          TurnOf(n, r, f, pointed, bound, slow, order, key, end)
  BY TurnIs
<1>2. PICK es : es = r.events OBVIOUS
<1>3. es \in Seq(Strokes) /\ f = FrameOf(es)
  BY <1>1, <1>2, CycleKeeps DEF InterfaceInv, TurnOf, Ended
<1>4. TreeNow /\ KnownNow(keynav, ui) /\ Pressed BY DEF PointersInv
<1>5. /\ "left" \notin f.pulse
      /\ "left" \in f.pressed => "left" \in f.cur
      /\ "left" \in cur /\ "left" \notin f.released => "left" \in f.cur
      /\ "left" \in cur /\ ~ f.KeyMouseInput => "left" \in f.cur
  BY <1>3, <1>4, Button DEF Pressed
<1>6. pointed = Mouse(f) BY <1>1 DEF TurnOf
<1>7. /\ KnownNow(keynav, pointed)
      /\ pointed.clicked # None =>
             \/ ~ f.KeyMouseInput /\ ui.clicked # None
             \/ "left" \notin f.released /\ ("left" \in f.pressed \/ ui.clicked # None)
  BY <1>4, <1>6, MouseKnown
<1>8. GoodBinder(bound, pointed.states) BY <1>1, ListenedGood DEF InterfaceInv, TurnOf
<1>9. order \in SetToSeqs({m \in Names : Completes(bound, m, pointed, f, slow)})
  BY <1>1 DEF TurnOf
<1>10. Handled(pointed, key.w)
  <2>1. Handled(pointed, KeyInput(bound, pointed, f, slow, order).w)
    BY <1>4, <1>7, <1>8, <1>9, KeyInputKnown
  <2>2. key = KeyInput(bound, pointed, f, slow, order) BY <1>1 DEF TurnOf
  <2> QED BY <2>1, <2>2
<1>11. PICK u : u = key.w.u OBVIOUS
<1>12. KnownNow(keynav, u) /\ u.clicked = pointed.clicked BY <1>10, <1>11 DEF Handled, Clicks
<1>13. end = Escape(u, f) BY <1>1, <1>11 DEF TurnOf
<1>14. KnownNow(keynav, end) /\ end.clicked = pointed.clicked
  BY <1>4, <1>12, <1>13, EscapeKnown DEF Clicks
<1>15. /\ ui' = end /\ cur' = f.cur /\ pulse' = f.pulse
       /\ UNCHANGED <<children, parent, root, keynav, gone, left, missed>>
  BY <1>1 DEF TurnOf, Ended, Cycle
<1>16. TreeNow' BY <1>4, <1>15 DEF TreeNow
<1>17. Known(parent', gone', left', keynav', ui') BY <1>14, <1>15 DEF KnownNow
<1>18. Pressed'
  <2>1. "left" \notin pulse' /\ missed' \in BOOLEAN BY <1>4, <1>5, <1>15 DEF Pressed
  <2>2. ASSUME end.clicked # None PROVE "left" \in f.cur \/ missed
    <3>1. ui.clicked # None => "left" \in cur \/ missed BY <1>4 DEF Pressed
    <3> QED BY <1>5, <1>7, <1>14, <2>2, <3>1
  <2> QED BY <1>15, <2>1, <2>2 DEF Pressed
<1> QED BY <1>16, <1>17, <1>18 DEF PointersInv, KnownNow

LEMMA PointersSwitch == ASSUME InterfaceInv, PointersInv, Switch PROVE PointersInv'
<1>1. PICK n \in 0..Len(line) : \E p \in Roots : \E r \in {Read(n)} : \E f \in {FrameOf(r.events)} :
          SetTree(p, f) /\ Cycle(n, r, f) /\ Listen /\ Rest
  BY DEF Switch
<1>2. PICK r, f, p : r = Read(n) /\ f = FrameOf(r.events) /\ SetTree(p, f) /\ Cycle(n, r, f) BY <1>1
<1>3. PICK es : es = r.events OBVIOUS
<1>4. es \in Seq(Strokes) /\ f = FrameOf(es) BY <1>2, <1>3, CycleKeeps DEF InterfaceInv
<1>5. TreeNow /\ KnownNow(keynav, ui) /\ Pressed BY DEF PointersInv
<1>6. /\ "left" \notin f.pulse /\ ("left" \in cur /\ ~ f.KeyMouseInput => "left" \in f.cur)
  BY <1>4, <1>5, Button DEF Pressed
<1>7. /\ KnownNow(keynav, ui)' /\ ui'.clicked = ui.clicked
      /\ UNCHANGED <<children, parent, keynav, gone>> /\ root' = p /\ p \in Roots
  BY <1>2, <1>5, SwitchKnown
<1>8. TreeNow' BY <1>5, <1>7 DEF TreeNow
<1>9. missed' = (missed \/ f.KeyMouseInput) /\ cur' = f.cur /\ pulse' = f.pulse
  BY <1>2 DEF SetTree, Cycle
<1>10. Pressed'
  <2>1. f.KeyMouseInput \in BOOLEAN BY <1>2 DEF FrameOf
  <2>2. missed \in BOOLEAN /\ (ui.clicked # None => "left" \in cur \/ missed) BY <1>5 DEF Pressed
  <2>3. missed' \in BOOLEAN BY <1>9, <2>1, <2>2
  <2>4. ui'.clicked # None => "left" \in cur' \/ missed' BY <1>6, <1>7, <1>9, <2>2
  <2> QED BY <1>6, <1>9, <2>3, <2>4 DEF Pressed
<1> QED BY <1>7, <1>8, <1>10 DEF PointersInv

LEMMA PointersTree == ASSUME PointersInv, Tree PROVE PointersInv'
<1>1. TreeNow /\ KnownNow(keynav, ui) /\ Pressed BY DEF PointersInv
<1>2. UNCHANGED <<cur, pulse>> BY DEF Tree, inputVars
<1> DEFINE Done == /\ TreeIn(children', parent') /\ Known(parent', gone', left, keynav, ui')
                   /\ UNCHANGED <<root, keynav, left, missed>>
                   /\ ui'.clicked # None => ui.clicked # None
<1>3. Done
  <2>1. ASSUME NEW e \in Elements, RemoveElement(e) PROVE Done
    <3>1. ui'.clicked = Lost(ui.clicked, Below(e)) BY <2>1 DEF RemoveElement
    <3>2. UNCHANGED <<root, keynav, left, missed>> BY <2>1 DEF RemoveElement
    <3> QED BY <1>1, <2>1, <3>1, <3>2, RemoveKnown DEF Lost
  <2>2. ASSUME NEW e \in Elements, NEW p \in Containers, Move(e, p) PROVE Done
    <3>1. p \in Elements BY ScreenAssumption
    <3>2. ui'.clicked = ui.clicked
      <4>1. ui \in Uis BY <1>1 DEF KnownNow, Known
      <4>2. PICK stale : ui' = [ui EXCEPT !.stale = stale] BY <2>2 DEF Move
      <4> QED BY <4>1, <4>2 DEF Uis
    <3>3. UNCHANGED <<root, keynav, left, missed>> BY <2>2 DEF Move
    <3> QED BY <1>1, <2>2, <3>1, <3>2, <3>3, MoveKnown
  <2> QED BY <2>1, <2>2 DEF Tree
<1>4. TreeNow' BY <1>1, <1>3 DEF TreeNow
<1>5. Known(parent', gone', left', keynav', ui') BY <1>3
<1>6. Pressed' BY <1>1, <1>2, <1>3 DEF Pressed
<1> QED BY <1>4, <1>5, <1>6 DEF PointersInv, KnownNow

LEMMA PointersPoint == ASSUME PointersInv, Point PROVE PointersInv'
<1>1. TreeNow /\ KnownNow(keynav, ui) /\ Pressed BY DEF PointersInv
<1>2. UNCHANGED <<cur, pulse, missed>> BY DEF Point, inputVars, CallFocus, FocusNext, ClearKeynav
<1> DEFINE Done == /\ KnownNow(keynav, ui)' /\ ui'.clicked = ui.clicked
                   /\ UNCHANGED <<children, parent, root, gone, left>>
                   /\ keynav' \in Places \ Roots
<1>3. Done
  <2>1. ASSUME NEW e \in Elements \cup {None}, CallFocus(e) PROVE Done
    BY <1>1, <2>1, CallKnown DEF TreeNow
  <2>2. ASSUME NEW reverse \in BOOLEAN, FocusNext(reverse) PROVE Done
    BY <1>1, <2>2, NextKnown
  <2>3. CASE ClearKeynav BY <1>1, <2>3, ClearKnown
  <2> QED BY <2>1, <2>2, <2>3 DEF Point
<1>4. TreeNow' BY <1>1, <1>3 DEF TreeNow
<1>5. Pressed' BY <1>1, <1>2, <1>3 DEF Pressed
<1> QED BY <1>3, <1>4, <1>5 DEF PointersInv

LEMMA PointersInvInvariant == Spec => []PointersInv
<1>1. InterfaceInv /\ PointersInv /\ [Next]_vars => PointersInv'
  <2> SUFFICES ASSUME InterfaceInv, PointersInv, [Next]_vars PROVE PointersInv' OBVIOUS
  <2>1. CASE Typing /\ UNCHANGED <<screenVars, binder, early>> /\ Rest
    <3>1. UNCHANGED <<cur, pulse>> BY <2>1 DEF Typing, Type, Pass
    <3> QED BY <2>1, <3>1, PointersStay DEF screenVars
  <2>2. ASSUME NEW n \in 0..Len(line), Turn(n) PROVE PointersInv' BY <2>2, PointersTurn
  <2>3. CASE Tree BY <2>3, PointersTree
  <2>4. CASE Switch BY <2>4, PointersSwitch
  <2>5. CASE Point BY <2>5, PointersPoint
  <2>6. CASE Binds BY <2>6, PointersStay DEF Binds, inputVars
  <2>7. CASE UNCHANGED vars BY <2>7, PointersStay DEF vars, screenVars, inputVars
  <2> QED BY <2>1, <2>2, <2>3, <2>4, <2>5, <2>6, <2>7 DEF Next
<1> QED BY <1>1, PointersBegin, InterfaceInvInvariant, PTL DEF Spec

\* The pointers of the screen and the states of the elements agree, whatever is removed, moved,
\* focused, navigated to or shown (SystemScreen, ParentElement, Element::setstate).
THEOREM PointersAgree == Spec => []PointersKnown
<1>1. PointersInv => PointersKnown
  <2> SUFFICES ASSUME PointersInv PROVE PointersKnown OBVIOUS
  <2>1. \A e \in Elements : /\ PointAt(left, keynav, ui, e)
                            /\ e \notin ui.stale \cup gone => ChainAt(parent, ui, e)
    BY DEF PointersInv, KnownNow, Known
  <2>2. ui.focused \in Elements \cup {None} BY DEF PointersInv, KnownNow, Known, Uis, Places
  <2>3. ui.clicked # None => "left" \in cur \/ missed BY DEF PointersInv, Pressed
  <2>4. StatesPoint BY <2>1, <2>2, <2>3 DEF StatesPoint, PointAt
  <2>5. RcChains BY <2>1, UpIs DEF RcChains, ChainAt
  <2> QED BY <2>4, <2>5 DEF PointersKnown
<1> QED BY <1>1, PointersInvInvariant, PTL
=============================================================================
