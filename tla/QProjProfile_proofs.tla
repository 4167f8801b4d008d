------------------------- MODULE QProjProfile_proofs -------------------------
(***************************************************************************)
(* Proofs about QProjProfile for any profiles, adapters, orders of targets *)
(* and any number of forwards and closes, and about Measurement, the       *)
(* programs that record and measure, in the last part.                     *)
(*                                                                         *)
(* That everything is put back is a fact about the undo lists.  Hooked and *)
(* Production say what is in each place by whether a list has a note of    *)
(* it, Once that no place is noted twice, and Held that the lists of two   *)
(* profiles are about different adapters, so that undoing a note concerns  *)
(* nobody else.  Progress ties the list to where the installation is, so   *)
(* that the body starts with a hook in every place: that is why the spans  *)
(* of a profile's own forwards cannot get past it.                         *)
(***************************************************************************)
EXTENDS QProjProfile, Measurement, SequenceTheorems, TLAPS

Kinds == Range(Places)
Contents == Profilers \cup {None, "production"}
Notes == Adapters \X Kinds \X Contents

TypeOK ==
  /\ found \in [Adapters -> [Kinds -> Contents]]
  /\ open \in [Adapters -> {"open", "closing", "shut", "closed"}]
  /\ pc \in [Profilers ->
       {"targets", "counters", "binding", "activate", "install", "body", "undo", "exit", "ended"}]
  /\ i \in [Profilers -> Nat] /\ \A p \in Profilers : i[p] \in 1 .. Len(Paths[p])
  /\ j \in [Profilers -> 1 .. 5]
  /\ binding \in [Profilers -> [Adapters -> Contents]]
  /\ undo \in [Profilers -> Seq(Notes)]
  /\ errors \in [Profilers -> BOOLEAN]
  /\ outcome \in [Profilers -> {"none", "ok", "raised"}]
  /\ forward \in [Threads -> [adapter : Adapters \cup {None},
                              step : {"none"} \cup (Kinds \ {"fallback"}),
                              fetched : Contents]]
  /\ \A t \in Threads : forward[t].step # "none" => forward[t].adapter \in Adapters
  /\ traced \in [Profilers -> SUBSET Threads]
  /\ missed \in [Profilers -> BOOLEAN]
  /\ active \subseteq Adapters

Holding(p) == pc[p] \in {"install", "body", "undo"}

\* p's undo list has a note of place k of adapter a.
Noted(p, a, k) == \E m \in 1 .. Len(undo[p]) : undo[p][m][1] = a /\ undo[p][m][2] = k

\* Each adapter that is active is the target of one profile that is in its context.
Held ==
  /\ \A p \in Profilers : Holding(p) => Range(Paths[p]) \subseteq active
  /\ \A p, q \in Profilers :
       Holding(p) /\ Holding(q) /\ p # q => Range(Paths[p]) \cap Range(Paths[q]) = {}
  /\ \A a \in active : \E p \in Profilers : Holding(p) /\ a \in Range(Paths[p])

\* Notes are of the profile's own targets, while it is in its context.
Own ==
  /\ \A p \in Profilers : ~Holding(p) => undo[p] = <<>>
  /\ \A p \in Profilers : \A m \in 1 .. Len(undo[p]) : undo[p][m][1] \in Range(Paths[p])

Once ==
  \A p \in Profilers : \A m, h \in 1 .. Len(undo[p]) :
    undo[p][m][1] = undo[p][h][1] /\ undo[p][m][2] = undo[p][h][2] => m = h

\* The places that are noted are those before the one that comes next, then all.
Progress ==
  \A p \in Profilers : \A h \in 1 .. Len(Paths[p]), l \in 1 .. 5 :
    /\ pc[p] = "install" =>
         (Noted(p, Paths[p][h], Places[l]) <=> h < i[p] \/ (h = i[p] /\ l < j[p]))
    /\ pc[p] = "body" => Noted(p, Paths[p][h], Places[l])

\* A place that is noted has the hook; an entry may be gone with its binding.
Hooked ==
  \A p \in Profilers, a \in Adapters, k \in Kinds :
    Noted(p, a, k) => found[a][k] = p \/ (k = "entry" /\ found[a][k] = None)

\* A place nobody noted has what it had before all profiles, and so will the others
\* once they are undone.
Production ==
  \A a \in Adapters \ torn :
    /\ found[a]["entry"] = None <=> open[a] = "closed"
    /\ \A k \in Kinds : (\A p \in Profilers : ~Noted(p, a, k)) =>
         found[a][k] = "production" \/ (k = "entry" /\ found[a][k] = None)
    /\ \A p \in Profilers : \A m \in 1 .. Len(undo[p]) :
         undo[p][m][1] = a => undo[p][m][3] = "production"

\* A binding was there when it was taken, and is kept until its proxy is put in.
Bound ==
  \A p \in Profilers : \A h \in 1 .. Len(Paths[p]) :
    /\ pc[p] \in {"targets", "counters", "binding"} /\ h < i[p] => binding[p][Paths[p][h]] # None
    /\ pc[p] = "activate" => binding[p][Paths[p][h]] # None
    /\ pc[p] = "install" /\ (h > i[p] \/ (h = i[p] /\ j[p] = 1)) =>
         binding[p][Paths[p][h]] # None

\* The installation starts at the first place of the first target.
Starts ==
  \A p \in Profilers :
    /\ pc[p] \in {"targets", "counters", "binding", "activate"} => j[p] = 1
    /\ pc[p] = "activate" => i[p] = 1

\* A profile runs its own targets in its body, through its own hooks.
Spans ==
  \A p \in Profilers :
    /\ traced[p] \subseteq {p}
    /\ forward[p] # Idle => pc[p] = "body"
    /\ forward[p].step # "none" => forward[p].adapter \in Range(Paths[p])
    /\ forward[p].fetched \in {None, p}
    /\ missed[p] => errors[p]
    /\ outcome[p] = "ok" => pc[p] = "ended" /\ ~missed[p]

\* What the undo lists say of the adapters, and where the profiles are.
ListsOK == Held /\ Own /\ Once /\ Hooked /\ Production
PositionOK == Progress /\ Bound /\ Starts

IInv == TypeOK /\ ListsOK /\ PositionOK /\ Spans

-----------------------------------------------------------------------------
(* Constants, notes and lists                                              *)

LEMMA PlacesAre ==
  /\ Kinds = {"entry", "guard", "fallback", "callable_fallback", "native"}
  /\ Len(Places) = 5
  /\ \A l \in 1 .. 5 : Places[l] \in Kinds
  /\ \A k \in Kinds : \E l \in 1 .. 5 : Places[l] = k
  /\ \A l, m \in 1 .. 5 : Places[l] = Places[m] => l = m
  /\ \A l \in 1 .. 5 : Places[l] = "entry" => l = 1
  /\ Places[1] = "entry"
<1>1. Len(Places) = 5 /\ DOMAIN Places = 1 .. 5
  BY DEF Places
<1>2. 1 .. 5 = {1, 2, 3, 4, 5}
  OBVIOUS
<1>3. /\ Places[1] = "entry" /\ Places[2] = "guard" /\ Places[3] = "fallback"
      /\ Places[4] = "callable_fallback" /\ Places[5] = "native"
  BY DEF Places
<1>4. Kinds = {Places[1], Places[2], Places[3], Places[4], Places[5]}
  BY <1>1, <1>2, Zenon DEF Kinds, Range
<1>. QED BY <1>1, <1>2, <1>3, <1>4

LEMMA TargetsAre ==
  ASSUME NEW p \in Profilers
  PROVE  /\ Len(Paths[p]) \in Nat \ {0}
         /\ \A h \in 1 .. Len(Paths[p]) :
              Paths[p][h] \in Adapters /\ Paths[p][h] \in Range(Paths[p])
         /\ \A a \in Range(Paths[p]) :
              a \in Adapters /\ \E h \in 1 .. Len(Paths[p]) : a = Paths[p][h]
         /\ \A m, h \in 1 .. Len(Paths[p]) : Paths[p][m] = Paths[p][h] => m = h
<1>1. Paths[p] \in Seq(Adapters) /\ Paths[p] # <<>> /\ IsInjective(Paths[p])
  BY ProfileAssumption
<1>2. DOMAIN Paths[p] = 1 .. Len(Paths[p])
  BY <1>1
<1>. QED BY <1>1, <1>2 DEF Range, IsInjective

LEMMA AppendIsLast ==
  ASSUME NEW S, NEW s \in Seq(S), NEW x \in S
  PROVE  /\ Append(s, x) \in Seq(S) /\ Len(Append(s, x)) = Len(s) + 1
         /\ \A m \in 1 .. Len(s) : Append(s, x)[m] = s[m]
         /\ Append(s, x)[Len(s) + 1] = x
<1>. QED OBVIOUS

LEMMA FrontAndLast ==
  ASSUME NEW S, NEW s \in Seq(S), s # <<>>
  PROVE  /\ Len(s) \in Nat \ {0}
         /\ Front(s) \in Seq(S) /\ Len(Front(s)) = Len(s) - 1
         /\ \A m \in 1 .. Len(s) - 1 : Front(s)[m] = s[m]
         /\ Last(s) = s[Len(s)] /\ Last(s) \in S
<1>1. Len(s) \in Nat \ {0}
  OBVIOUS
<1>2. \A m \in 1 .. Len(s) - 1 : s[m] \in S
  BY <1>1
<1>3. Front(s) = SubSeq(s, 1, Len(s) - 1)
  BY DEF Front
<1>. DEFINE h == Len(s) - 1
<1>4. h \in Nat
  BY <1>1
<1>. HIDE DEF h
<1>5. /\ SubSeq(s, 1, h) \in Seq(S)
      /\ Len(SubSeq(s, 1, h)) = IF 1 <= h THEN h - 1 + 1 ELSE 0
      /\ \A m \in 1 .. h - 1 + 1 : SubSeq(s, 1, h)[m] = s[1 + m - 1]
  <2>1. \A m \in 1 .. h : s[m] \in S
    BY <1>2 DEF h
  <2>. QED BY <1>4, <2>1, SubSeqProperties
<1>6. /\ Front(s) \in Seq(S) /\ Len(Front(s)) = h
      /\ \A m \in 1 .. h : Front(s)[m] = s[m]
  <2>1. Front(s) = SubSeq(s, 1, h)
    BY <1>3 DEF h
  <2>. QED BY <1>4, <1>5, <2>1
<1>7. Last(s) = s[Len(s)] /\ s[Len(s)] \in S
  BY <1>1 DEF Last
<1>. QED BY <1>1, <1>6, <1>7 DEF h

LEMMA NotesAre ==
  ASSUME TypeOK, NEW p \in Profilers, NEW m \in 1 .. Len(undo[p])
  PROVE  undo[p][m][1] \in Adapters /\ undo[p][m][2] \in Kinds /\ undo[p][m][3] \in Contents
<1>1. undo[p] \in Seq(Notes)
  BY DEF TypeOK
<1>2. undo[p][m] \in Notes
  BY <1>1
<1>. QED BY <1>2 DEF Notes

-----------------------------------------------------------------------------
(* Types                                                                   *)

\* Undoing a note writes its place or reports an error, and withdraws none.
LEMMA RestoresEffect ==
  ASSUME TypeOK, NEW p \in Profilers, NEW a \in Adapters, NEW k \in Kinds, NEW before \in Contents,
         Restores(p, a, k, before)
  PROVE  /\ errors' \in [Profilers -> BOOLEAN]
         /\ \A q \in Profilers : errors[q] => errors'[q]
         /\ \/ UNCHANGED found
            \/ \E c \in {None, before} : found' = [found EXCEPT ![a][k] = c]
         /\ k = "entry" /\ found[a][k] = p =>
              found' = [found EXCEPT ![a][k] = IF open[a] = "closed" THEN None ELSE before]
         /\ k = "entry" /\ found[a][k] # p => UNCHANGED found
         /\ k # "entry" /\ found[a][k] # "production" => found' = [found EXCEPT ![a][k] = before]
<1>1. CASE k = "entry" /\ found[a][k] = p
  <2>1. /\ found' = [found EXCEPT ![a][k] = IF open[a] = "closed" THEN None ELSE before]
        /\ UNCHANGED errors
    BY <1>1 DEF Restores
  <2>. QED BY <1>1, <2>1 DEF TypeOK
<1>2. CASE k = "entry" /\ found[a][k] # p
  <2>1. /\ errors' = [errors EXCEPT ![p] = @ \/ found[a][k] # None \/ open[a] # "closed"]
        /\ UNCHANGED found
    BY <1>2 DEF Restores
  <2>2. errors' \in [Profilers -> BOOLEAN] /\ \A q \in Profilers : errors[q] => errors'[q]
    BY <2>1, Zenon DEF TypeOK
  <2>. QED BY <1>2, <2>1, <2>2
<1>3. CASE k \in {"guard", "fallback"} /\ found[a][k] = "production"
  <2>1. errors' = [errors EXCEPT ![p] = TRUE] /\ UNCHANGED found
    BY <1>3 DEF Restores
  <2>. QED BY <1>3, <2>1 DEF TypeOK
<1>4. CASE k # "entry" /\ ~(k \in {"guard", "fallback"} /\ found[a][k] = "production")
  <2>1. found' = [found EXCEPT ![a][k] = before] /\ UNCHANGED errors
    BY <1>4 DEF Restores
  <2>. QED BY <1>4, <2>1 DEF TypeOK
<1>. QED BY <1>1, <1>2, <1>3, <1>4

\* Recording a span keeps what is recorded, and loses it with an error only.
LEMMA RecordEffect ==
  ASSUME TypeOK, NEW p \in Profilers, NEW t \in Threads, Record(p, t)
  PROVE  /\ errors' \in [Profilers -> BOOLEAN]
         /\ \A q \in Profilers : errors[q] => errors'[q]
         /\ traced' \in [Profilers -> SUBSET Threads]
         /\ \A q \in Profilers : traced'[q] \subseteq traced[q] \cup (IF t = q THEN {t} ELSE {})
<1>1. \/ UNCHANGED errors
      \/ errors' = [errors EXCEPT ![p] = TRUE]
  BY DEF Record
<1>2. UNCHANGED traced \/ (t = p /\ traced' = [traced EXCEPT ![p] = @ \cup {t}])
  BY DEF Record
<1>3. errors' \in [Profilers -> BOOLEAN] /\ \A q \in Profilers : errors[q] => errors'[q]
  BY <1>1 DEF TypeOK
<1>4. /\ traced' \in [Profilers -> SUBSET Threads]
      /\ \A q \in Profilers : traced'[q] \subseteq traced[q] \cup (IF t = q THEN {t} ELSE {})
  <2>1. CASE UNCHANGED traced
    BY <2>1 DEF TypeOK
  <2>2. CASE t = p /\ traced' = [traced EXCEPT ![p] = @ \cup {t}]
    <3>1. \A q \in Profilers : traced'[q] = IF q = t THEN traced[q] \cup {t} ELSE traced[q]
      BY <2>2 DEF TypeOK
    <3>2. \A q \in Profilers : traced[q] \subseteq Threads
      BY DEF TypeOK
    <3>3. traced' \in [Profilers -> SUBSET Threads]
      BY <2>2, <3>1, <3>2 DEF TypeOK
    <3>. QED BY <3>1, <3>3
  <2>. QED BY <1>2, <2>1, <2>2
<1>. QED BY <1>3, <1>4

LEMMA WorkEffect ==
  ASSUME TypeOK, NEW t \in Threads, Work(t)
  PROVE  /\ errors' \in [Profilers -> BOOLEAN]
         /\ \A q \in Profilers : errors[q] => errors'[q]
         /\ traced' \in [Profilers -> SUBSET Threads]
         /\ \A q \in Profilers : traced'[q] \subseteq traced[q] \cup (IF t = q THEN {t} ELSE {})
         /\ missed' \in [Profilers -> BOOLEAN]
         /\ \A q \in Profilers \ {t} : missed'[q] = missed[q]
         /\ t \in Profilers =>
              (missed'[t] <=> missed[t] \/ forward[t].fetched # t \/ errors'[t])
<1>. DEFINE hook == forward[t].fetched
<1>1. CASE hook \in Profilers
  <2>1. Record(hook, t)
    BY <1>1 DEF Work
  <2>. QED
    <3>1. /\ errors' \in [Profilers -> BOOLEAN]
          /\ \A q \in Profilers : errors[q] => errors'[q]
          /\ traced' \in [Profilers -> SUBSET Threads]
          /\ \A q \in Profilers : traced'[q] \subseteq traced[q] \cup (IF t = q THEN {t} ELSE {})
      BY <1>1, <2>1, RecordEffect
    <3>2. /\ missed' \in [Profilers -> BOOLEAN]
          /\ \A q \in Profilers \ {t} : missed'[q] = missed[q]
          /\ t \in Profilers =>
               (missed'[t] <=> missed[t] \/ forward[t].fetched # t \/ errors'[t])
      BY Zenon DEF Work, TypeOK
    <3>. QED BY <3>1, <3>2
<1>2. CASE hook \notin Profilers
  <2>1. UNCHANGED <<errors, traced>>
    BY <1>2 DEF Work
  <2>2. /\ missed' \in [Profilers -> BOOLEAN]
        /\ \A q \in Profilers \ {t} : missed'[q] = missed[q]
        /\ t \in Profilers =>
             (missed'[t] <=> missed[t] \/ forward[t].fetched # t \/ errors'[t])
    BY Zenon DEF Work, TypeOK
  <2>. QED BY <2>1, <2>2 DEF TypeOK
<1>. QED BY <1>1, <1>2

LEMMA PositionUpdate ==
  ASSUME TypeOK, NEW p \in Profilers, NEW h \in 1 .. Len(Paths[p]), i' = [i EXCEPT ![p] = h]
  PROVE  /\ i' \in [Profilers -> Nat]
         /\ \A q \in Profilers : i'[q] \in 1 .. Len(Paths[q])
<1>1. h \in Nat
  BY TargetsAre
<1>2. \A q \in Profilers : i'[q] = IF q = p THEN h ELSE i[q]
  BY DEF TypeOK
<1>. QED BY <1>1, <1>2 DEF TypeOK

\* Before and after the position of a profile, as far as there are targets.
LEMMA PositionIs ==
  ASSUME TypeOK, NEW p \in Profilers
  PROVE  /\ i[p] \in 1 .. Len(Paths[p]) /\ 1 \in 1 .. Len(Paths[p])
         /\ ~AtLast(p) => i[p] + 1 \in 1 .. Len(Paths[p]) /\ i[p] < Len(Paths[p])
         /\ Target(p) = Paths[p][i[p]] /\ Target(p) \in Adapters /\ Target(p) \in Range(Paths[p])
<1>1. Len(Paths[p]) \in Nat \ {0}
  BY TargetsAre
<1>2. i[p] \in 1 .. Len(Paths[p])
  BY DEF TypeOK
<1>3. ~AtLast(p) => i[p] + 1 \in 1 .. Len(Paths[p]) /\ i[p] < Len(Paths[p])
  BY <1>1, <1>2 DEF AtLast
<1>. QED BY <1>1, <1>2, <1>3, TargetsAre DEF Target

LEMMA FoundUpdate ==
  ASSUME TypeOK, NEW a \in Adapters, NEW k \in Kinds, NEW c \in Contents,
         found' = [found EXCEPT ![a][k] = c]
  PROVE  /\ found' \in [Adapters -> [Kinds -> Contents]]
         /\ \A b \in Adapters, l \in Kinds :
              found'[b][l] = IF b = a /\ l = k THEN c ELSE found[b][l]
<1>1. found \in [Adapters -> [Kinds -> Contents]]
  BY DEF TypeOK
<1>2. [found[a] EXCEPT ![k] = c] \in [Kinds -> Contents]
  BY <1>1
<1>3. found' = [found EXCEPT ![a] = [found[a] EXCEPT ![k] = c]]
  BY <1>1
<1>. QED BY <1>1, <1>2, <1>3

\* The position of an installation moves from place to place and from target to target.
LEMMA NextPlaceEffect ==
  ASSUME TypeOK, NEW p \in Profilers, NextPlace(p)
  PROVE  /\ pc' \in {pc, [pc EXCEPT ![p] = "body"]}
         /\ i' \in [Profilers -> Nat] /\ \A q \in Profilers : i'[q] \in 1 .. Len(Paths[q])
         /\ \A q \in Profilers \ {p} : i'[q] = i[q] /\ j'[q] = j[q]
         /\ j' \in [Profilers -> 1 .. 5]
         /\ \/ j[p] < 5 /\ j'[p] = j[p] + 1 /\ i'[p] = i[p] /\ pc' = pc
            \/ j[p] = 5 /\ j'[p] = 1 /\ i[p] < Len(Paths[p]) /\ i'[p] = i[p] + 1 /\ pc' = pc
            \/ j[p] = 5 /\ i[p] = Len(Paths[p]) /\ pc' = [pc EXCEPT ![p] = "body"]
<1>1. /\ i \in [Profilers -> Nat] /\ \A q \in Profilers : i[q] \in 1 .. Len(Paths[q])
      /\ j \in [Profilers -> 1 .. 5] /\ Len(Places) = 5
      /\ \A q \in Profilers : Len(Paths[q]) \in Nat \ {0}
  BY TargetsAre, PlacesAre DEF TypeOK
<1>2. CASE j[p] < 5
  BY <1>1, <1>2 DEF NextPlace
<1>3. CASE ~(j[p] < 5) /\ AtLast(p)
  <2>1. /\ j' = [j EXCEPT ![p] = 1] /\ i' = [i EXCEPT ![p] = 1]
        /\ pc' = [pc EXCEPT ![p] = "body"] /\ j[p] = 5 /\ i[p] = Len(Paths[p])
    BY <1>1, <1>3 DEF NextPlace, AtLast, Goto
  <2>2. i' \in [Profilers -> Nat] /\ \A q \in Profilers : i'[q] \in 1 .. Len(Paths[q])
    BY <2>1, PositionIs, PositionUpdate
  <2>. QED BY <1>1, <2>1, <2>2
<1>4. CASE ~(j[p] < 5) /\ ~AtLast(p)
  <2>1. /\ j' = [j EXCEPT ![p] = 1] /\ i' = [i EXCEPT ![p] = i[p] + 1]
        /\ pc' = pc /\ j[p] = 5 /\ i[p] < Len(Paths[p])
    BY <1>1, <1>4, PositionIs DEF NextPlace
  <2>2. i' \in [Profilers -> Nat] /\ \A q \in Profilers : i'[q] \in 1 .. Len(Paths[q])
    BY <1>4, <2>1, PositionIs, PositionUpdate
  <2>. QED BY <1>1, <2>1, <2>2
<1>. QED BY <1>2, <1>3, <1>4

LEMMA TypeStep ==
  ASSUME TypeOK, [Next]_vars
  PROVE  TypeOK'
<1>. USE TargetsAre, PlacesAre DEF World, Goto, adapters, running, TypeOK
<1>0. ASSUME NEW p \in Profilers
      PROVE  /\ i[p] \in 1 .. Len(Paths[p]) /\ 1 \in 1 .. Len(Paths[p])
             /\ Target(p) \in Adapters /\ Range(Paths[p]) \subseteq Adapters
  BY DEF Target
<1>1. ASSUME NEW p \in Profilers, Refuse(p) PROVE TypeOK'
  <2>1. 1 \in 1 .. Len(Paths[p])
    BY <1>0
  <2>2. i' = [i EXCEPT ![p] = 1] /\ None \in Contents
    BY <1>1 DEF Refuse, Contents
  <2>3. i' \in [Profilers -> Nat] /\ \A q \in Profilers : i'[q] \in 1 .. Len(Paths[q])
    BY ONLY TypeOK, p \in Profilers, <2>1, <2>2, PositionUpdate
  <2>. QED BY ONLY TypeOK, <1>1, <2>2, <2>3 DEF Refuse, World, TypeOK, adapters, running
<1>2. ASSUME NEW p \in Profilers, LookAtTarget(p) PROVE TypeOK'
  <2>1. CASE Refuse(p)
    BY <1>1, <2>1
  <2>2. CASE ~Refuse(p)
    <3>1. /\ Goto(p, "counters")
          /\ UNCHANGED <<found, active, errors, i, j, binding, undo, outcome>> /\ World
      BY <1>2, <2>2 DEF LookAtTarget
    <3>. QED BY <3>1
  <2>. QED BY <2>1, <2>2
<1>3. ASSUME NEW p \in Profilers, RequireIdle(p) PROVE TypeOK'
  <2>1. CASE Refuse(p)
    BY <1>1, <2>1
  <2>2. CASE ~Refuse(p)
    <3>1. /\ Goto(p, "binding")
          /\ UNCHANGED <<found, active, errors, i, j, binding, undo, outcome>> /\ World
      BY <1>3, <2>2 DEF RequireIdle
    <3>. QED BY <3>1
  <2>. QED BY <2>1, <2>2
<1>4. ASSUME NEW p \in Profilers, TakeBinding(p) PROVE TypeOK'
  <2>1. CASE Refuse(p)
    BY <1>1, <2>1
  <2>2. CASE ~Refuse(p)
    <3>1. /\ binding' = [binding EXCEPT ![p][Target(p)] = found[Target(p)]["entry"]]
          /\ \/ AtLast(p) /\ Goto(p, "activate") /\ i' = [i EXCEPT ![p] = 1]
             \/ ~AtLast(p) /\ Goto(p, "targets") /\ i' = [i EXCEPT ![p] = @ + 1]
          /\ UNCHANGED <<found, active, errors, j, undo, outcome>> /\ World
      BY <1>4, <2>2 DEF TakeBinding
    <3>2. found[Target(p)]["entry"] \in Contents
      BY <1>0
    <3>3. binding' \in [Profilers -> [Adapters -> Contents]]
      BY <1>0, <3>1, <3>2
    <3>4. i' \in [Profilers -> Nat] /\ \A q \in Profilers : i'[q] \in 1 .. Len(Paths[q])
      <4>1. CASE AtLast(p)
        BY ONLY TypeOK, p \in Profilers, <3>1, <4>1, PositionIs, PositionUpdate
      <4>2. CASE ~AtLast(p)
        <5>1. i' = [i EXCEPT ![p] = i[p] + 1]
          BY ONLY <3>1, <4>2
        <5>. QED BY ONLY TypeOK, p \in Profilers, <4>2, <5>1, PositionIs, PositionUpdate
      <4>. QED BY <4>1, <4>2
    <3>5. pc' \in [Profilers -> {"targets", "counters", "binding", "activate", "install", "body",
                                 "undo", "exit", "ended"}]
      BY ONLY TypeOK, <3>1 DEF TypeOK, Goto
    <3>. QED BY <3>1, <3>3, <3>4, <3>5
  <2>. QED BY <2>1, <2>2
<1>5. ASSUME NEW p \in Profilers, Activate(p) PROVE TypeOK'
  <2>1. CASE Enter(p)
    BY <1>0, <2>1 DEF Enter
  <2>. QED BY <1>1, <1>5, <2>1 DEF Activate
<1>6. ASSUME NEW p \in Profilers, InstallPlace(p) PROVE TypeOK'
  <2>. DEFINE k == Places[j[p]]
              before == IF k = "entry" THEN binding[p][Target(p)] ELSE found[Target(p)][k]
  <2>1. k \in Kinds /\ before \in Contents
    BY <1>0
  <2>. HIDE DEF before
  <2>2. binding' \in [Profilers -> [Adapters -> Contents]]
    BY <1>0, <1>6 DEF InstallPlace, Contents
  <2>3. UNCHANGED <<active, errors, adapters, running, torn>>
    BY <1>6 DEF InstallPlace
  <2>4. CASE Leave(p) /\ UNCHANGED <<found, undo>>
    BY <1>0, <2>2, <2>3, <2>4 DEF Leave
  <2>5. CASE /\ Put(p, k)
             /\ undo' = [undo EXCEPT ![p] = Append(@, <<Target(p), k, before>>)]
             /\ NextPlace(p)
    <3>1. found' \in [Adapters -> [Kinds -> Contents]]
      BY <1>0, <2>1, <2>5, FoundUpdate DEF Put, Contents
    <3>2. <<Target(p), k, before>> \in Notes
      BY <1>0, <2>1 DEF Notes
    <3>3. undo' \in [Profilers -> Seq(Notes)]
      BY <2>5, <3>2
    <3>4. /\ pc' \in {pc, [pc EXCEPT ![p] = "body"]}
          /\ i' \in [Profilers -> Nat] /\ \A q \in Profilers : i'[q] \in 1 .. Len(Paths[q])
          /\ j' \in [Profilers -> 1 .. 5]
      BY ONLY <2>5, NextPlaceEffect, TypeOK
    <3>5. UNCHANGED outcome
      BY <2>5 DEF NextPlace
    <3>6. pc' \in [Profilers -> {"targets", "counters", "binding", "activate", "install", "body",
                                 "undo", "exit", "ended"}]
      BY ONLY TypeOK, <3>4 DEF TypeOK
    <3>. QED BY ONLY TypeOK, <2>2, <2>3, <3>1, <3>3, <3>4, <3>5, <3>6 DEF TypeOK, adapters, running
  <2>. QED BY <1>6, <2>4, <2>5 DEF InstallPlace, before
<1>7. ASSUME NEW p \in Profilers, EndBody(p) PROVE TypeOK'
  <2>1. CASE Goto(p, "undo") /\ UNCHANGED <<i, j, outcome>>
    BY <1>7, <2>1 DEF EndBody
  <2>2. CASE Leave(p)
    BY <1>0, <1>7, <2>2 DEF EndBody, Leave
  <2>. QED BY <1>7, <2>1, <2>2 DEF EndBody
<1>8. ASSUME NEW p \in Profilers, Interrupt(p) PROVE TypeOK'
  <2>1. found' \in [Adapters -> [Kinds -> Contents]]
    <3>1. CASE Put(p, Places[j[p]])
      BY <1>0, <3>1, FoundUpdate DEF Put, Contents
    <3>. QED BY <1>8, <3>1 DEF Interrupt
  <2>2. binding' \in [Profilers -> [Adapters -> Contents]]
    BY <1>8 DEF Interrupt, Contents
  <2>3. Leave(p) /\ UNCHANGED <<active, errors, undo, adapters, running>>
    BY <1>8 DEF Interrupt
  <2>. QED BY <1>0, <2>1, <2>2, <2>3 DEF Leave
<1>9. ASSUME NEW p \in Profilers, UndoPlace(p) PROVE TypeOK'
  <2>1. undo[p] \in Seq(Notes) /\ undo[p] # <<>>
    BY <1>9 DEF UndoPlace
  <2>2. Last(undo[p]) \in Notes /\ Front(undo[p]) \in Seq(Notes)
    BY <2>1, FrontAndLast
  <2>3. PICK a \in Adapters, k \in Kinds, before \in Contents : Last(undo[p]) = <<a, k, before>>
    BY <2>2 DEF Notes
  <2>4. Restores(p, a, k, before)
    BY <1>9, <2>3 DEF UndoPlace
  <2>5. /\ errors' \in [Profilers -> BOOLEAN]
        /\ \/ UNCHANGED found
           \/ \E c \in {None, before} : found' = [found EXCEPT ![a][k] = c]
    BY <2>4, RestoresEffect
  <2>6. found' \in [Adapters -> [Kinds -> Contents]]
    <3>1. CASE UNCHANGED found
      BY <3>1
    <3>2. ASSUME NEW c \in {None, before}, found' = [found EXCEPT ![a][k] = c]
          PROVE  found' \in [Adapters -> [Kinds -> Contents]]
      <4>1. c \in Contents
        BY <3>2 DEF Contents
      <4>. QED BY ONLY <3>2, <4>1, FoundUpdate, TypeOK
    <3>. QED BY <2>5, <3>1, <3>2
  <2>7. undo' \in [Profilers -> Seq(Notes)]
    BY <1>9, <2>2 DEF UndoPlace
  <2>8. UNCHANGED <<active, pc, i, j, binding, outcome, adapters, running, torn>>
    BY <1>9 DEF UndoPlace
  <2>. QED BY <2>5, <2>6, <2>7, <2>8
<1>10. ASSUME NEW p \in Profilers, Deactivate(p) PROVE TypeOK'
  BY <1>10 DEF Deactivate
<1>11. ASSUME NEW p \in Profilers, Exit(p) PROVE TypeOK'
  BY <1>11 DEF Exit
<1>. USE DEF Outer, profile
<1>12. ASSUME NEW t \in Threads, BeginForward(t) PROVE TypeOK'
  BY <1>12 DEF BeginForward, Contents
<1>13. ASSUME NEW t \in Threads, Fetch(t) PROVE TypeOK'
  <2>. DEFINE a == forward[t].adapter
  <2>1. a \in Adapters /\ forward[t].step \in Kinds
    BY <1>13 DEF Fetch
  <2>2. found[a][forward[t].step] \in Contents
    BY <2>1
  <2>3. forward' = [forward EXCEPT ![t].fetched = found[a][forward[t].step]]
    BY <1>13 DEF Fetch
  <2>. DEFINE new == found[a][forward[t].step]
  <2>4. /\ forward' = [forward EXCEPT ![t].fetched = new] /\ new \in Contents
        /\ UNCHANGED <<adapters, forwards, errors, traced, missed>> /\ Outer
    BY <1>13, <2>2, <2>3 DEF Fetch
  <2>. HIDE DEF a, new
  <2>. QED BY <2>4
<1>14. ASSUME NEW t \in Threads, Work(t) PROVE TypeOK'
  <2>1. /\ errors' \in [Profilers -> BOOLEAN]
        /\ traced' \in [Profilers -> SUBSET Threads]
        /\ missed' \in [Profilers -> BOOLEAN]
    BY <1>14, WorkEffect
  <2>2. /\ forward' \in [Threads -> [adapter : Adapters \cup {None},
                                     step : {"none"} \cup (Kinds \ {"fallback"}),
                                     fetched : Contents]]
        /\ \A u \in Threads : forward'[u].step # "none" => forward'[u].adapter \in Adapters
    <3>1. \/ \E next \in {"native", "callable_fallback", "entry"} :
               forward[t].step # "none" /\ Proceed(t, next)
          \/ Finish(t)
      BY <1>14 DEF Work
    <3>2. CASE Finish(t)
      BY <3>2 DEF Finish, Idle, Contents
    <3>3. ASSUME NEW next \in {"native", "callable_fallback", "entry"},
                 forward[t].step # "none", Proceed(t, next)
          PROVE  /\ forward' \in [Threads -> [adapter : Adapters \cup {None},
                                              step : {"none"} \cup (Kinds \ {"fallback"}),
                                              fetched : Contents]]
                 /\ \A u \in Threads :
                      forward'[u].step # "none" => forward'[u].adapter \in Adapters
      <4>1. /\ forward[t] \in [adapter : Adapters \cup {None},
                               step : {"none"} \cup (Kinds \ {"fallback"}),
                               fetched : Contents]
            /\ next \in Kinds \ {"fallback"} /\ None \in Contents
            /\ forward[t].adapter \in Adapters
        BY <3>3 DEF Contents
      <4>. DEFINE new == [forward[t] EXCEPT !.step = next, !.fetched = None]
      <4>2. /\ new \in [adapter : Adapters \cup {None},
                        step : {"none"} \cup (Kinds \ {"fallback"}),
                        fetched : Contents]
            /\ new.adapter = forward[t].adapter
        BY ONLY <4>1
      <4>3. forward' = [forward EXCEPT ![t] = new]
        BY ONLY <3>3, TypeOK DEF Proceed, TypeOK
      <4>. HIDE DEF new
      <4>. QED BY <4>1, <4>2, <4>3
    <3>. QED BY <3>1, <3>2, <3>3
  <2>. QED BY <1>14, <2>1, <2>2 DEF Work
<1>15. ASSUME NEW a \in Adapters, BeginClose(a) PROVE TypeOK'
  BY <1>15 DEF BeginClose
<1>16. ASSUME NEW a \in Adapters, NEW success \in BOOLEAN, EndClose(a, success) PROVE TypeOK'
  <2>1. UNCHANGED <<inside, closes, running, errors, active, profile, torn>>
    BY <1>16 DEF EndClose
  <2>2. open' \in [Adapters -> {"open", "closing", "shut", "closed"}]
    <3>1. open' = [open EXCEPT ![a] = "closed"] \/ open' = [open EXCEPT ![a] = "shut"]
      BY <1>16, Zenon DEF EndClose
    <3>. QED BY ONLY TypeOK, <3>1 DEF TypeOK
  <2>3. CASE found' = [found EXCEPT ![a]["entry"] = None]
    <3>1. None \in Contents /\ "entry" \in Kinds
      BY DEF Contents
    <3>2. found' \in [Adapters -> [Kinds -> Contents]]
      BY ONLY <2>3, <3>1, FoundUpdate, TypeOK
    <3>. QED BY <2>1, <2>2, <3>2
  <2>4. CASE UNCHANGED found
    BY <2>1, <2>2, <2>4
  <2>. QED BY <1>16, <2>3, <2>4 DEF EndClose
<1>17. CASE UNCHANGED vars
  BY <1>17 DEF vars
<1>. QED
  BY ONLY [Next]_vars, <1>2, <1>3, <1>4, <1>5, <1>6, <1>7, <1>8, <1>9, <1>10, <1>11, <1>12,
          <1>13, <1>14, <1>15, <1>16, <1>17 DEF Next

-----------------------------------------------------------------------------
(* Steps that leave all adapters and lists alone                           *)

\* No two profiles have notes of one adapter.
LEMMA NobodyNoted ==
  ASSUME Held, Own, NEW p \in Profilers, NEW q \in Profilers, p # q, Holding(p),
         NEW a \in Range(Paths[p]), NEW k
  PROVE  ~Noted(q, a, k)
<1>. SUFFICES ASSUME NEW m \in 1 .. Len(undo[q]), undo[q][m][1] = a PROVE FALSE
  BY DEF Noted
<1>1. a \in Range(Paths[q])
  BY DEF Own
<1>2. undo[q] # <<>>
  OBVIOUS
<1>3. Holding(q)
  BY <1>2 DEF Own
<1>. QED BY <1>1, <1>3 DEF Held

LEMMA QuietLists ==
  ASSUME ListsOK, UNCHANGED <<undo, found, torn, active>>,
         \A p \in Profilers : Holding(p)' <=> Holding(p),
         \A a \in Adapters : open'[a] = "closed" <=> open[a] = "closed"
  PROVE  ListsOK'
<1>. USE DEF ListsOK
<1>1. Held' BY DEF Held
<1>2. Own' BY DEF Own
<1>3. Once' BY DEF Once
<1>4. \A p, a, k : Noted(p, a, k)' <=> Noted(p, a, k)
  BY DEF Noted
<1>5. Hooked' BY <1>4 DEF Hooked
<1>6. Production' BY <1>4 DEF Production
<1>. QED BY <1>1, <1>2, <1>3, <1>5, <1>6

\* Only a profile that moves, or that has a longer or shorter list, must be looked at.
LEMMA QuietPosition ==
  ASSUME PositionOK, NEW p,
         \A q \in Profilers \ {p} :
           /\ undo'[q] = undo[q] /\ pc'[q] = pc[q] /\ i'[q] = i[q] /\ j'[q] = j[q]
           /\ binding'[q] = binding[q],
         p \in Profilers => pc'[p] \in {"undo", "exit", "ended"}
  PROVE  PositionOK'
<1>. USE DEF PositionOK
<1>1. \A q \in Profilers \ {p} : \A a, k : Noted(q, a, k)' <=> Noted(q, a, k)
  BY DEF Noted
<1>2. Progress' BY <1>1 DEF Progress
<1>3. Bound' BY DEF Bound
<1>4. Starts' BY DEF Starts
<1>. QED BY <1>2, <1>3, <1>4

LEMMA QuietPositions ==
  ASSUME PositionOK, UNCHANGED <<undo, pc, i, j, binding>>
  PROVE  PositionOK'
<1>. USE DEF PositionOK
<1>1. \A q, a, k : Noted(q, a, k)' <=> Noted(q, a, k)
  BY DEF Noted
<1>2. Progress' BY <1>1 DEF Progress
<1>3. Bound' BY DEF Bound
<1>4. Starts' BY DEF Starts
<1>. QED BY <1>2, <1>3, <1>4

\* A step of a profile outside its body has nothing to do with spans.
LEMMA QuietSpans ==
  ASSUME TypeOK, Spans, NEW p \in Profilers, UNCHANGED running,
         \A q \in Profilers : errors[q] => errors'[q],
         \A q \in Profilers \ {p} : pc'[q] = pc[q] /\ outcome'[q] = outcome[q],
         pc'[p] = pc[p] \/ forward[p] = Idle,
         outcome'[p] = "ok" => pc'[p] = "ended" /\ ~missed[p]
  PROVE  Spans'
<1>. SUFFICES ASSUME NEW q \in Profilers
              PROVE  /\ traced'[q] \subseteq {q}
                     /\ forward'[q] # Idle => pc'[q] = "body"
                     /\ forward'[q].step # "none" => forward'[q].adapter \in Range(Paths[q])
                     /\ forward'[q].fetched \in {None, q}
                     /\ missed'[q] => errors'[q]
                     /\ outcome'[q] = "ok" => pc'[q] = "ended" /\ ~missed'[q]
  BY DEF Spans
<1>1. UNCHANGED <<forward, traced, missed>>
  BY DEF running
<1>2. CASE q = p
  BY <1>1, <1>2 DEF Spans
<1>3. CASE q # p
  BY <1>1, <1>3 DEF Spans
<1>. QED BY <1>2, <1>3

-----------------------------------------------------------------------------
(* Finding the targets, and the ends of a context                          *)

LEMMA RefuseSafe ==
  ASSUME TypeOK, ListsOK, PositionOK, Spans, NEW p \in Profilers, Refuse(p),
         pc[p] \in {"targets", "counters", "binding", "activate"}
  PROVE  ListsOK' /\ PositionOK' /\ Spans'
<1>. USE DEF Refuse, World, TypeOK
<1>1. ListsOK'
  <2>1. \A q \in Profilers : Holding(q)' <=> Holding(q)
    BY DEF Holding
  <2>. QED BY <2>1, QuietLists DEF adapters
<1>2. PositionOK'
  BY QuietPosition
<1>3. Spans'
  <2>1. forward[p] = Idle
    BY DEF Spans
  <2>2. /\ \A q \in Profilers \ {p} : pc'[q] = pc[q] /\ outcome'[q] = outcome[q]
        /\ outcome'[p] # "ok" /\ UNCHANGED <<errors, running>>
    OBVIOUS
  <2>. QED BY ONLY TypeOK, Spans, p \in Profilers, <2>1, <2>2, QuietSpans
<1>. QED BY <1>1, <1>2, <1>3

LEMMA LookSafe ==
  ASSUME TypeOK, ListsOK, PositionOK, Spans, NEW p \in Profilers,
         LookAtTarget(p) \/ RequireIdle(p)
  PROVE  ListsOK' /\ PositionOK' /\ Spans'
<1>1. CASE Refuse(p)
  BY <1>1, RefuseSafe DEF LookAtTarget, RequireIdle
<1>2. CASE ~Refuse(p)
  <2>1. /\ pc[p] \in {"targets", "counters"} /\ World
        /\ pc' = [pc EXCEPT ![p] = IF pc[p] = "targets" THEN "counters" ELSE "binding"]
        /\ UNCHANGED <<found, active, errors, i, j, binding, undo, outcome>>
    BY <1>2 DEF LookAtTarget, RequireIdle, Goto
  <2>. USE <2>1 DEF World, TypeOK
  <2>2. ListsOK'
    <3>1. \A q \in Profilers : Holding(q)' <=> Holding(q)
      BY DEF Holding
    <3>. QED BY <3>1, QuietLists DEF adapters
  <2>3. Progress'
    <3>1. \A q, a, k : Noted(q, a, k)' <=> Noted(q, a, k)
      BY DEF Noted
    <3>. QED BY <3>1 DEF PositionOK, Progress
  <2>4. Bound' /\ Starts'
    BY DEF PositionOK, Bound, Starts
  <2>5. Spans'
    <3>1. forward[p] = Idle
      BY DEF Spans
    <3>2. /\ \A q \in Profilers \ {p} : pc'[q] = pc[q] /\ outcome'[q] = outcome[q]
          /\ outcome'[p] = outcome[p] /\ UNCHANGED <<errors, running>>
      OBVIOUS
    <3>3. outcome[p] # "ok"
      BY DEF Spans
    <3>. QED BY ONLY TypeOK, Spans, p \in Profilers, <3>1, <3>2, <3>3, QuietSpans
  <2>. QED BY <2>2, <2>3, <2>4, <2>5 DEF PositionOK
<1>. QED BY <1>1, <1>2

\* The bindings of all targets up to the present one are there.
LEMMA TakeBindingSafe ==
  ASSUME TypeOK, ListsOK, PositionOK, Spans, NEW p \in Profilers, TakeBinding(p)
  PROVE  ListsOK' /\ PositionOK' /\ Spans'
<1>1. CASE Refuse(p)
  BY <1>1, RefuseSafe DEF TakeBinding
<1>2. CASE ~Refuse(p)
  <2>1. /\ pc[p] = "binding" /\ World /\ found[Target(p)]["entry"] # None
        /\ binding' = [binding EXCEPT ![p][Target(p)] = found[Target(p)]["entry"]]
        /\ \/ AtLast(p) /\ pc' = [pc EXCEPT ![p] = "activate"] /\ i' = [i EXCEPT ![p] = 1]
           \/ ~AtLast(p) /\ pc' = [pc EXCEPT ![p] = "targets"] /\ i' = [i EXCEPT ![p] = i[p] + 1]
        /\ UNCHANGED <<found, active, errors, j, undo, outcome>>
    BY <1>2 DEF TakeBinding, Goto
  <2>. USE <2>1 DEF World, TypeOK
  <2>2. ListsOK'
    <3>1. \A q \in Profilers : Holding(q)' <=> Holding(q)
      BY DEF Holding
    <3>. QED BY <3>1, QuietLists DEF adapters
  <2>3. Progress'
    <3>1. \A q, a, k : Noted(q, a, k)' <=> Noted(q, a, k)
      BY DEF Noted
    <3>2. pc'[p] \notin {"install", "body"}
      OBVIOUS
    <3>3. \A q \in Profilers \ {p} : pc'[q] = pc[q] /\ i'[q] = i[q] /\ j'[q] = j[q]
      OBVIOUS
    <3>. QED BY ONLY PositionOK, <3>1, <3>2, <3>3 DEF PositionOK, Progress
  <2>4. Bound'
    <3>1. /\ i[p] \in 1 .. Len(Paths[p]) /\ Len(Paths[p]) \in Nat
          /\ Target(p) = Paths[p][i[p]] /\ Target(p) \in Adapters
          /\ \A h \in 1 .. Len(Paths[p]) : Paths[p][h] \in Adapters
      BY PositionIs, TargetsAre
    <3>2. \A a \in Adapters : binding'[p][a] =
            IF a = Target(p) THEN found[Target(p)]["entry"] ELSE binding[p][a]
      BY <3>1
    <3>3. \A h \in 1 .. Len(Paths[p]) : h <= i[p] => binding'[p][Paths[p][h]] # None
      BY <3>1, <3>2 DEF PositionOK, Bound
    <3>4. \A q \in Profilers \ {p} : binding'[q] = binding[q] /\ pc'[q] = pc[q] /\ i'[q] = i[q]
      OBVIOUS
    <3>5. ASSUME NEW h \in 1 .. Len(Paths[p])
          PROVE  /\ pc'[p] \in {"targets", "counters", "binding"} /\ h < i'[p] =>
                      binding'[p][Paths[p][h]] # None
                 /\ pc'[p] = "activate" => binding'[p][Paths[p][h]] # None
      <4>1. CASE AtLast(p)
        BY <3>1, <3>3, <4>1 DEF AtLast
      <4>2. CASE ~AtLast(p)
        <5>1. i'[p] = i[p] + 1 /\ pc'[p] = "targets"
          BY <4>2
        <5>. QED BY <3>1, <3>3, <5>1
      <4>. QED BY <4>1, <4>2
    <3>6. pc'[p] # "install"
      OBVIOUS
    <3>. QED BY <3>4, <3>5, <3>6 DEF PositionOK, Bound
  <2>5. Starts'
    BY DEF PositionOK, Starts
  <2>6. Spans'
    <3>1. forward[p] = Idle
      BY DEF Spans
    <3>2. /\ \A q \in Profilers \ {p} : pc'[q] = pc[q] /\ outcome'[q] = outcome[q]
          /\ outcome'[p] = outcome[p] /\ UNCHANGED <<errors, running>>
      OBVIOUS
    <3>3. outcome[p] # "ok"
      BY DEF Spans
    <3>. QED BY ONLY TypeOK, Spans, p \in Profilers, <3>1, <3>2, <3>3, QuietSpans
  <2>. QED BY <2>2, <2>3, <2>4, <2>5, <2>6 DEF PositionOK
<1>. QED BY <1>1, <1>2

LEMMA LeaveBodySafe ==
  ASSUME TypeOK, ListsOK, PositionOK, Spans, NEW p \in Profilers, EndBody(p)
  PROVE  ListsOK' /\ PositionOK' /\ Spans'
<1>1. /\ pc[p] = "body" /\ forward[p] = Idle /\ pc' = [pc EXCEPT ![p] = "undo"]
      /\ \A q \in Profilers \ {p} : i'[q] = i[q] /\ j'[q] = j[q] /\ outcome'[q] = outcome[q]
      /\ outcome'[p] = "ok" => outcome[p] = "ok"
      /\ UNCHANGED <<found, active, errors, binding, undo>> /\ World
  BY DEF EndBody, Leave, Goto, TypeOK
<1>2. ListsOK'
  <2>1. \A q \in Profilers : Holding(q)' <=> Holding(q)
    BY <1>1 DEF Holding, TypeOK
  <2>. QED BY <1>1, <2>1, QuietLists DEF World, adapters
<1>3. PositionOK'
  BY <1>1, QuietPosition DEF TypeOK
<1>4. Spans'
  <2>1. /\ \A q \in Profilers \ {p} : pc'[q] = pc[q] /\ outcome'[q] = outcome[q]
        /\ UNCHANGED <<errors, running>>
    BY <1>1 DEF World, TypeOK
  <2>2. forward[p] = Idle /\ outcome'[p] # "ok"
    BY <1>1 DEF Spans
  <2>. QED BY ONLY TypeOK, Spans, p \in Profilers, <2>1, <2>2, QuietSpans
<1>. QED BY <1>2, <1>3, <1>4

LEMMA ExitSafe ==
  ASSUME TypeOK, ListsOK, PositionOK, Spans, NEW p \in Profilers, Exit(p)
  PROVE  ListsOK' /\ PositionOK' /\ Spans'
<1>1. /\ pc[p] = "exit" /\ pc' = [pc EXCEPT ![p] = "ended"]
      /\ \A q \in Profilers \ {p} : outcome'[q] = outcome[q]
      /\ outcome'[p] = "ok" => ~errors[p]
      /\ UNCHANGED <<found, active, errors, i, j, binding, undo>> /\ World
  BY DEF Exit, Goto, TypeOK
<1>2. ListsOK'
  <2>1. \A q \in Profilers : Holding(q)' <=> Holding(q)
    BY <1>1 DEF Holding, TypeOK
  <2>. QED BY <1>1, <2>1, QuietLists DEF World, adapters
<1>3. PositionOK'
  BY <1>1, QuietPosition DEF TypeOK
<1>4. Spans'
  <2>1. /\ \A q \in Profilers \ {p} : pc'[q] = pc[q] /\ outcome'[q] = outcome[q]
        /\ UNCHANGED <<errors, running>> /\ pc'[p] = "ended"
    BY <1>1 DEF World, TypeOK
  <2>2. forward[p] = Idle /\ (outcome'[p] = "ok" => ~missed[p])
    BY <1>1 DEF Spans
  <2>. QED BY ONLY TypeOK, Spans, p \in Profilers, <2>1, <2>2, QuietSpans
<1>. QED BY <1>2, <1>3, <1>4

\* What a profile gives up has no note any more.
LEMMA DeactivateSafe ==
  ASSUME TypeOK, ListsOK, PositionOK, Spans, NEW p \in Profilers, Deactivate(p)
  PROVE  ListsOK' /\ PositionOK' /\ Spans'
<1>1. /\ pc[p] = "undo" /\ undo[p] = <<>> /\ pc' = [pc EXCEPT ![p] = "exit"]
      /\ active' = active \ Range(Paths[p])
      /\ UNCHANGED <<found, errors, i, j, binding, undo, outcome>> /\ World
  BY DEF Deactivate, Goto
<1>2. ListsOK'
  <2>1. Held'
    BY <1>1 DEF ListsOK, Held, Holding, TypeOK
  <2>2. Own'
    BY <1>1 DEF ListsOK, Own, Holding, TypeOK
  <2>3. Once'
    BY <1>1 DEF ListsOK, Once
  <2>4. \A q, a, k : Noted(q, a, k)' <=> Noted(q, a, k)
    BY <1>1 DEF Noted
  <2>5. Hooked' /\ Production'
    BY <1>1, <2>4 DEF ListsOK, Hooked, Production, World, adapters
  <2>. QED BY <2>1, <2>2, <2>3, <2>5 DEF ListsOK
<1>3. PositionOK'
  BY <1>1, QuietPosition DEF TypeOK
<1>4. Spans'
  BY <1>1, QuietSpans DEF Spans, World, TypeOK
<1>. QED BY <1>2, <1>3, <1>4

\* Both looks at what is active: the second is the one that counts.
LEMMA ActivateSafe ==
  ASSUME TypeOK, ListsOK, PositionOK, Spans, NEW p \in Profilers, Activate(p)
  PROVE  ListsOK' /\ PositionOK' /\ Spans'
<1>1. CASE Refuse(p)
  BY <1>1, RefuseSafe DEF Activate
<1>2. CASE ~Refuse(p)
  <2>1. /\ pc[p] = "activate" /\ Range(Paths[p]) \cap active = {}
        /\ active' = active \cup Range(Paths[p]) /\ pc' = [pc EXCEPT ![p] = "install"]
        /\ UNCHANGED <<found, errors, i, j, binding, undo, outcome>> /\ World
    BY <1>2 DEF Activate, Enter, Goto
  <2>2. \A q, a, k : Noted(q, a, k)' <=> Noted(q, a, k)
    BY <2>1 DEF Noted
  <2>3. \A q \in Profilers : Holding(q)' <=> Holding(q) \/ q = p
    BY <2>1 DEF Holding, TypeOK
  <2>4. undo[p] = <<>>
    BY <2>1 DEF ListsOK, Own, Holding
  <2>5. ListsOK'
    <3>1. Held'
      BY <2>1, <2>3 DEF ListsOK, Held
    <3>2. Own' /\ Once'
      BY <2>1, <2>3 DEF ListsOK, Own, Once
    <3>3. Hooked' /\ Production'
      BY <2>1, <2>2 DEF ListsOK, Hooked, Production, World, adapters
    <3>. QED BY <3>1, <3>2, <3>3 DEF ListsOK
  <2>6. PositionOK'
    <3>1. i[p] = 1 /\ j[p] = 1 /\ \A a, k : ~Noted(p, a, k)
      BY <2>1, <2>4 DEF PositionOK, Starts, Noted
    <3>2. Progress'
      <4>1. ASSUME NEW q \in Profilers, NEW h \in 1 .. Len(Paths[q]), NEW l \in 1 .. 5
            PROVE  /\ pc'[q] = "install" =>
                        (Noted(q, Paths[q][h], Places[l]) <=>
                           h < i[q] \/ (h = i[q] /\ l < j[q]))
                   /\ pc'[q] = "body" => Noted(q, Paths[q][h], Places[l])
        <5>1. CASE q = p
          <6>1. ~(h < i[q] \/ (h = i[q] /\ l < j[q])) /\ pc'[q] = "install"
            BY <2>1, <3>1, <5>1 DEF TypeOK
          <6>. QED BY <3>1, <5>1, <6>1
        <5>2. CASE q # p
          BY <2>1, <5>2 DEF PositionOK, Progress, TypeOK
        <5>. QED BY <5>1, <5>2
      <4>. QED BY <2>1, <2>2, <4>1 DEF Progress
    <3>3. Bound'
      BY <2>1 DEF PositionOK, Bound, TypeOK
    <3>4. Starts'
      BY <2>1 DEF PositionOK, Starts, TypeOK
    <3>. QED BY <3>2, <3>3, <3>4 DEF PositionOK
  <2>7. Spans'
    BY <2>1, QuietSpans DEF Spans, World, TypeOK
  <2>. QED BY <2>5, <2>6, <2>7
<1>. QED BY <1>1, <1>2

-----------------------------------------------------------------------------
(* A list with one note more, and with one less                            *)

LEMMA InstallNotes ==
  ASSUME NEW p, NEW a, NEW k, NEW before,
         Len(undo[p]) \in Nat, Len(undo'[p]) = Len(undo[p]) + 1,
         \A m \in 1 .. Len(undo[p]) : undo'[p][m] = undo[p][m],
         undo'[p][Len(undo[p]) + 1] = <<a, k, before>>
  PROVE  \A b, l : Noted(p, b, l)' <=> Noted(p, b, l) \/ (b = a /\ l = k)
<1>1. ASSUME NEW b, NEW l, Noted(p, b, l)'
      PROVE  Noted(p, b, l) \/ (b = a /\ l = k)
  <2>1. PICK m \in 1 .. Len(undo'[p]) : undo'[p][m][1] = b /\ undo'[p][m][2] = l
    BY <1>1 DEF Noted
  <2>2. CASE m = Len(undo[p]) + 1
    BY <2>1, <2>2
  <2>3. CASE m \in 1 .. Len(undo[p])
    BY <2>1, <2>3 DEF Noted
  <2>. QED BY <2>2, <2>3
<1>2. ASSUME NEW b, NEW l, Noted(p, b, l)
      PROVE  Noted(p, b, l)'
  <2>1. PICK m \in 1 .. Len(undo[p]) : undo[p][m][1] = b /\ undo[p][m][2] = l
    BY <1>2 DEF Noted
  <2>2. m \in 1 .. Len(undo'[p]) /\ undo'[p][m] = undo[p][m]
    OBVIOUS
  <2>. QED BY <2>1, <2>2 DEF Noted
<1>3. Noted(p, a, k)'
  <2>1. Len(undo[p]) + 1 \in 1 .. Len(undo'[p])
    OBVIOUS
  <2>. QED BY <2>1 DEF Noted
<1>. QED BY <1>1, <1>2, <1>3

LEMMA InstallOwn ==
  ASSUME Own, NEW p \in Profilers, NEW a \in Range(Paths[p]), NEW k, NEW before,
         Holding(p)', \A q \in Profilers : Holding(q)' <=> Holding(q),
         Len(undo[p]) \in Nat, Len(undo'[p]) = Len(undo[p]) + 1,
         \A m \in 1 .. Len(undo[p]) : undo'[p][m] = undo[p][m],
         undo'[p][Len(undo[p]) + 1] = <<a, k, before>>,
         \A q \in Profilers \ {p} : undo'[q] = undo[q]
  PROVE  Own'
<1>1. ASSUME NEW m \in 1 .. Len(undo'[p]) PROVE undo'[p][m][1] \in Range(Paths[p])
  <2>1. CASE m = Len(undo[p]) + 1
    BY <2>1
  <2>2. CASE m \in 1 .. Len(undo[p])
    BY <2>2 DEF Own
  <2>. QED BY <2>1, <2>2
<1>. QED BY <1>1 DEF Own

LEMMA InstallOnce ==
  ASSUME Once, NEW p \in Profilers, NEW a, NEW k, NEW before, ~Noted(p, a, k),
         Len(undo[p]) \in Nat, Len(undo'[p]) = Len(undo[p]) + 1,
         \A m \in 1 .. Len(undo[p]) : undo'[p][m] = undo[p][m],
         undo'[p][Len(undo[p]) + 1] = <<a, k, before>>,
         \A q \in Profilers \ {p} : undo'[q] = undo[q]
  PROVE  Once'
<1>1. ASSUME NEW m \in 1 .. Len(undo'[p]), NEW h \in 1 .. Len(undo'[p]),
             undo'[p][m][1] = undo'[p][h][1], undo'[p][m][2] = undo'[p][h][2]
      PROVE  m = h
  <2>1. \A x \in 1 .. Len(undo[p]) : ~(undo[p][x][1] = a /\ undo[p][x][2] = k)
    BY DEF Noted
  <2>2. CASE m \in 1 .. Len(undo[p]) /\ h \in 1 .. Len(undo[p])
    <3>1. undo'[p][m] = undo[p][m] /\ undo'[p][h] = undo[p][h]
      BY <2>2
    <3>. QED BY <1>1, <2>2, <3>1 DEF Once
  <2>3. CASE m = Len(undo[p]) + 1 /\ h \in 1 .. Len(undo[p])
    <3>1. undo'[p][m] = <<a, k, before>> /\ undo'[p][h] = undo[p][h]
      BY <2>3
    <3>. QED BY <1>1, <2>1, <2>3, <3>1
  <2>4. CASE h = Len(undo[p]) + 1 /\ m \in 1 .. Len(undo[p])
    <3>1. undo'[p][h] = <<a, k, before>> /\ undo'[p][m] = undo[p][m]
      BY <2>4
    <3>. QED BY <1>1, <2>1, <2>4, <3>1
  <2>. QED BY <2>2, <2>3, <2>4
<1>2. ASSUME NEW q \in Profilers \ {p}, NEW m \in 1 .. Len(undo'[q]), NEW h \in 1 .. Len(undo'[q]),
             undo'[q][m][1] = undo'[q][h][1], undo'[q][m][2] = undo'[q][h][2]
      PROVE  m = h
  BY <1>2 DEF Once
<1>3. SUFFICES ASSUME NEW q \in Profilers,
                      NEW m \in 1 .. Len(undo'[q]), NEW h \in 1 .. Len(undo'[q]),
                      undo'[q][m][1] = undo'[q][h][1], undo'[q][m][2] = undo'[q][h][2]
               PROVE  m = h
  BY DEF Once
<1>4. CASE q = p
  BY ONLY <1>1, <1>3, <1>4
<1>5. CASE q # p
  BY ONLY <1>2, <1>3, <1>5, q \in Profilers
<1>. QED BY <1>4, <1>5

LEMMA UndoneNotes ==
  ASSUME Once, NEW p \in Profilers, NEW a, NEW k, NEW before,
         Len(undo[p]) \in Nat \ {0}, Len(undo'[p]) = Len(undo[p]) - 1,
         \A m \in 1 .. Len(undo[p]) - 1 : undo'[p][m] = undo[p][m],
         undo[p][Len(undo[p])] = <<a, k, before>>
  PROVE  /\ Noted(p, a, k) /\ ~Noted(p, a, k)'
         /\ \A b, l : Noted(p, b, l)' => Noted(p, b, l)
         /\ \A b, l : Noted(p, b, l) => Noted(p, b, l)' \/ (b = a /\ l = k)
<1>1. Noted(p, a, k)
  BY DEF Noted
<1>2. ~Noted(p, a, k)'
  <2>1. SUFFICES ASSUME NEW m \in 1 .. Len(undo'[p]),
                        undo'[p][m][1] = a, undo'[p][m][2] = k
                 PROVE  FALSE
    BY DEF Noted
  <2>2. m \in 1 .. Len(undo[p]) /\ m # Len(undo[p]) /\ undo'[p][m] = undo[p][m]
    OBVIOUS
  <2>3. Len(undo[p]) \in 1 .. Len(undo[p])
    OBVIOUS
  <2>4. undo[p][m][1] = a /\ undo[p][m][2] = k
    BY <2>1, <2>2
  <2>. QED BY ONLY Once, p \in Profilers, undo[p][Len(undo[p])] = <<a, k, before>>, <2>2, <2>3, <2>4
           DEF Once
<1>3. ASSUME NEW b, NEW l, Noted(p, b, l)' PROVE Noted(p, b, l)
  <2>1. PICK m \in 1 .. Len(undo'[p]) : undo'[p][m][1] = b /\ undo'[p][m][2] = l
    BY <1>3 DEF Noted
  <2>2. m \in 1 .. Len(undo[p]) /\ undo'[p][m] = undo[p][m]
    OBVIOUS
  <2>. QED BY <2>1, <2>2 DEF Noted
<1>4. ASSUME NEW b, NEW l, Noted(p, b, l) PROVE Noted(p, b, l)' \/ (b = a /\ l = k)
  <2>1. PICK m \in 1 .. Len(undo[p]) : undo[p][m][1] = b /\ undo[p][m][2] = l
    BY <1>4 DEF Noted
  <2>2. CASE m = Len(undo[p])
    BY <2>1, <2>2
  <2>3. CASE m # Len(undo[p])
    <3>1. m \in 1 .. Len(undo'[p]) /\ undo'[p][m] = undo[p][m]
      BY <2>3
    <3>. QED BY <2>1, <3>1 DEF Noted
  <2>. QED BY <2>2, <2>3
<1>. QED BY <1>1, <1>2, <1>3, <1>4

-----------------------------------------------------------------------------
(* Installation and its undoing                                            *)

\* The hook goes into a place that was as it is without profiles.
LEMMA InstallSafe ==
  ASSUME TypeOK, ListsOK, PositionOK, Spans, NEW p \in Profilers, InstallPlace(p)
  PROVE  ListsOK' /\ PositionOK' /\ Spans'
<1>. DEFINE a == Target(p)
            k == Places[j[p]]
            before == IF k = "entry" THEN binding[p][a] ELSE found[a][k]
<1>1. /\ pc[p] = "install" /\ j[p] \in 1 .. 5 /\ i[p] \in 1 .. Len(Paths[p])
      /\ a = Paths[p][i[p]] /\ a \in Adapters /\ a \in Range(Paths[p]) /\ k \in Kinds
  BY PositionIs, PlacesAre DEF InstallPlace, TypeOK
<1>2. before \in Contents
  BY <1>1 DEF TypeOK
<1>3. /\ binding' = [binding EXCEPT ![p][a] = None]
      /\ UNCHANGED <<active, errors, adapters, running, torn>>
  BY DEF InstallPlace, World
<1>4. forward[p] = Idle /\ outcome[p] # "ok"
  BY <1>1 DEF Spans
<1>5. \/ k = "entry" /\ ~EntryIs(p) /\ Leave(p) /\ UNCHANGED <<found, undo>>
      \/ /\ k = "entry" => EntryIs(p)
         /\ Put(p, k) /\ undo' = [undo EXCEPT ![p] = Append(@, <<a, k, before>>)]
         /\ NextPlace(p)
  BY DEF InstallPlace
<1>. HIDE DEF before, a, k
<1>6. CASE Leave(p) /\ UNCHANGED <<found, undo>>
  <2>1. /\ pc' = [pc EXCEPT ![p] = "undo"] /\ outcome' = [outcome EXCEPT ![p] = "raised"]
        /\ \A q \in Profilers \ {p} : i'[q] = i[q] /\ j'[q] = j[q] /\ binding'[q] = binding[q]
    BY <1>3, <1>6 DEF Leave, Goto, TypeOK
  <2>2. ListsOK'
    <3>1. \A q \in Profilers : Holding(q)' <=> Holding(q)
      BY <1>1, <2>1 DEF Holding, TypeOK
    <3>. QED BY <1>3, <1>6, <3>1, QuietLists DEF adapters
  <2>3. PositionOK'
    BY <1>6, <2>1, QuietPosition DEF TypeOK
  <2>4. Spans'
    <3>1. /\ \A q \in Profilers \ {p} : pc'[q] = pc[q] /\ outcome'[q] = outcome[q]
          /\ outcome'[p] # "ok" /\ UNCHANGED <<errors, running>>
      BY <1>3, <2>1 DEF TypeOK
    <3>. QED BY ONLY TypeOK, Spans, p \in Profilers, <1>4, <3>1, QuietSpans
  <2>. QED BY <2>2, <2>3, <2>4
<1>7. CASE /\ k = "entry" => EntryIs(p)
           /\ Put(p, k) /\ undo' = [undo EXCEPT ![p] = Append(@, <<a, k, before>>)]
           /\ NextPlace(p)
  <2>1. /\ pc' \in {pc, [pc EXCEPT ![p] = "body"]}
        /\ \A q \in Profilers \ {p} : i'[q] = i[q] /\ j'[q] = j[q]
        /\ \/ j[p] < 5 /\ j'[p] = j[p] + 1 /\ i'[p] = i[p] /\ pc' = pc
           \/ j[p] = 5 /\ j'[p] = 1 /\ i[p] < Len(Paths[p]) /\ i'[p] = i[p] + 1 /\ pc' = pc
           \/ j[p] = 5 /\ i[p] = Len(Paths[p]) /\ pc' = [pc EXCEPT ![p] = "body"]
    BY <1>7, NextPlaceEffect
  <2>2. UNCHANGED outcome
    BY <1>7 DEF NextPlace
  <2>3. pc'[p] \in {"install", "body"} /\ \A q \in Profilers \ {p} : pc'[q] = pc[q]
    BY <1>1, <2>1 DEF TypeOK
  <2>4. \A q \in Profilers : Holding(q)' <=> Holding(q)
    BY <1>1, <2>3 DEF Holding
  <2>5. \A b \in Adapters, l \in Kinds :
          found'[b][l] = IF b = a /\ l = k THEN p ELSE found[b][l]
    <3>1. found' = [found EXCEPT ![a][k] = p] /\ p \in Contents
      BY <1>7 DEF Put, a, Contents
    <3>. QED BY <1>1, <3>1, FoundUpdate
  <2>6. /\ Len(undo[p]) \in Nat /\ Len(undo'[p]) = Len(undo[p]) + 1
        /\ \A m \in 1 .. Len(undo[p]) : undo'[p][m] = undo[p][m]
        /\ undo'[p][Len(undo[p]) + 1] = <<a, k, before>>
        /\ \A q \in Profilers \ {p} : undo'[q] = undo[q]
    <3>1. undo[p] \in Seq(Notes) /\ <<a, k, before>> \in Notes
      BY <1>1, <1>2 DEF TypeOK, Notes
    <3>2. undo'[p] = Append(undo[p], <<a, k, before>>)
      BY <1>7 DEF TypeOK
    <3>3. \A q \in Profilers \ {p} : undo'[q] = undo[q]
      BY <1>7 DEF TypeOK
    <3>. QED BY <3>1, <3>2, <3>3, AppendIsLast
  <2>7. \A q \in Profilers : ~Noted(q, a, k)
    <3>1. ~Noted(p, a, k)
      BY <1>1 DEF PositionOK, Progress, k
    <3>2. Holding(p)
      BY <1>1 DEF Holding
    <3>. QED BY <1>1, <3>1, <3>2, NobodyNoted DEF ListsOK
  <2>8. \A b, l : Noted(p, b, l)' <=> Noted(p, b, l) \/ (b = a /\ l = k)
    BY <2>6, InstallNotes
  <2>9. \A q \in Profilers \ {p} : \A b, l : Noted(q, b, l)' <=> Noted(q, b, l)
    BY <2>6 DEF Noted
  <2>10. a \notin torn => before = "production"
    <3>1. SUFFICES ASSUME a \notin torn PROVE before = "production"
      OBVIOUS
    <3>2. found[a][k] = "production" \/ (k = "entry" /\ found[a][k] = None)
      BY <1>1, <2>7, <3>1 DEF ListsOK, Production
    <3>3. CASE k = "entry"
      <4>1. found[a][k] = binding[p][a] /\ j[p] = 1
        BY <1>1, <1>7, <3>3, PlacesAre DEF EntryIs, a, k
      <4>2. binding[p][a] # None
        BY <1>1, <4>1 DEF PositionOK, Bound
      <4>. QED BY <3>2, <3>3, <4>1, <4>2 DEF before
    <3>4. CASE k # "entry"
      BY <3>2, <3>4 DEF before
    <3>. QED BY <3>3, <3>4
  <2>11. k = "entry" => found[a]["entry"] # None
    <3>1. SUFFICES ASSUME k = "entry" PROVE found[a]["entry"] # None
      OBVIOUS
    <3>2. found[a]["entry"] = binding[p][a] /\ j[p] = 1
      BY <1>1, <1>7, <3>1, PlacesAre DEF EntryIs, a, k
    <3>. QED BY <1>1, <3>2 DEF PositionOK, Bound
  <2>12. Held'
    BY <1>3, <2>4 DEF ListsOK, Held
  <2>13. Own'
    <3>1. Holding(p)' /\ Own
      BY <2>3 DEF Holding, ListsOK
    <3>. QED BY ONLY <1>1, <2>4, <2>6, <3>1, p \in Profilers, InstallOwn
  <2>14. Once'
    BY <2>6, <2>7, InstallOnce DEF ListsOK
  <2>15. Hooked'
    BY <2>5, <2>7, <2>8, <2>9 DEF ListsOK, Hooked
  <2>16. Production'
    <3>1. SUFFICES ASSUME NEW b \in Adapters \ torn
                   PROVE  /\ found'[b]["entry"] = None <=> open[b] = "closed"
                          /\ \A l \in Kinds : (\A q \in Profilers : ~Noted(q, b, l)') =>
                               \/ found'[b][l] = "production"
                               \/ l = "entry" /\ found'[b][l] = None
                          /\ \A q \in Profilers : \A m \in 1 .. Len(undo'[q]) :
                               undo'[q][m][1] = b => undo'[q][m][3] = "production"
      BY <1>3 DEF Production, adapters
    <3>2. /\ found[b]["entry"] = None <=> open[b] = "closed"
          /\ \A l \in Kinds : (\A q \in Profilers : ~Noted(q, b, l)) =>
               found[b][l] = "production" \/ (l = "entry" /\ found[b][l] = None)
          /\ \A q \in Profilers : \A m \in 1 .. Len(undo[q]) :
               undo[q][m][1] = b => undo[q][m][3] = "production"
      BY DEF ListsOK, Production
    <3>3. found'[b]["entry"] = None <=> open[b] = "closed"
      BY <2>5, <2>11, <3>2, PlacesAre, ProfileAssumption
    <3>4. \A l \in Kinds : (\A q \in Profilers : ~Noted(q, b, l)') =>
               \/ found'[b][l] = "production"
               \/ l = "entry" /\ found'[b][l] = None
      BY <2>5, <2>8, <2>9, <3>2
    <3>5. ASSUME NEW q \in Profilers, NEW m \in 1 .. Len(undo'[q]), undo'[q][m][1] = b
          PROVE  undo'[q][m][3] = "production"
      <4>1. CASE q = p /\ m = Len(undo[p]) + 1
        BY <2>6, <2>10, <3>5, <4>1
      <4>2. CASE ~(q = p /\ m = Len(undo[p]) + 1)
        <5>1. m \in 1 .. Len(undo[q]) /\ undo'[q][m] = undo[q][m]
          BY <2>6, <4>2
        <5>. QED BY <3>2, <3>5, <5>1
      <4>. QED BY <4>1, <4>2
    <3>. QED BY <3>3, <3>4, <3>5
  <2>17. Progress'
    <3>1. SUFFICES ASSUME NEW h \in 1 .. Len(Paths[p]), NEW l \in 1 .. 5
                   PROVE  /\ pc'[p] = "install" =>
                               (Noted(p, Paths[p][h], Places[l])' <=>
                                  h < i'[p] \/ (h = i'[p] /\ l < j'[p]))
                          /\ pc'[p] = "body" => Noted(p, Paths[p][h], Places[l])'
      BY <2>1, <2>3, <2>9 DEF PositionOK, Progress
    <3>2. Noted(p, Paths[p][h], Places[l]) <=> h < i[p] \/ (h = i[p] /\ l < j[p])
      BY <1>1 DEF PositionOK, Progress
    <3>3. Paths[p][h] = a /\ Places[l] = k <=> h = i[p] /\ l = j[p]
      BY <1>1, TargetsAre, PlacesAre DEF k
    <3>4. Noted(p, Paths[p][h], Places[l])' <=> h < i[p] \/ (h = i[p] /\ l <= j[p])
      BY <1>1, <2>8, <3>2, <3>3
    <3>5. Len(Paths[p]) \in Nat
      BY TargetsAre
    <3>6. pc' = [pc EXCEPT ![p] = "body"] => pc'[p] = "body"
      BY DEF TypeOK
    <3>. QED BY <1>1, <2>1, <3>4, <3>5, <3>6
  <2>18. Bound'
    <3>1. /\ binding'[p][a] = None
          /\ \A b \in Adapters \ {a} : binding'[p][b] = binding[p][b]
          /\ \A q \in Profilers \ {p} : binding'[q] = binding[q]
      BY <1>1, <1>3 DEF TypeOK
    <3>2. \A h \in 1 .. Len(Paths[p]) :
            pc'[p] = "install" /\ (h > i'[p] \/ (h = i'[p] /\ j'[p] = 1)) => h > i[p]
      <4>1. Len(Paths[p]) \in Nat /\ (pc' = [pc EXCEPT ![p] = "body"] => pc'[p] = "body")
        BY TargetsAre DEF TypeOK
      <4>. QED BY ONLY <1>1, <2>1, <4>1
    <3>3. \A h \in 1 .. Len(Paths[p]) : h > i[p] => Paths[p][h] \in Adapters \ {a}
      BY <1>1, TargetsAre
    <3>4. \A h \in 1 .. Len(Paths[p]) : h > i[p] => binding'[p][Paths[p][h]] # None
      BY <1>1, <3>1, <3>3 DEF PositionOK, Bound
    <3>. QED BY <2>1, <2>3, <3>1, <3>2, <3>4 DEF PositionOK, Bound
  <2>19. Starts'
    BY <2>1, <2>3 DEF PositionOK, Starts
  <2>20. Spans'
    <3>1. /\ \A q \in Profilers \ {p} : pc'[q] = pc[q] /\ outcome'[q] = outcome[q]
          /\ outcome'[p] # "ok" /\ UNCHANGED <<errors, running>>
      BY <1>3, <1>4, <2>2, <2>3
    <3>. QED BY ONLY TypeOK, Spans, p \in Profilers, <1>4, <3>1, QuietSpans
  <2>. QED BY <2>12, <2>13, <2>14, <2>15, <2>16, <2>17, <2>18, <2>19, <2>20
         DEF ListsOK, PositionOK
<1>. QED BY <1>5, <1>6, <1>7

\* An interrupted replacement that nobody noted tears its adapter.
LEMMA InterruptSafe ==
  ASSUME TypeOK, ListsOK, PositionOK, Spans, NEW p \in Profilers, Interrupt(p)
  PROVE  ListsOK' /\ PositionOK' /\ Spans'
<1>1. /\ pc[p] = "install" /\ pc' = [pc EXCEPT ![p] = "undo"]
      /\ outcome' = [outcome EXCEPT ![p] = "raised"]
      /\ \A q \in Profilers \ {p} : i'[q] = i[q] /\ j'[q] = j[q] /\ binding'[q] = binding[q]
      /\ UNCHANGED <<active, errors, undo, adapters, running>>
      /\ \/ Put(p, Places[j[p]]) /\ torn' = torn \cup {Target(p)}
         \/ UNCHANGED <<found, torn>>
  BY DEF Interrupt, Leave, Goto, TypeOK
<1>2. \A q \in Profilers : Holding(q)' <=> Holding(q)
  BY <1>1 DEF Holding, TypeOK
<1>3. ListsOK'
  <2>1. CASE UNCHANGED <<found, torn>>
    BY <1>1, <1>2, <2>1, QuietLists DEF adapters
  <2>2. CASE Put(p, Places[j[p]]) /\ torn' = torn \cup {Target(p)}
    <3>. DEFINE a == Target(p)
                k == Places[j[p]]
    <3>1. a \in Adapters /\ a \in Range(Paths[p]) /\ k \in Kinds
      BY PositionIs, PlacesAre DEF TypeOK
    <3>2. \A b \in Adapters, l \in Kinds :
            found'[b][l] = IF b = a /\ l = k THEN p ELSE found[b][l]
      <4>1. p \in Contents
        BY DEF Contents
      <4>. QED BY <2>2, <3>1, <4>1, FoundUpdate DEF Put
    <3>3. \A q \in Profilers \ {p} : \A l : ~Noted(q, a, l)
      <4>1. Holding(p)
        BY <1>1 DEF Holding
      <4>. QED BY <3>1, <4>1, NobodyNoted DEF ListsOK
    <3>4. \A q, b, l : Noted(q, b, l)' <=> Noted(q, b, l)
      BY <1>1 DEF Noted
    <3>. HIDE DEF a, k
    <3>5. Held' /\ Own' /\ Once'
      BY <1>1, <1>2 DEF ListsOK, Held, Own, Once
    <3>6. Hooked'
      BY <3>2, <3>3, <3>4 DEF ListsOK, Hooked
    <3>7. Production'
      <4>1. \A b \in Adapters \ torn' : b \notin torn /\ \A l \in Kinds : found'[b][l] = found[b][l]
        BY <2>2, <3>2 DEF a
      <4>2. "entry" \in Kinds
        BY PlacesAre
      <4>. QED BY <1>1, <3>4, <4>1, <4>2 DEF ListsOK, Production, adapters
    <3>. QED BY <3>5, <3>6, <3>7 DEF ListsOK
  <2>. QED BY <1>1, <2>1, <2>2
<1>4. PositionOK'
  BY <1>1, QuietPosition DEF TypeOK
<1>5. Spans'
  <2>1. forward[p] = Idle
    BY <1>1 DEF Spans
  <2>2. /\ \A q \in Profilers \ {p} : pc'[q] = pc[q] /\ outcome'[q] = outcome[q]
        /\ outcome'[p] # "ok" /\ UNCHANGED <<errors, running>>
    BY <1>1 DEF TypeOK
  <2>. QED BY ONLY TypeOK, Spans, p \in Profilers, <2>1, <2>2, QuietSpans
<1>. QED BY <1>3, <1>4, <1>5
\* The last note is about a place that nobody else has noted, and that is put back.
LEMMA UndoSafe ==
  ASSUME TypeOK, ListsOK, PositionOK, Spans, NEW p \in Profilers, UndoPlace(p)
  PROVE  ListsOK' /\ PositionOK' /\ Spans'
<1>1. /\ pc[p] = "undo" /\ undo[p] \in Seq(Notes) /\ undo[p] # <<>>
      /\ undo'[p] = Front(undo[p]) /\ \A q \in Profilers \ {p} : undo'[q] = undo[q]
      /\ UNCHANGED <<active, pc, i, j, binding, outcome, adapters, running, torn>>
  BY DEF UndoPlace, World, TypeOK
<1>2. /\ Len(undo[p]) \in Nat \ {0} /\ Len(undo'[p]) = Len(undo[p]) - 1
      /\ \A m \in 1 .. Len(undo[p]) - 1 : undo'[p][m] = undo[p][m]
      /\ Last(undo[p]) = undo[p][Len(undo[p])] /\ Last(undo[p]) \in Notes
  BY <1>1, FrontAndLast
<1>3. PICK a \in Adapters, k \in Kinds, before \in Contents :
        undo[p][Len(undo[p])] = <<a, k, before>>
  BY <1>2 DEF Notes
<1>4. Restores(p, a, k, before)
  BY <1>2, <1>3 DEF UndoPlace
<1>5. /\ \A q \in Profilers : errors[q] => errors'[q]
      /\ \/ UNCHANGED found
         \/ \E c \in {None, before} : found' = [found EXCEPT ![a][k] = c]
      /\ k = "entry" /\ found[a][k] = p =>
           found' = [found EXCEPT ![a][k] = IF open[a] = "closed" THEN None ELSE before]
      /\ k = "entry" /\ found[a][k] # p => UNCHANGED found
      /\ k # "entry" /\ found[a][k] # "production" => found' = [found EXCEPT ![a][k] = before]
  BY <1>4, RestoresEffect
<1>6. a \in Range(Paths[p])
  <2>1. Len(undo[p]) \in 1 .. Len(undo[p])
    BY <1>2
  <2>. QED BY <1>3, <2>1 DEF ListsOK, Own
<1>7. /\ Noted(p, a, k) /\ ~Noted(p, a, k)'
      /\ \A b, l : Noted(p, b, l)' => Noted(p, b, l)
      /\ \A b, l : Noted(p, b, l) => Noted(p, b, l)' \/ (b = a /\ l = k)
  BY <1>2, <1>3, UndoneNotes DEF ListsOK
<1>8. \A q \in Profilers \ {p} : \A b, l : Noted(q, b, l)' <=> Noted(q, b, l)
  BY <1>1 DEF Noted
<1>9. \A q \in Profilers \ {p} : \A l : ~Noted(q, a, l)
  <2>1. Holding(p)
    BY <1>1 DEF Holding
  <2>. QED BY <1>6, <2>1, NobodyNoted DEF ListsOK
<1>10. \A b \in Adapters, l \in Kinds : ~(b = a /\ l = k) => found'[b][l] = found[b][l]
  <2>1. ASSUME NEW c \in {None, before}, found' = [found EXCEPT ![a][k] = c]
        PROVE  \A b \in Adapters, l \in Kinds : ~(b = a /\ l = k) => found'[b][l] = found[b][l]
    <3>1. c \in Contents
      BY <2>1 DEF Contents
    <3>. QED BY <2>1, <3>1, FoundUpdate
  <2>. QED BY <1>5, <2>1
<1>11. \A q \in Profilers : Holding(q)' <=> Holding(q)
  BY <1>1 DEF Holding
<1>12. found[a][k] = p \/ (k = "entry" /\ found[a][k] = None)
  BY <1>7 DEF ListsOK, Hooked
\* What the place of the note holds afterwards.
<1>13. /\ k # "entry" => found'[a][k] = before
       /\ k = "entry" /\ found[a][k] = None => found'[a][k] = None
       /\ k = "entry" /\ found[a][k] = p =>
            found'[a][k] = IF open[a] = "closed" THEN None ELSE before
  <2>1. p # None /\ p # "production"
    BY ProfileAssumption
  <2>2. CASE k # "entry"
    <3>1. found' = [found EXCEPT ![a][k] = before]
      BY <1>5, <1>12, <2>1, <2>2
    <3>. QED BY <2>2, <3>1, FoundUpdate
  <2>3. CASE k = "entry" /\ found[a][k] = None
    BY <1>5, <2>1, <2>3
  <2>4. CASE k = "entry" /\ found[a][k] = p
    <3>1. (IF open[a] = "closed" THEN None ELSE before) \in Contents
      BY DEF Contents
    <3>2. found' = [found EXCEPT ![a][k] = IF open[a] = "closed" THEN None ELSE before]
      BY <1>5, <2>4
    <3>. QED BY <2>1, <2>4, <3>1, <3>2, FoundUpdate
  <2>. QED BY <1>12, <2>2, <2>3, <2>4
<1>14. Held' /\ Own' /\ Once'
  <2>1. Held'
    BY <1>1, <1>11 DEF ListsOK, Held
  <2>2. \A m \in 1 .. Len(undo'[p]) : m \in 1 .. Len(undo[p]) /\ undo'[p][m] = undo[p][m]
    BY <1>2
  <2>3. Holding(p)
    BY <1>1 DEF Holding
  <2>4. Own'
    BY <1>1, <1>11, <2>2, <2>3 DEF ListsOK, Own
  <2>5. Once'
    <3>1. SUFFICES ASSUME NEW q \in Profilers,
                          NEW m \in 1 .. Len(undo'[q]), NEW h \in 1 .. Len(undo'[q]),
                          undo'[q][m][1] = undo'[q][h][1], undo'[q][m][2] = undo'[q][h][2]
                   PROVE  m = h
      BY DEF Once
    <3>2. /\ m \in 1 .. Len(undo[q]) /\ h \in 1 .. Len(undo[q])
          /\ undo'[q][m] = undo[q][m] /\ undo'[q][h] = undo[q][h]
      BY <1>1, <2>2
    <3>. QED BY <3>1, <3>2 DEF ListsOK, Once
  <2>. QED BY <2>1, <2>4, <2>5
<1>15. Hooked'
  BY <1>7, <1>8, <1>9, <1>10 DEF ListsOK, Hooked
<1>16. Production'
  <2>1. SUFFICES ASSUME NEW b \in Adapters \ torn
                 PROVE  /\ found'[b]["entry"] = None <=> open[b] = "closed"
                        /\ \A l \in Kinds : (\A q \in Profilers : ~Noted(q, b, l)') =>
                             \/ found'[b][l] = "production"
                             \/ l = "entry" /\ found'[b][l] = None
                        /\ \A q \in Profilers : \A m \in 1 .. Len(undo'[q]) :
                             undo'[q][m][1] = b => undo'[q][m][3] = "production"
    BY <1>1 DEF Production, adapters
  <2>2. /\ found[b]["entry"] = None <=> open[b] = "closed"
        /\ \A l \in Kinds : (\A q \in Profilers : ~Noted(q, b, l)) =>
             found[b][l] = "production" \/ (l = "entry" /\ found[b][l] = None)
        /\ \A q \in Profilers : \A m \in 1 .. Len(undo[q]) :
             undo[q][m][1] = b => undo[q][m][3] = "production"
    BY DEF ListsOK, Production
  <2>3. b = a => before = "production"
    <3>1. Len(undo[p]) \in 1 .. Len(undo[p])
      BY <1>2
    <3>. QED BY <1>3, <2>2, <3>1
  <2>4. found'[b]["entry"] = None <=> open[b] = "closed"
    <3>1. "entry" \in Kinds /\ None # "production" /\ p # None
      BY PlacesAre, ProfileAssumption
    <3>. QED BY <1>10, <1>12, <1>13, <2>2, <2>3, <3>1
  <2>5. ASSUME NEW l \in Kinds, \A q \in Profilers : ~Noted(q, b, l)'
        PROVE  found'[b][l] = "production" \/ (l = "entry" /\ found'[b][l] = None)
    <3>1. CASE b = a /\ l = k
      BY <1>12, <1>13, <2>3, <3>1
    <3>2. CASE ~(b = a /\ l = k)
      <4>1. \A q \in Profilers : ~Noted(q, b, l)
        BY <1>7, <1>8, <2>5, <3>2
      <4>. QED BY <1>10, <2>2, <3>2, <4>1
    <3>. QED BY <3>1, <3>2
  <2>6. \A q \in Profilers : \A m \in 1 .. Len(undo'[q]) :
          undo'[q][m][1] = b => undo'[q][m][3] = "production"
    BY <1>1, <1>2, <2>2
  <2>. QED BY <2>4, <2>5, <2>6
<1>17. PositionOK'
  BY <1>1, QuietPosition
<1>18. Spans'
  <2>1. outcome'[p] = "ok" => pc'[p] = "ended" /\ ~missed[p]
    BY <1>1 DEF Spans
  <2>2. \A q \in Profilers \ {p} : pc'[q] = pc[q] /\ outcome'[q] = outcome[q]
    BY <1>1
  <2>3. pc'[p] = pc[p] /\ UNCHANGED running
    BY <1>1
  <2>. QED BY ONLY TypeOK, Spans, p \in Profilers, <1>5, <2>1, <2>2, <2>3, QuietSpans
<1>. QED BY <1>14, <1>15, <1>16, <1>17, <1>18 DEF ListsOK

-----------------------------------------------------------------------------
(* Forwards and closes                                                     *)

\* A step of a forward leaves the adapters' contents and all profiles alone.
LEMMA OuterQuiet ==
  ASSUME ListsOK, PositionOK, Outer,
         \A a \in Adapters : open'[a] = "closed" <=> open[a] = "closed"
  PROVE  ListsOK' /\ PositionOK'
<1>1. UNCHANGED <<undo, found, torn, active, pc, i, j, binding>>
  BY DEF Outer, profile
<1>2. \A p \in Profilers : Holding(p)' <=> Holding(p)
  BY <1>1 DEF Holding
<1>. QED BY <1>1, <1>2, QuietLists, QuietPositions

\* What a forward's step must say of its own thread.
LEMMA SpansStep ==
  ASSUME Spans, Outer, NEW t \in Threads,
         \A q \in Profilers \ {t} : forward'[q] = forward[q] /\ missed'[q] = missed[q],
         \A q \in Profilers : errors[q] => errors'[q],
         \A q \in Profilers : traced'[q] \subseteq traced[q] \cup (IF t = q THEN {t} ELSE {}),
         t \in Profilers =>
           /\ pc[t] = "body"
           /\ forward'[t].step # "none" => forward'[t].adapter \in Range(Paths[t])
           /\ forward'[t].fetched \in {None, t}
           /\ missed'[t] => errors'[t]
  PROVE  Spans'
<1>1. SUFFICES ASSUME NEW q \in Profilers
               PROVE  /\ traced'[q] \subseteq {q}
                      /\ forward'[q] # Idle => pc'[q] = "body"
                      /\ forward'[q].step # "none" => forward'[q].adapter \in Range(Paths[q])
                      /\ forward'[q].fetched \in {None, q}
                      /\ missed'[q] => errors'[q]
                      /\ outcome'[q] = "ok" => pc'[q] = "ended" /\ ~missed'[q]
  BY DEF Spans
<1>2. pc'[q] = pc[q] /\ outcome'[q] = outcome[q]
  BY DEF Outer, profile
<1>3. CASE q = t
  BY <1>2, <1>3 DEF Spans
<1>4. CASE q # t
  BY <1>2, <1>4 DEF Spans
<1>. QED BY <1>3, <1>4

LEMMA BeginForwardSafe ==
  ASSUME TypeOK, ListsOK, PositionOK, Spans, NEW t \in Threads, BeginForward(t)
  PROVE  ListsOK' /\ PositionOK' /\ Spans'
<1>1. PICK a \in Adapters :
        /\ t \in Profilers => a \in Range(Paths[t]) /\ pc[t] = "body"
        /\ forward' = [forward EXCEPT ![t] = [adapter |-> a, step |-> "guard", fetched |-> None]]
        /\ UNCHANGED <<open, closes, errors, traced, missed>> /\ Outer
  BY DEF BeginForward
<1>2. /\ forward'[t] = [adapter |-> a, step |-> "guard", fetched |-> None]
      /\ \A q \in Profilers \ {t} : forward'[q] = forward[q]
  BY <1>1 DEF TypeOK, Threads
<1>3. forward'[t].adapter = a /\ forward'[t].fetched = None
  BY <1>2
<1>4. t \in Profilers => ~missed[t] \/ errors[t]
  BY DEF Spans
<1>5. Spans'
  BY <1>1, <1>2, <1>3, <1>4, SpansStep
<1>. QED BY <1>1, <1>5, OuterQuiet

\* In its body a profile finds its own hook in every place of its targets.
LEMMA FetchSafe ==
  ASSUME TypeOK, ListsOK, PositionOK, Spans, NEW t \in Threads, Fetch(t)
  PROVE  ListsOK' /\ PositionOK' /\ Spans'
<1>. DEFINE a == forward[t].adapter
            k == forward[t].step
            c == found[a][k]
<1>1. /\ k # "none" /\ c # None /\ forward' = [forward EXCEPT ![t].fetched = c]
      /\ UNCHANGED <<adapters, forwards, errors, traced, missed>> /\ Outer
  BY DEF Fetch
<1>2. /\ forward[t] \in [adapter : Adapters \cup {None},
                         step : {"none"} \cup (Kinds \ {"fallback"}),
                         fetched : Contents]
      /\ a \in Adapters /\ k \in Kinds
  BY <1>1 DEF TypeOK
<1>3. t \in Profilers => pc[t] = "body" /\ a \in Range(Paths[t]) /\ c = t
  <2>1. SUFFICES ASSUME t \in Profilers
                 PROVE  pc[t] = "body" /\ a \in Range(Paths[t]) /\ c = t
    OBVIOUS
  <2>2. forward[t] # Idle
    BY <1>1 DEF Idle
  <2>3. pc[t] = "body" /\ a \in Range(Paths[t])
    BY <1>1, <2>1, <2>2 DEF Spans
  <2>4. PICK h \in 1 .. Len(Paths[t]) : a = Paths[t][h]
    BY <2>1, <2>3, TargetsAre
  <2>5. PICK l \in 1 .. 5 : Places[l] = k
    BY <1>2, PlacesAre
  <2>6. Noted(t, a, k)
    BY <2>1, <2>3, <2>4, <2>5 DEF PositionOK, Progress
  <2>. QED BY <1>1, <1>2, <2>1, <2>3, <2>6 DEF ListsOK, Hooked
<1>. HIDE DEF c
<1>4. /\ forward'[t].adapter = a /\ forward'[t].step = k /\ forward'[t].fetched = c
      /\ \A q \in Profilers \ {t} : forward'[q] = forward[q]
  BY <1>1, <1>2 DEF TypeOK, Threads
<1>5. t \in Profilers => ~missed[t] \/ errors[t]
  BY DEF Spans
<1>6. Spans'
  BY <1>1, <1>3, <1>4, <1>5, SpansStep
<1>. QED BY <1>1, <1>6, OuterQuiet DEF adapters

LEMMA WorkSafe ==
  ASSUME TypeOK, ListsOK, PositionOK, Spans, NEW t \in Threads, Work(t)
  PROVE  ListsOK' /\ PositionOK' /\ Spans'
<1>1. /\ forward[t].fetched # None /\ UNCHANGED <<open, closes, forwards>> /\ Outer
      /\ \/ \E next \in {"native", "callable_fallback", "entry"} :
              forward[t].step # "none" /\ Proceed(t, next)
         \/ Finish(t)
  BY DEF Work
<1>2. /\ forward[t] \in [adapter : Adapters \cup {None},
                         step : {"none"} \cup (Kinds \ {"fallback"}),
                         fetched : Contents]
      /\ t \in DOMAIN forward
  BY DEF TypeOK
<1>3. /\ \A q \in Profilers : errors[q] => errors'[q]
      /\ \A q \in Profilers : traced'[q] \subseteq traced[q] \cup (IF t = q THEN {t} ELSE {})
      /\ \A q \in Profilers \ {t} : missed'[q] = missed[q]
      /\ t \in Profilers => (missed'[t] <=> missed[t] \/ forward[t].fetched # t \/ errors'[t])
  BY WorkEffect
<1>4. t \in Profilers => pc[t] = "body" /\ forward[t].fetched = t
  <2>1. forward[t] # Idle
    BY <1>1 DEF Idle
  <2>. QED BY <1>1, <2>1 DEF Spans
<1>5. t \in Profilers => (missed'[t] => errors'[t])
  BY <1>3, <1>4 DEF Spans
<1>6. /\ \A q \in Profilers \ {t} : forward'[q] = forward[q]
      /\ forward'[t].fetched = None
      /\ forward'[t].step # "none" =>
           forward[t].step # "none" /\ forward'[t].adapter = forward[t].adapter
  <2>1. CASE Finish(t)
    BY <1>2, <2>1 DEF Finish, Idle
  <2>2. ASSUME NEW next, forward[t].step # "none", Proceed(t, next)
        PROVE  /\ \A q \in Profilers \ {t} : forward'[q] = forward[q]
               /\ forward'[t].fetched = None
               /\ forward'[t].step # "none" =>
                    forward[t].step # "none" /\ forward'[t].adapter = forward[t].adapter
    <3>1. forward' = [forward EXCEPT ![t].step = next, ![t].fetched = None]
      BY <2>2 DEF Proceed
    <3>. DEFINE new == [forward[t] EXCEPT !.step = next, !.fetched = None]
    <3>2. new.adapter = forward[t].adapter /\ new.fetched = None
      BY <1>2
    <3>3. forward' = [forward EXCEPT ![t] = new]
      BY ONLY <1>2, <3>1
    <3>. HIDE DEF new
    <3>4. forward'[t] = new /\ \A q \in Profilers \ {t} : forward'[q] = forward[q]
      BY <1>2, <3>3 DEF TypeOK, Threads
    <3>. QED BY <2>2, <3>2, <3>4
  <2>. QED BY <1>1, <2>1, <2>2
<1>7. t \in Profilers => (forward'[t].step # "none" => forward'[t].adapter \in Range(Paths[t]))
  BY <1>6 DEF Spans
<1>8. Spans'
  BY <1>1, <1>3, <1>4, <1>5, <1>6, <1>7, SpansStep
<1>. QED BY <1>1, <1>8, OuterQuiet

LEMMA CloseSafe ==
  ASSUME TypeOK, ListsOK, PositionOK, Spans, NEW a \in Adapters,
         BeginClose(a) \/ \E success \in BOOLEAN : EndClose(a, success)
  PROVE  ListsOK' /\ PositionOK' /\ Spans'
<1>1. UNCHANGED <<profile, running, errors, active, torn>>
  BY DEF BeginClose, EndClose, Outer
<1>2. UNCHANGED <<pc, i, j, binding, undo, outcome, forward, traced, missed>>
  BY <1>1 DEF profile, running
<1>3. Spans'
  BY <1>1, <1>2 DEF Spans
<1>4. PositionOK'
  BY <1>2, QuietPositions
<1>5. \A p \in Profilers : Holding(p)' <=> Holding(p)
  BY <1>2 DEF Holding
<1>6. ListsOK'
  <2>1. CASE UNCHANGED found /\ \A b \in Adapters : open'[b] = "closed" <=> open[b] = "closed"
    BY <1>1, <1>2, <1>5, <2>1, QuietLists
  <2>2. CASE open' = [open EXCEPT ![a] = "closed"] /\ found' = [found EXCEPT ![a]["entry"] = None]
    <3>1. "entry" \in Kinds /\ None \in Contents
      BY PlacesAre DEF Contents
    <3>2. \A b \in Adapters, l \in Kinds :
            found'[b][l] = IF b = a /\ l = "entry" THEN None ELSE found[b][l]
      BY <2>2, <3>1, FoundUpdate
    <3>3. \A b \in Adapters : open'[b] = IF b = a THEN "closed" ELSE open[b]
      BY <2>2 DEF TypeOK
    <3>4. \A q, b, l : Noted(q, b, l)' <=> Noted(q, b, l)
      BY <1>2 DEF Noted
    <3>5. Held' /\ Own' /\ Once'
      BY <1>1, <1>2, <1>5 DEF ListsOK, Held, Own, Once
    <3>6. Hooked'
      BY <3>2, <3>4 DEF ListsOK, Hooked
    <3>7. Production'
      BY <1>1, <1>2, <3>1, <3>2, <3>3, <3>4 DEF ListsOK, Production
    <3>. QED BY <3>5, <3>6, <3>7 DEF ListsOK
  <2>3. CASE BeginClose(a)
    <3>1. UNCHANGED found /\ open' = [open EXCEPT ![a] = "closing"] /\ open[a] # "closed"
      BY <2>3 DEF BeginClose, Outer
    <3>2. \A b \in Adapters : open'[b] = "closed" <=> open[b] = "closed"
      BY <3>1 DEF TypeOK
    <3>. QED BY <2>1, <3>1, <3>2
  <2>4. ASSUME NEW success \in BOOLEAN, EndClose(a, success) PROVE ListsOK'
    <3>1. CASE success
      BY <2>2, <2>4, <3>1 DEF EndClose
    <3>2. CASE ~success
      <4>1. UNCHANGED found /\ open' = [open EXCEPT ![a] = "shut"] /\ open[a] = "closing"
        BY <2>4, <3>2 DEF EndClose
      <4>2. \A b \in Adapters : open'[b] = "closed" <=> open[b] = "closed"
        BY <4>1 DEF TypeOK
      <4>. QED BY <2>1, <4>1, <4>2
    <3>. QED BY <3>1, <3>2
  <2>. QED BY <2>3, <2>4
<1>. QED BY <1>3, <1>4, <1>6

-----------------------------------------------------------------------------
(* The theorems                                                            *)

LEMMA IInvInit ==
  ASSUME Init
  PROVE  IInv
<1>. USE DEF Init
<1>1. TypeOK
  <2>1. \A p \in Profilers : i[p] = 1 /\ 1 \in 1 .. Len(Paths[p])
    BY TargetsAre
  <2>. QED BY <2>1 DEF TypeOK, Contents, Kinds, Idle
<1>2. \A p \in Profilers : ~Holding(p) /\ undo[p] = <<>>
  BY DEF Holding
<1>3. \A p \in Profilers : \A a, k : ~Noted(p, a, k)
  BY <1>2 DEF Noted
<1>4. Held /\ Own /\ Once /\ Hooked
  BY <1>2, <1>3 DEF Held, Own, Once, Hooked
<1>5. Production
  <2>1. "entry" \in Kinds /\ None # "production"
    BY PlacesAre, ProfileAssumption
  <2>. QED BY <1>2, <1>3, <2>1 DEF Production, Kinds
<1>6. PositionOK
  BY TargetsAre DEF PositionOK, Progress, Bound, Starts
<1>7. Spans
  <2>1. \A p \in Profilers : forward[p] = Idle
    BY DEF Threads
  <2>2. Idle.step = "none" /\ Idle.fetched = None
    BY DEF Idle
  <2>. QED BY <2>1, <2>2 DEF Spans
<1>. QED BY <1>1, <1>4, <1>5, <1>6, <1>7 DEF IInv, ListsOK

LEMMA IInvNext ==
  ASSUME IInv, [Next]_vars
  PROVE  IInv'
<1>1. TypeOK /\ ListsOK /\ PositionOK /\ Spans
  BY DEF IInv
<1>2. TypeOK'
  BY <1>1, TypeStep
<1>3. ListsOK' /\ PositionOK' /\ Spans'
  <2>1. ASSUME NEW p \in Profilers,
               \/ LookAtTarget(p) \/ RequireIdle(p) \/ TakeBinding(p) \/ Activate(p)
               \/ InstallPlace(p) \/ EndBody(p) \/ Interrupt(p)
               \/ UndoPlace(p) \/ Deactivate(p) \/ Exit(p)
        PROVE  ListsOK' /\ PositionOK' /\ Spans'
    BY <1>1, <2>1, LookSafe, TakeBindingSafe, ActivateSafe, InstallSafe, LeaveBodySafe,
       InterruptSafe, UndoSafe, DeactivateSafe, ExitSafe
  <2>2. ASSUME NEW t \in Threads, BeginForward(t) \/ Fetch(t) \/ Work(t)
        PROVE  ListsOK' /\ PositionOK' /\ Spans'
    BY <1>1, <2>2, BeginForwardSafe, FetchSafe, WorkSafe
  <2>3. ASSUME NEW a \in Adapters, BeginClose(a) \/ \E success \in BOOLEAN : EndClose(a, success)
        PROVE  ListsOK' /\ PositionOK' /\ Spans'
    BY <1>1, <2>3, CloseSafe
  <2>4. CASE UNCHANGED vars
    <3>1. UNCHANGED <<found, active, errors, torn, pc, i, j, binding, undo, outcome, open,
                      forward, traced, missed>>
      BY <2>4 DEF vars, profile, adapters, running
    <3>2. \A p \in Profilers : Holding(p)' <=> Holding(p)
      BY <3>1 DEF Holding
    <3>3. Spans'
      BY <1>1, <3>1 DEF Spans
    <3>. QED BY <1>1, <3>1, <3>2, <3>3, QuietLists, QuietPositions
  <2>. QED BY <2>1, <2>2, <2>3, <2>4 DEF Next
<1>. QED BY <1>2, <1>3 DEF IInv

LEMMA IInvAlways == Spec => []IInv
<1>. QED BY IInvInit, IInvNext, PTL DEF Spec

\* Every state of the profiles is of its type: a position is at a target of the profile,
\* and what is put back is something that was in that kind of place.
THEOREM TypeCorrect == Spec => []TypeOK
<1>1. IInv => TypeOK
  BY DEF IInv
<1>. QED BY <1>1, IInvAlways, PTL

\* Whatever profiles overlap, fail in the middle or are interrupted, and whatever is
\* closed meanwhile: an adapter no profile holds is as it was before all of them.
THEOREM AlwaysPutBack == Spec => []PutBack
<1>1. ASSUME IInv PROVE PutBack
  <2>1. SUFFICES ASSUME NEW a \in Adapters \ (active \cup torn)
                 PROVE  /\ \A k \in Kinds \ {"entry"} : found[a][k] = "production"
                        /\ found[a]["entry"] =
                             IF open[a] = "closed" THEN None ELSE "production"
    BY DEF PutBack, Kinds
  <2>2. ASSUME NEW p \in Profilers, NEW k PROVE ~Noted(p, a, k)
    <3>1. SUFFICES ASSUME NEW m \in 1 .. Len(undo[p]), undo[p][m][1] = a PROVE FALSE
      BY DEF Noted
    <3>2. Holding(p) /\ a \in Range(Paths[p])
      BY <1>1, <3>1 DEF IInv, ListsOK, Own
    <3>. QED BY <1>1, <3>2 DEF IInv, ListsOK, Held
  <2>3. "entry" \in Kinds
    BY PlacesAre
  <2>. QED BY <1>1, <2>2, <2>3 DEF IInv, ListsOK, Production
<1>. QED BY <1>1, IInvAlways, PTL

\* The hooks in an adapter are of one profile, and that one is in its context, also
\* when several have found the adapter free: the look under the lock decides.
THEOREM AlwaysOneProfile == Spec => []OneProfile
<1>1. ASSUME IInv PROVE OneProfile
  <2>1. SUFFICES ASSUME NEW a \in Adapters \ torn, NEW k \in Kinds, NEW l \in Kinds,
                        found[a][k] \in Profilers
                 PROVE  /\ pc[found[a][k]] \in {"install", "body", "undo"}
                        /\ found[a][l] \in {"production", None, found[a][k]}
    BY DEF OneProfile, Kinds
  <2>2. found[a][k] # "production" /\ found[a][k] # None
    BY <2>1, ProfileAssumption
  <2>3. PICK p \in Profilers : Noted(p, a, k)
    BY <1>1, <2>2 DEF IInv, ListsOK, Production
  <2>4. found[a][k] = p
    BY <1>1, <2>2, <2>3 DEF IInv, ListsOK, Hooked
  <2>5. Holding(p) /\ a \in Range(Paths[p])
    <3>1. PICK m \in 1 .. Len(undo[p]) : undo[p][m][1] = a
      BY <2>3 DEF Noted
    <3>. QED BY <1>1, <3>1 DEF IInv, ListsOK, Own
  <2>6. found[a][l] \in {"production", None, p}
    <3>1. CASE \E q \in Profilers : Noted(q, a, l)
      <4>1. PICK q \in Profilers : Noted(q, a, l)
        BY <3>1
      <4>2. q = p
        BY <1>1, <2>5, <4>1, NobodyNoted DEF IInv, ListsOK
      <4>. QED BY <1>1, <4>1, <4>2 DEF IInv, ListsOK, Hooked
    <3>2. CASE \A q \in Profilers : ~Noted(q, a, l)
      BY <1>1, <3>2 DEF IInv, ListsOK, Production
    <3>. QED BY <3>1, <3>2
  <2>. QED BY <2>4, <2>5, <2>6 DEF Holding
<1>. QED BY <1>1, IInvAlways, PTL

\* A trace that is returned without an error has all spans of its own thread's
\* forwards and none of another's.
THEOREM TraceAlwaysWhole == Spec => []TraceIsWhole
<1>1. IInv => TraceIsWhole
  BY DEF IInv, Spans, TraceIsWhole
<1>. QED BY <1>1, IInvAlways, PTL

-----------------------------------------------------------------------------
(* Measurement: what an accepted document stands for, for any layers,      *)
(* cases, generations and steps of other code.  Up to two such steps, the  *)
(* counters of a disturbed window are not those of the generation, or an   *)
(* adapter stays covered, which close() will notice.                       *)

MeasurementPlaces == {"load", "fp32", "install", "installed", "turn", "before", "run",
  "after", "compare", "recheck", "close", "restored", "source", "ended"}

\* Where the program holds the installation, and where it has given it back.
HoldingPlaces == {"installed", "turn", "before", "run", "after", "compare", "recheck", "close"}
GivenPlaces == {"restored", "source"}

\* Nothing has gone wrong so far, as far as the program knows.
Sound == ~failed /\ ~raised

\* No module has been put over an adapter.
Uncovered == \A l \in Layers : module[l] = "adapter"

\* Other code has not had the steps yet to call in place of the model and hide it.
Clear == outside <= 1 \/ (outside = 2 /\ Uncovered)

MeasurementTypes ==
  /\ runner \in Runners /\ parity \in {0, 1}
  /\ place \in MeasurementPlaces
  /\ n \in Nat \ {0}
  /\ place = "fp32" => n <= NumCases
  /\ place \notin {"fp32", "ended"} => n <= Len(Plan)
  /\ fp32 \in [Cases -> {"none", "all", "generated", "failed"}]
  /\ module \in [Layers -> {"original", "adapter", "covered", "other"}]
  /\ mode \in {Reference, Hybrid}
  /\ delta \in [Layers -> [forward : Nat, native : Nat, fallback : Nat]]
  /\ current \in Outputs \cup {"none"}
  /\ results \in [1 .. Len(Plan) -> Outputs \cup {"none", "failed"}]
  /\ verdict \in {"none", "accepted", "rejected"} /\ source \in {0, 1}
  /\ outside \in Nat

MeasurementFlags ==
  /\ failed \in BOOLEAN /\ raised \in BOOLEAN /\ lost \in BOOLEAN
  /\ disturbed \in BOOLEAN /\ tainted \in BOOLEAN

\* Who holds the model.
Installed ==
  /\ place \in {"load", "fp32", "install"} \cup GivenPlaces =>
       \A l \in Layers : module[l] \in {"original", "other"}
  /\ place \in HoldingPlaces => \A l \in Layers : module[l] \in {"adapter", "covered"}
  /\ place # "ended" => ~lost /\ verdict = "none"
  /\ GivenBack

\* What has failed is noted: by the evaluations in failed, by the others in raised.
FailuresNoted ==
  /\ ~Evaluation => ~failed
  /\ \A c \in Cases : fp32[c] \in {"generated", "failed"} => failed
  /\ \A k \in 1 .. Len(Plan) : results[k] = "failed" => failed
  /\ place \in {"load", "fp32", "install", "installed", "source"} => ~raised
  /\ place = "fp32" => Evaluation
  /\ place \in {"load", "install", "installed"} => n = 1

\* The comparisons that are due once the m-th generation is over.
DueAt(m) ==
  CASE runner = "performance" -> IF m = Len(Plan) THEN (1 .. m) \X (1 .. m) ELSE {}
    [] runner = "profile" -> IF m % 3 = 0 THEN (1 .. m) \X (1 .. m) ELSE {}
    [] OTHER -> IF Plan[m].path = Hybrid THEN (1 .. m) \X {m} ELSE {}

Compared(m) ==
  \A k \in 1 .. m : \A pair \in DueAt(k) :
    MustAgree(pair[1], pair[2]) => Agree(pair[1], pair[2])

Have(m) == \A k \in 1 .. m : results[k] \in Outputs

\* As long as nothing has failed, every generation so far has its result, and
\* those that were due agree.
Kept ==
  Sound =>
    /\ place \in {"turn", "before", "run", "after"} => Have(n - 1) /\ Compared(n - 1)
    /\ place = "compare" => Have(n) /\ Compared(n - 1)
    /\ place \in {"recheck", "close", "restored", "source"} =>
         Have(Len(Plan)) /\ Compared(Len(Plan))

\* The mode is selected once for many generations.
InMode ==
  Sound =>
    /\ place = "turn" /\ n > 1 => mode = Plan[n - 1].path
    /\ place \in {"before", "run", "after", "compare"} => mode = Plan[n].path

\* What was called in the window.
Windowed ==
  /\ place \in HoldingPlaces /\ outside = 0 => Uncovered
  /\ place \notin {"run", "after"} => delta = Zero /\ ~disturbed
  /\ place = "run" =>
       /\ \A l \in Layers : delta[l].native <= delta[l].forward
       /\ disturbed => \E l \in Layers : delta[l].forward > 0
       /\ outside = 0 \/ (outside = 1 /\ ~Uncovered) => delta = Zero
  /\ place = "after" => current \in Outputs
  /\ place = "after" /\ Sound /\ outside <= 1 /\ Uncovered =>
       \A l \in Layers : delta[l].forward >= Tokens(current)
  /\ place = "after" /\ Sound /\ Clear /\ disturbed =>
       \E l \in Layers :
         \/ delta[l].forward # Tokens(current)
         \/ delta[l].native < Calls(Plan[n].path, Tokens(current)).native

\* No disturbed generation was kept, unless that will come out.
Untainted ==
  /\ place \in {"load", "fp32", "install"} => ~tainted
  /\ Sound /\ place \in HoldingPlaces /\ Clear => ~tainted
  /\ Sound /\ place \in GivenPlaces /\ outside <= 2 => ~tainted

MeasurementInv ==
  /\ MeasurementTypes /\ MeasurementFlags /\ Installed /\ FailuresNoted
  /\ Kept /\ InMode /\ Windowed /\ Untainted /\ AcceptedComplete

LEMMA TripleFacts ==
  ASSUME NEW case, NEW m \in 1 .. 3
  PROVE  /\ Triple(case)[m].case = case /\ Triple(case)[m].path \in {Reference, Hybrid}
         /\ Triple(case)[m].kind = IF m = 2 THEN "force" ELSE "once"
         /\ m = 3 => Triple(case)[m].path = Hybrid
<1>1. /\ Triple(case)[1] = Run(Reference, "once", case)
      /\ Triple(case)[2] = Run(Reference, "force", case)
      /\ Triple(case)[3] = Run(Hybrid, "once", case)
  BY DEF Triple
<1>. QED BY <1>1 DEF Run, Again

\* The first facts about a plan: it is not empty, and its generations are of their kind.
LEMMA PlanFacts ==
  ASSUME runner \in Runners, parity \in {0, 1}
  PROVE  /\ Len(Plan) \in Nat \ {0} /\ DOMAIN Plan = 1 .. Len(Plan)
         /\ \A k \in 1 .. Len(Plan) : Plan[k].path \in {Reference, Hybrid} /\ Plan[k].case \in Cases
         /\ Plan[1].kind # "force"
         /\ runner = "profile" => Len(Plan) = 6
<1> USE MeasurementAssumption DEF Cases
<1>1. CASE runner = "demo"
  <2>1. Plan = DemoPlan
    BY <1>1 DEF Plan
  <2>2. Len(DemoPlan) = 2 /\ DOMAIN DemoPlan = 1 .. 2
    BY DEF DemoPlan
  <2>3. DemoPlan[1] = Run(Reference, "once", 1) /\ DemoPlan[2] = Run(Hybrid, "once", 1)
    BY DEF DemoPlan
  <2>. QED BY <1>1, <2>1, <2>2, <2>3 DEF Run, Again
<1>2. CASE runner = "profile"
  <2>1. Plan = ProfilePlan[parity]
    BY <1>2 DEF Plan
  <2>2. Len(ProfilePlan[parity]) = 6 /\ DOMAIN ProfilePlan[parity] = 1 .. 6
    BY DEF ProfilePlan
  <2>3. \A k \in 1 .. 6 : (k - 1) \div 3 + 1 \in {1, 2}
    OBVIOUS
  <2>4. PathOrder(parity)[1] \in {Reference, Hybrid} /\ PathOrder(parity)[2] \in {Reference, Hybrid}
    BY DEF PathOrder
  <2>5. KindOrder(parity)[1] = "warmup"
    BY DEF KindOrder
  <2>. QED BY <1>2, <2>1, <2>2, <2>3, <2>4, <2>5 DEF ProfilePlan, Run, Again
<1>3. CASE runner = "correctness"
  <2>1. Plan = CorrectnessPlan
    BY <1>3 DEF Plan
  <2>2. Len(CorrectnessPlan) = 3 * NumCases /\ DOMAIN CorrectnessPlan = 1 .. 3 * NumCases
    BY DEF CorrectnessPlan
  <2>3. \A k \in 1 .. 3 * NumCases : (k - 1) \div 3 + 1 \in Cases /\ ((k - 1) % 3) + 1 \in 1 .. 3
    OBVIOUS
  <2>4. ASSUME NEW k \in 1 .. 3 * NumCases
        PROVE  /\ CorrectnessPlan[k].path \in {Reference, Hybrid}
               /\ CorrectnessPlan[k].case \in Cases
               /\ k = 1 => CorrectnessPlan[k].kind # "force"
    <3>1. CorrectnessPlan[k] = Triple((k - 1) \div 3 + 1)[((k - 1) % 3) + 1]
      BY DEF CorrectnessPlan
    <3>2. k = 1 => ((k - 1) % 3) + 1 = 1
      OBVIOUS
    <3>. QED BY <2>3, <3>1, <3>2, TripleFacts
  <2>5. 1 \in 1 .. 3 * NumCases
    OBVIOUS
  <2>. QED BY <1>3, <2>1, <2>2, <2>4, <2>5
<1>4. CASE runner = "performance"
  <2>1. Plan = PerformancePlan[parity]
    BY <1>4 DEF Plan
  <2>2. PICK D \in Nat \ {0} : D = NumCases * Timed
    BY DEF Timed
  <2>3. Timed \in Nat \ {0}
    BY DEF Timed
  <2>4. Len(PerformancePlan[parity]) = 2 * D /\ DOMAIN PerformancePlan[parity] = 1 .. 2 * D
    BY <2>2 DEF PerformancePlan
  <2>5. ASSUME NEW k \in 1 .. 2 * D
        PROVE  (k - 1) \div D + 1 \in {1, 2} /\ (((k - 1) \div Timed) % NumCases) + 1 \in Cases
    <3>1. (k - 1) \div D \in {0, 1}
      BY <2>2
    <3>2. (k - 1) \div Timed \in Nat
      BY <2>2, <2>3
    <3>. QED BY <3>1, <3>2
  <2>6. PathOrder(parity)[1] \in {Reference, Hybrid} /\ PathOrder(parity)[2] \in {Reference, Hybrid}
    BY DEF PathOrder
  <2>7. ASSUME NEW k \in 1 .. 2 * D
        PROVE  /\ PerformancePlan[parity][k].path \in {Reference, Hybrid}
               /\ PerformancePlan[parity][k].case \in Cases
               /\ PerformancePlan[parity][k].kind # "force"
    <3>1. PICK h, c, r : /\ h = (k - 1) \div D + 1 /\ c = (((k - 1) \div Timed) % NumCases) + 1
                         /\ r = (k - 1) % Timed
      OBVIOUS
    <3>2. PerformancePlan[parity][k] = Repeated(PathOrder(parity)[h], c, r)
      BY <2>2, <3>1 DEF PerformancePlan
    <3>. QED BY <2>5, <2>6, <3>1, <3>2 DEF Repeated, Run, Again
  <2>. QED BY <1>4, <2>1, <2>2, <2>4, <2>7
<1>. QED BY <1>1, <1>2, <1>3, <1>4 DEF Runners

\* In the demo and in the evaluation of correctness, of two generations that must agree the
\* later one is on the hybrid path.
LEMMA LaterIsHybrid ==
  ASSUME runner \in {"demo", "correctness"}, parity \in {0, 1},
         NEW a \in 1 .. Len(Plan), NEW b \in 1 .. Len(Plan), a < b, MustAgree(a, b)
  PROVE  Plan[b].path = Hybrid
<1> USE MeasurementAssumption
<1>1. CASE runner = "demo"
  <2>1. Plan = DemoPlan
    BY <1>1 DEF Plan
  <2>2. Len(DemoPlan) = 2 /\ DemoPlan[2] = Run(Hybrid, "once", 1)
    BY DEF DemoPlan
  <2>. QED BY <2>1, <2>2 DEF Run, Again
<1>2. CASE runner = "correctness"
  <2>1. Plan = CorrectnessPlan
    BY <1>2 DEF Plan
  <2>2. Len(CorrectnessPlan) = 3 * NumCases
    BY DEF CorrectnessPlan
  <2>3. ASSUME NEW k \in 1 .. Len(Plan)
        PROVE  /\ Plan[k].case = (k - 1) \div 3 + 1
               /\ Plan[k].kind = "once" => ((k - 1) % 3) + 1 \in {1, 3}
               /\ ((k - 1) % 3) + 1 = 3 => Plan[k].path = Hybrid
    <3>1. ((k - 1) % 3) + 1 \in 1 .. 3
      BY <2>1, <2>2
    <3>2. Plan[k] = Triple((k - 1) \div 3 + 1)[((k - 1) % 3) + 1]
      BY <2>1, <2>2 DEF CorrectnessPlan
    <3>. QED BY <3>1, <3>2, TripleFacts
  <2>4. /\ (a - 1) \div 3 = (b - 1) \div 3
        /\ ((a - 1) % 3) + 1 \in {1, 3} /\ ((b - 1) % 3) + 1 \in {1, 3}
    <3>1. Plan[a].case = Plan[b].case /\ Plan[a].kind = "once" /\ Plan[b].kind = "once"
      BY <1>2 DEF MustAgree
    <3>2. (a - 1) \div 3 \in Int /\ (b - 1) \div 3 \in Int
      BY <2>1, <2>2
    <3>. QED BY <2>3, <3>1, <3>2
  <2>5. ((b - 1) % 3) + 1 = 3
    BY <2>1, <2>2, <2>4
  <2>. QED BY <2>3, <2>5
<1>. QED BY <1>1, <1>2

\* From a state of the invariant the facts the steps need of the plan, which stays.
LEMMA PlanStays ==
  ASSUME MeasurementTypes, [MeasurementNext]_measurementVars
  PROVE  /\ runner' = runner /\ parity' = parity /\ Plan' = Plan
         /\ \A a, b : MustAgree(a, b)' = MustAgree(a, b)
<1>1. runner' = runner /\ parity' = parity
  <2> USE DEF Untouched, Elsewhere, request
  <2>1. ASSUME Step PROVE runner' = runner /\ parity' = parity
    BY <2>1 DEF Step, Load, Baseline, Install, Overlooked, CheckInstallation, LeaveOut, SelectMode,
       Before, Generate, Reconcile, Compare, Recheck, Close, CheckRestored, CheckSource,
       KeyboardInterrupt
  <2>2. ASSUME Outside PROVE runner' = runner /\ parity' = parity
    BY <2>2 DEF Outside
  <2>3. ASSUME UNCHANGED measurementVars PROVE runner' = runner /\ parity' = parity
    BY <2>3 DEF measurementVars
  <2>. QED BY <2>1, <2>2, <2>3 DEF MeasurementNext
<1>2. Plan' = Plan
  BY <1>1 DEF Plan
<1>3. \A a, b : MustAgree(a, b)' = MustAgree(a, b)
  BY <1>1, <1>2 DEF MustAgree
<1>. QED BY <1>1, <1>2, <1>3

LEMMA CallsFacts ==
  ASSUME NEW path \in {Reference, Hybrid}, NEW tokens \in Nat \ {0}
  PROVE  /\ Calls(path, tokens) \in [forward : Nat, native : Nat, fallback : Nat]
         /\ Calls(path, tokens).forward = tokens
         /\ Calls(path, tokens).native = IF path = Hybrid THEN tokens - 1 ELSE 0
BY DEF Calls, Reference, Hybrid

LEMMA PlusFacts ==
  ASSUME NEW a \in [forward : Nat, native : Nat, fallback : Nat],
         NEW b \in [forward : Nat, native : Nat, fallback : Nat]
  PROVE  /\ Plus(a, b) \in [forward : Nat, native : Nat, fallback : Nat]
         /\ Plus(a, b).forward = a.forward + b.forward
         /\ Plus(a, b).native = a.native + b.native
<1>1. DOMAIN a = {"forward", "native", "fallback"}
  OBVIOUS
<1>2. Plus(a, b) = [f \in {"forward", "native", "fallback"} |-> a[f] + b[f]]
  BY <1>1 DEF Plus
<1>3. Plus(a, b) = [forward |-> a.forward + b.forward, native |-> a.native + b.native,
                    fallback |-> a.fallback + b.fallback]
  BY <1>2
<1>. QED BY <1>3

LEMMA SingleCallsFacts ==
  ASSUME NEW call \in SingleCalls
  PROVE  /\ call \in [forward : Nat, native : Nat, fallback : Nat]
         /\ call.forward = 1 /\ call.native \in {0, 1}
BY DEF SingleCalls

LEMMA TokensFacts ==
  ASSUME NEW output \in Outputs
  PROVE  Tokens(output) \in {1, 2}
BY DEF Tokens

\* Once every comparison that was due has been made, all that must agree do.
LEMMA AllPairs ==
  ASSUME runner \in Runners, parity \in {0, 1}, Have(Len(Plan)), Compared(Len(Plan))
  PROVE  \A a, b \in 1 .. Len(Plan) : MustAgree(a, b) => Agree(a, b)
<1>1. Len(Plan) \in Nat \ {0} /\ (runner = "profile" => Len(Plan) = 6)
  BY PlanFacts
<1>2. Len(Plan) \in 1 .. Len(Plan)
  BY <1>1
<1>3. CASE runner \in {"performance", "profile"}
  <2>1. DueAt(Len(Plan)) = (1 .. Len(Plan)) \X (1 .. Len(Plan))
    <3>1. CASE runner = "performance"
      BY <3>1 DEF DueAt
    <3>2. CASE runner = "profile"
      <4>1. PICK m \in Nat : m = Len(Plan)
        BY <1>1
      <4>2. m = 6
        BY <1>1, <3>2, <4>1
      <4>3. m % 3 = 0
        BY <4>2
      <4>. QED BY <3>2, <4>1, <4>3 DEF DueAt
    <3>. QED BY <1>3, <3>1, <3>2
  <2>2. ASSUME NEW a \in 1 .. Len(Plan), NEW b \in 1 .. Len(Plan), MustAgree(a, b)
        PROVE  Agree(a, b)
    <3>1. <<a, b>> \in DueAt(Len(Plan))
      BY <2>1
    <3>. QED BY <1>2, <2>2, <3>1 DEF Compared
  <2>. QED BY <2>2
<1>4. CASE runner \in {"demo", "correctness"}
  <2>1. ASSUME NEW a \in 1 .. Len(Plan), NEW b \in 1 .. Len(Plan), a < b, MustAgree(a, b)
        PROVE  Agree(a, b)
    <3>1. Plan[b].path = Hybrid
      BY <1>4, <2>1, LaterIsHybrid
    <3>2. DueAt(b) = (1 .. b) \X {b}
      BY <1>4, <3>1 DEF DueAt
    <3>3. <<a, b>> \in DueAt(b)
      BY <1>1, <2>1, <3>2
    <3>. QED BY <2>1, <3>3 DEF Compared
  <2>2. ASSUME NEW a \in 1 .. Len(Plan), NEW b \in 1 .. Len(Plan), MustAgree(a, b)
        PROVE  MustAgree(b, a)
    BY <1>4, <2>2 DEF MustAgree
  <2>3. ASSUME NEW a \in 1 .. Len(Plan), NEW b \in 1 .. Len(Plan), MustAgree(a, b)
        PROVE  Agree(a, b)
    <3>1. CASE a < b
      BY <2>1, <2>3, <3>1
    <3>2. CASE a = b
      BY <3>2 DEF Agree, Have
    <3>3. CASE b < a
      <4>1. Agree(b, a)
        BY <2>1, <2>2, <2>3, <3>3
      <4>. QED BY <4>1 DEF Agree
    <3>. QED BY <1>1, <3>1, <3>2, <3>3
  <2>. QED BY <2>3
<1>. QED BY <1>3, <1>4 DEF Runners

\* A generation that did not fail.
LEMMA Generated ==
  ASSUME Generate, ~(Fault /\ LeaveWindow)
  PROVE  \E output \in Outputs, without \in {{}} \cup {{l} : l \in Layers} :
            /\ without # {} => mode = Hybrid /\ Tokens(output) = 2
            /\ current' = output
            /\ delta' = [l \in Layers |->
                 IF module[l] # "adapter" THEN delta[l]
                 ELSE Plus(delta[l],
                           Calls(IF l \in without THEN Reference ELSE mode, Tokens(output)))]
            /\ disturbed' = (disturbed \/ without # {} \/ mode # Plan[n].path
                              \/ \E l \in Layers : module[l] # "adapter")
            /\ Advance("after")
<1>1. PICK output \in IF Plan[n].kind = "force" THEN {"eos"} ELSE Outputs,
           without \in {{}} \cup {{l} : l \in Layers} :
            /\ without # {} => mode = Hybrid /\ Tokens(output) = 2
            /\ current' = output
            /\ delta' = [l \in Layers |->
                 IF module[l] # "adapter" THEN delta[l]
                 ELSE Plus(delta[l],
                           Calls(IF l \in without THEN Reference ELSE mode, Tokens(output)))]
            /\ disturbed' = (disturbed \/ without # {} \/ mode # Plan[n].path
                              \/ \E l \in Layers : module[l] # "adapter")
            /\ Advance("after")
  BY DEF Generate, Forced
<1>2. output \in Outputs
  BY DEF Outputs
<1>. QED BY <1>1, <1>2

\* Every step keeps the types.
LEMMA TypesStep ==
  ASSUME MeasurementTypes, FailuresNoted, Windowed, [MeasurementNext]_measurementVars
  PROVE  MeasurementTypes'
<1>a. /\ runner' = runner /\ parity' = parity /\ Plan' = Plan
      /\ \A a, b : MustAgree(a, b)' = MustAgree(a, b)
  BY PlanStays
<1>b. /\ Len(Plan) \in Nat \ {0}
      /\ \A k \in 1 .. Len(Plan) : Plan[k].path \in {Reference, Hybrid} /\ Plan[k].case \in Cases
  BY PlanFacts DEF MeasurementTypes
<1>c. Zero \in [Layers -> [forward : Nat, native : Nat, fallback : Nat]]
  BY DEF Zero
<1> USE MeasurementAssumption
    DEF Untouched, Elsewhere, request, cleanup, window, Advance, End, Raise, LoseModel,
        LeaveWindow, Fault, MeasurementTypes, MeasurementPlaces
<1>1. CASE Load
  BY <1>1, <1>a, <1>b, <1>c DEF Load, FailuresNoted
<1>2. CASE Baseline
  <2>2. n' \in Nat \ {0} /\ (place' = "fp32" => n' <= NumCases)
        /\ (place' \notin {"fp32", "ended"} => n' <= Len(Plan)) /\ place' \in MeasurementPlaces
    BY <1>2, <1>b DEF Baseline, FailuresNoted
  <2>3. fp32' \in [Cases -> {"none", "all", "generated", "failed"}]
    BY <1>2 DEF Baseline, Cases
  <2>4. results' = results /\ verdict' \in {verdict, "rejected"}
    BY <1>2 DEF Baseline
  <2>. QED BY <1>2, <1>a, <2>2, <2>3, <2>4 DEF Baseline
<1>3. CASE Install
  BY <1>3, <1>a, <1>b, <1>c DEF Install, FailuresNoted
<1>4. CASE Overlooked
  BY <1>4, <1>a, <1>b, <1>c DEF Overlooked
<1>5. CASE CheckInstallation
  BY <1>5, <1>a, <1>b, <1>c DEF CheckInstallation
<1>6. CASE LeaveOut
  BY <1>6, <1>a, <1>b, <1>c DEF LeaveOut, NextRun
<1>7. CASE SelectMode
  <2>1. mode' \in {Reference, Hybrid}
    BY <1>7, <1>b DEF SelectMode
  <2>. QED BY <1>7, <1>a, <2>1 DEF SelectMode
<1>8. CASE Before
  BY <1>8, <1>a, <1>b, <1>c DEF Before
<1>9. CASE Generate
  <2>1. CASE Fault /\ LeaveWindow
    BY <1>9, <1>a, <1>c, <2>1 DEF Generate
  <2>2. CASE ~(Fault /\ LeaveWindow)
    <3>1. PICK output \in Outputs, without \in {{}} \cup {{l} : l \in Layers} :
            /\ without # {} => mode = Hybrid /\ Tokens(output) = 2
            /\ current' = output
            /\ delta' = [l \in Layers |->
                 IF module[l] # "adapter" THEN delta[l]
                 ELSE Plus(delta[l],
                           Calls(IF l \in without THEN Reference ELSE mode, Tokens(output)))]
            /\ disturbed' = (disturbed \/ without # {} \/ mode # Plan[n].path
                              \/ \E l \in Layers : module[l] # "adapter")
            /\ Advance("after")
      BY <1>9, <2>2, Generated
    <3>2. ASSUME NEW l \in Layers
          PROVE  delta'[l] \in [forward : Nat, native : Nat, fallback : Nat]
      <4>1. PICK path \in {Reference, Hybrid} : path = IF l \in without THEN Reference ELSE mode
        OBVIOUS
      <4>2. Calls(path, Tokens(output)) \in [forward : Nat, native : Nat, fallback : Nat]
        <5>1. PICK tokens \in {1, 2} : tokens = Tokens(output)
          BY TokensFacts
        <5>. QED BY <5>1, CallsFacts
      <4>3. Plus(delta[l], Calls(path, Tokens(output)))
              \in [forward : Nat, native : Nat, fallback : Nat]
        BY <4>2, PlusFacts
      <4>. QED BY <3>1, <4>1, <4>3
    <3>3. delta' \in [Layers -> [forward : Nat, native : Nat, fallback : Nat]]
      BY <3>1, <3>2
    <3>. QED BY <1>9, <1>a, <2>2, <3>1, <3>3 DEF Generate
  <2>. QED BY <1>9, <2>1, <2>2 DEF Generate
<1>10. CASE Reconcile
  <2>1. /\ results' \in [1 .. Len(Plan) -> Outputs \cup {"none", "failed"}]
        /\ place' \in MeasurementPlaces \ {"fp32"} /\ n' = n /\ place = "after"
        /\ UNCHANGED <<fp32, verdict>>
    BY <1>10, <1>b DEF Reconcile, Windowed
  <2>. QED BY <1>10, <1>a, <1>c, <2>1 DEF Reconcile
<1>11. CASE Compare
  <2>2. n' \in Nat \ {0} /\ n' <= Len(Plan) /\ place' \in MeasurementPlaces \ {"fp32"}
    BY <1>11, <1>b DEF Compare, NextRun
  <2>3. UNCHANGED <<fp32, results, verdict>>
    BY <1>11 DEF Compare
  <2>. QED BY <1>11, <1>a, <2>2, <2>3 DEF Compare
<1>12. CASE Recheck
  BY <1>12, <1>a, <1>b, <1>c DEF Recheck
<1>13. CASE Close
  BY <1>13, <1>a, <1>b, <1>c DEF Close
<1>14. CASE CheckRestored
  BY <1>14, <1>a, <1>b, <1>c DEF CheckRestored
<1>15. CASE CheckSource
  BY <1>15, <1>a, <1>b, <1>c DEF CheckSource
<1>16. CASE KeyboardInterrupt
  BY <1>16, <1>a, <1>b, <1>c DEF KeyboardInterrupt
<1>17. CASE Outside /\ Stray
  <2>1. PICK l \in Layers, call \in SingleCalls : delta' = [delta EXCEPT ![l] = Plus(@, call)]
    BY <1>17 DEF Stray
  <2>2. Plus(delta[l], call) \in [forward : Nat, native : Nat, fallback : Nat]
    <3>2. call \in [forward : Nat, native : Nat, fallback : Nat]
      BY ONLY call \in SingleCalls, SingleCallsFacts
    <3>3. delta[l] \in [forward : Nat, native : Nat, fallback : Nat]
      OBVIOUS
    <3>. QED BY ONLY <3>2, <3>3, PlusFacts
  <2>3. delta' \in [Layers -> [forward : Nat, native : Nat, fallback : Nat]]
    BY ONLY <2>1, <2>2, delta \in [Layers -> [forward : Nat, native : Nat, fallback : Nat]]
  <2>4. outside' \in Nat /\ place' = place /\ n' = n /\ verdict' = verdict
    BY <1>17 DEF Outside
  <2>5. UNCHANGED <<fp32, mode, module, current, results, source>>
    BY <1>17 DEF Stray, Outside
  <2>. QED BY <1>a, <2>3, <2>4, <2>5
<1>18. CASE Outside /\ Replace
  <2>1. PICK l \in Layers : module' = [module EXCEPT ![l] = Replaced[@]]
    BY <1>18 DEF Replace
  <2>2. Replaced[module[l]] \in {"original", "adapter", "covered", "other"}
    BY DEF Replaced
  <2>3. module' \in [Layers -> {"original", "adapter", "covered", "other"}]
    BY ONLY <2>1, <2>2, module \in [Layers -> {"original", "adapter", "covered", "other"}]
  <2>4. outside' \in Nat /\ place' = place /\ n' = n /\ verdict' = verdict
    BY <1>18 DEF Outside
  <2>5. UNCHANGED <<fp32, mode, delta, current, results, source>>
    BY <1>18 DEF Replace, Outside
  <2>. QED BY <1>a, <2>3, <2>4, <2>5
<1>19. CASE Outside /\ Commit
  BY <1>19, <1>a, <1>b, <1>c DEF Commit, Outside
<1>20. CASE UNCHANGED measurementVars
  BY <1>20, <1>a, <1>b, <1>c DEF measurementVars
<1>. QED BY <1>1, <1>2, <1>3, <1>4, <1>5, <1>6, <1>7, <1>8, <1>9, <1>10,
     <1>11, <1>12, <1>13, <1>14, <1>15, <1>16, <1>17, <1>18, <1>19, <1>20
  DEF MeasurementNext, Step, Outside


\* The flags stay flags.
LEMMA FlagsStep ==
  ASSUME MeasurementFlags, [MeasurementNext]_measurementVars
  PROVE  MeasurementFlags'
<1> USE DEF MeasurementFlags, Untouched, Elsewhere, cleanup, window, Advance, End, Raise,
            LoseModel,
            LeaveWindow, Fault
<1>1. CASE Load \/ Install \/ Overlooked \/ CheckInstallation
  BY <1>1 DEF Load, Install, Overlooked, CheckInstallation
<1>2. CASE Baseline
  <2>1. failed' \in BOOLEAN
    BY <1>2 DEF Baseline
  <2>. QED BY <1>2, <2>1 DEF Baseline
<1>3. CASE LeaveOut \/ SelectMode \/ Before
  BY <1>3 DEF LeaveOut, SelectMode, Before
<1>4. CASE Generate
  <2>1. disturbed' \in BOOLEAN
    BY <1>4 DEF Generate
  <2>. QED BY <1>4, <2>1 DEF Generate
<1>5. CASE Reconcile
  <2>1. tainted' \in BOOLEAN
    BY <1>5 DEF Reconcile
  <2>. QED BY <1>5, <2>1 DEF Reconcile
<1>6. CASE Compare
  BY <1>6 DEF Compare
<1>7. CASE Recheck \/ Close \/ CheckRestored \/ CheckSource
  BY <1>7 DEF Recheck, Close, CheckRestored, CheckSource
<1>8. CASE KeyboardInterrupt
  BY <1>8 DEF KeyboardInterrupt
<1>9. CASE Outside
  BY <1>9 DEF Outside, Stray, Replace, Commit
<1>10. CASE UNCHANGED measurementVars
  BY <1>10 DEF measurementVars
<1>. QED BY <1>1, <1>2, <1>3, <1>4, <1>5, <1>6, <1>7, <1>8, <1>9, <1>10 DEF MeasurementNext, Step
\* Every step knows who holds the model.
LEMMA InstalledStep ==
  ASSUME MeasurementTypes, Installed, [MeasurementNext]_measurementVars
  PROVE  Installed'
<1> USE DEF Untouched, Elsewhere, cleanup, Advance, End, Raise, LoseModel, Fault,
            MeasurementTypes, MeasurementPlaces, HoldingPlaces, GivenPlaces, Installed,
            GivenBack
<1>1. CASE Load
  <2>1. place' \in {"fp32", "install", "ended"} /\ ~lost'
    BY <1>1 DEF Load
  <2>2. place' # "ended" => verdict' = "none"
    BY <1>1 DEF Load
  <2>3. \A l \in Layers : module'[l] \in {"original", "other"}
    BY <1>1 DEF Load
  <2>. QED BY <2>1, <2>2, <2>3
<1>2. CASE Baseline
  <2>1. place' \in {"fp32", "install", "ended"} /\ ~lost'
    BY <1>2 DEF Baseline
  <2>2. place' # "ended" => verdict' = "none"
    BY <1>2 DEF Baseline
  <2>3. \A l \in Layers : module'[l] \in {"original", "other"}
    BY <1>2 DEF Baseline
  <2>. QED BY <2>1, <2>2, <2>3
<1>3. CASE Install
  <2>1. CASE End("rejected") /\ module' = module
    <3>1. place' = "ended" /\ ~lost' /\ \A l \in Layers : module'[l] \in {"original", "other"}
      BY <1>3, <2>1 DEF Install
    <3>. QED BY <3>1
  <2>2. CASE Advance("installed") /\ module' = [l \in Layers |-> "adapter"]
    BY <1>3, <2>2 DEF Install
  <2>. QED BY <1>3, <2>1, <2>2 DEF Install
<1>4. CASE Overlooked
  BY <1>4 DEF Overlooked
<1>5. CASE CheckInstallation
  BY <1>5 DEF CheckInstallation
<1>6. CASE LeaveOut
  BY <1>6 DEF LeaveOut, NextRun
<1>7. CASE SelectMode
  BY <1>7 DEF SelectMode
<1>8. CASE Before
  BY <1>8 DEF Before
<1>9. CASE Generate
  BY <1>9 DEF Generate
<1>10. CASE Reconcile
  BY <1>10 DEF Reconcile
<1>11. CASE Compare
  BY <1>11 DEF Compare, NextRun
<1>12. CASE Recheck
  BY <1>12 DEF Recheck
<1>13. CASE Close
  BY <1>13 DEF Close
<1>14. CASE CheckRestored
  BY <1>14 DEF CheckRestored
<1>15. CASE CheckSource
  BY <1>15 DEF CheckSource
<1>16. CASE KeyboardInterrupt
  BY <1>16 DEF KeyboardInterrupt
<1>17. CASE Outside /\ Stray
  BY <1>17 DEF Stray, Outside
<1>18. CASE Outside /\ Replace
  <2>1. PICK l \in Layers : module' = [module EXCEPT ![l] = Replaced[@]]
    BY <1>18 DEF Replace
  <2>2. /\ module[l] \in {"original", "other"} => Replaced[module[l]] \in {"original", "other"}
        /\ module[l] \in {"adapter", "covered"} => Replaced[module[l]] \in {"adapter", "covered"}
    BY DEF Replaced
  <2>3. place # "ended" /\ UNCHANGED <<place, lost, verdict>>
    BY <1>18 DEF Outside, Replace
  <2>. QED BY <2>1, <2>2, <2>3
<1>19. CASE Outside /\ Commit
  BY <1>19 DEF Commit, Outside
<1>20. CASE UNCHANGED measurementVars
  BY <1>20 DEF measurementVars
<1>. QED BY <1>1, <1>2, <1>3, <1>4, <1>5, <1>6, <1>7, <1>8, <1>9, <1>10,
     <1>11, <1>12, <1>13, <1>14, <1>15, <1>16, <1>17, <1>18, <1>19, <1>20
  DEF MeasurementNext, Step, Outside

\* Every step notes what fails.
LEMMA FailuresNotedStep ==
  ASSUME MeasurementTypes, FailuresNoted, [MeasurementNext]_measurementVars
  PROVE  FailuresNoted'
<1>a. runner' = runner /\ Plan' = Plan
  BY PlanStays
<1>b. Evaluation' = Evaluation
  BY <1>a DEF Evaluation
<1> USE DEF Untouched, Elsewhere, cleanup, Advance, End, Raise, LoseModel, Fault,
            MeasurementTypes, MeasurementPlaces, FailuresNoted
<1>1. CASE Load
  BY <1>1, <1>a, <1>b DEF Load
<1>2. CASE Baseline
  <2>1. CASE End("rejected") /\ Untouched
    BY <1>2, <1>a, <1>b, <2>1 DEF Baseline
  <2>2. CASE ~End("rejected")
    <3>1. PICK known \in {"none", "all", "generated", "failed"} :
            fp32' = [fp32 EXCEPT ![n] = known] /\ failed' = (failed \/ known # "all")
      BY <1>2, <2>2 DEF Baseline
    <3>2. /\ place' = "fp32" \/ (place' = "install" /\ n' = 1)
          /\ UNCHANGED <<results, raised>> /\ ~raised /\ Evaluation
      BY <1>2, <2>2 DEF Baseline
    <3>3. \A c \in Cases : fp32'[c] \in {"generated", "failed"} => failed'
      BY <3>1
    <3>. QED BY <1>a, <1>b, <3>1, <3>2, <3>3
  <2>. QED BY <1>2, <2>1, <2>2 DEF Baseline
<1>3. CASE Install
  BY <1>3, <1>a, <1>b DEF Install
<1>4. CASE Overlooked
  BY <1>4, <1>a, <1>b DEF Overlooked
<1>5. CASE CheckInstallation
  BY <1>5, <1>a, <1>b DEF CheckInstallation
<1>6. CASE LeaveOut
  BY <1>6, <1>a, <1>b DEF LeaveOut, NextRun
<1>7. CASE SelectMode
  BY <1>7, <1>a, <1>b DEF SelectMode
<1>8. CASE Before
  BY <1>8, <1>a, <1>b DEF Before
<1>9. CASE Generate
  <2>1. CASE Fault /\ LeaveWindow
    BY <1>9, <1>a, <1>b, <2>1 DEF Generate
  <2>2. CASE ~(Fault /\ LeaveWindow)
    <3>1. Advance("after")
      BY <2>2, <1>9, Generated
    <3>. QED BY <1>9, <1>a, <1>b, <3>1 DEF Generate
  <2>. QED BY <2>1, <2>2
<1>10. CASE Reconcile
  BY <1>10, <1>a, <1>b DEF Reconcile, Outputs
<1>11. CASE Compare
  BY <1>11, <1>a, <1>b DEF Compare, NextRun
<1>12. CASE Recheck
  BY <1>12, <1>a, <1>b DEF Recheck
<1>13. CASE Close
  BY <1>13, <1>a, <1>b DEF Close
<1>14. CASE CheckRestored
  BY <1>14, <1>a, <1>b DEF CheckRestored
<1>15. CASE CheckSource
  BY <1>15, <1>a, <1>b DEF CheckSource
<1>16. CASE KeyboardInterrupt
  BY <1>16, <1>a, <1>b DEF KeyboardInterrupt
<1>17. CASE Outside /\ Stray
  BY <1>17, <1>a, <1>b DEF Stray, Outside
<1>18. CASE Outside /\ Replace
  BY <1>18, <1>a, <1>b DEF Replace, Outside
<1>19. CASE Outside /\ Commit
  BY <1>19, <1>a, <1>b DEF Commit, Outside
<1>20. CASE UNCHANGED measurementVars
  BY <1>20, <1>a, <1>b DEF measurementVars
<1>. QED BY <1>1, <1>2, <1>3, <1>4, <1>5, <1>6, <1>7, <1>8, <1>9, <1>10,
     <1>11, <1>12, <1>13, <1>14, <1>15, <1>16, <1>17, <1>18, <1>19, <1>20
  DEF MeasurementNext, Step, Outside

\* What is left out has failed before.
LEMMA LeftOutFailed ==
  ASSUME MeasurementTypes, FailuresNoted, LeaveOut
  PROVE  failed
<1>1. n \in 1 .. Len(Plan) /\ Plan[n].case \in Cases /\ LeftOut
  BY PlanFacts DEF MeasurementTypes, LeaveOut
<1>2. CASE fp32[Plan[n].case] = "failed"
  BY <1>1, <1>2 DEF FailuresNoted
<1>3. CASE Plan[n].kind = "force" /\ results[n - 1] = "failed"
  <2>1. n # 1
    BY <1>3, PlanFacts DEF MeasurementTypes
  <2>2. n - 1 \in 1 .. Len(Plan)
    BY <1>1, <2>1, PlanFacts DEF MeasurementTypes
  <2>. QED BY <1>3, <2>2 DEF FailuresNoted
<1>. QED BY <1>1, <1>2, <1>3 DEF LeftOut

\* Every step keeps the mode of the generations to come.
LEMMA InModeStep ==
  ASSUME MeasurementTypes, FailuresNoted, InMode, [MeasurementNext]_measurementVars
  PROVE  InMode'
<1>a. runner' = runner /\ Plan' = Plan
  BY PlanStays
<1>b. Len(Plan) \in Nat \ {0}
  BY PlanFacts DEF MeasurementTypes
<1> USE DEF Untouched, Elsewhere, cleanup, Advance, End, Raise, LoseModel, Fault,
            MeasurementTypes, MeasurementPlaces, Sound, InMode
<1>1. CASE Load
  BY <1>1, <1>a, <1>b DEF Load
<1>2. CASE Baseline
  <2>. place' \in {"fp32", "install", "ended"}
    BY <1>2 DEF Baseline
  <2>. QED OBVIOUS
<1>3. CASE Install
  BY <1>3, <1>a, <1>b DEF Install
<1>4. CASE Overlooked
  BY <1>4, <1>a, <1>b DEF Overlooked
<1>5. CASE CheckInstallation
  BY <1>5, <1>a, <1>b DEF CheckInstallation, FailuresNoted
<1>6. CASE LeaveOut
  <2>1. failed /\ failed' = failed
    BY <1>6, LeftOutFailed DEF LeaveOut
  <2>. QED BY <2>1
<1>7. CASE SelectMode
  BY <1>7, <1>a, <1>b DEF SelectMode
<1>8. CASE Before
  BY <1>8, <1>a, <1>b DEF Before
<1>9. CASE Generate
  <2>1. CASE Fault /\ LeaveWindow
    BY <1>9, <1>a, <1>b, <2>1 DEF Generate
  <2>2. CASE ~(Fault /\ LeaveWindow)
    <3>1. Advance("after")
      BY <2>2, <1>9, Generated
    <3>. QED BY <1>9, <1>a, <1>b, <3>1 DEF Generate
  <2>. QED BY <2>1, <2>2
<1>10. CASE Reconcile
  BY <1>10, <1>a, <1>b DEF Reconcile
<1>11. CASE Compare
  BY <1>11, <1>a, <1>b DEF Compare, NextRun
<1>12. CASE Recheck
  BY <1>12, <1>a, <1>b DEF Recheck
<1>13. CASE Close
  BY <1>13, <1>a, <1>b DEF Close
<1>14. CASE CheckRestored
  BY <1>14, <1>a, <1>b DEF CheckRestored
<1>15. CASE CheckSource
  BY <1>15, <1>a, <1>b DEF CheckSource
<1>16. CASE KeyboardInterrupt
  BY <1>16, <1>a, <1>b DEF KeyboardInterrupt
<1>17. CASE Outside /\ Stray
  BY <1>17, <1>a, <1>b DEF Stray, Outside
<1>18. CASE Outside /\ Replace
  BY <1>18, <1>a, <1>b DEF Replace, Outside
<1>19. CASE Outside /\ Commit
  BY <1>19, <1>a, <1>b DEF Commit, Outside
<1>20. CASE UNCHANGED measurementVars
  BY <1>20, <1>a, <1>b DEF measurementVars
<1>. QED BY <1>1, <1>2, <1>3, <1>4, <1>5, <1>6, <1>7, <1>8, <1>9, <1>10,
     <1>11, <1>12, <1>13, <1>14, <1>15, <1>16, <1>17, <1>18, <1>19, <1>20
  DEF MeasurementNext, Step, Outside

\* Every step keeps disturbed generations out.
LEMMA UntaintedStep ==
  ASSUME MeasurementTypes, Installed, FailuresNoted, Windowed, Untainted,
         [MeasurementNext]_measurementVars
  PROVE  Untainted'
<1>a. runner' = runner /\ Plan' = Plan
  BY PlanStays
<1>b. Len(Plan) \in Nat \ {0}
  BY PlanFacts DEF MeasurementTypes
<1> USE DEF Untouched, Elsewhere, cleanup, Advance, End, Raise, LoseModel, Fault,
            MeasurementTypes, MeasurementPlaces, HoldingPlaces, GivenPlaces, Sound, Uncovered,
            Clear, Untainted
<1>1. CASE Load
  BY <1>1, <1>a, <1>b DEF Load
<1>2. CASE Baseline
  <2>. place' \in {"fp32", "install", "ended"} /\ ~tainted'
    BY <1>2 DEF Baseline
  <2>. QED OBVIOUS
<1>3. CASE Install
  BY <1>3, <1>a, <1>b DEF Install
<1>4. CASE Overlooked
  BY <1>4, <1>a, <1>b DEF Overlooked
<1>5. CASE CheckInstallation
  BY <1>5, <1>a, <1>b DEF CheckInstallation
<1>6. CASE LeaveOut
  <2>1. failed /\ failed' = failed
    BY <1>6, LeftOutFailed DEF LeaveOut
  <2>2. place' \in {"turn", "recheck", "close"}
    BY <1>6 DEF LeaveOut, NextRun
  <2>. QED BY <2>1, <2>2
<1>7. CASE SelectMode
  BY <1>7, <1>a, <1>b DEF SelectMode
<1>8. CASE Before
  BY <1>8, <1>a, <1>b DEF Before
<1>9. CASE Generate
  <2>1. CASE Fault /\ LeaveWindow
    BY <1>9, <1>a, <1>b, <2>1 DEF Generate
  <2>2. CASE ~(Fault /\ LeaveWindow)
    <3>1. Advance("after")
      BY <2>2, <1>9, Generated
    <3>. QED BY <1>9, <1>a, <1>b, <3>1 DEF Generate
  <2>. QED BY <2>1, <2>2
<1>10. CASE Reconcile
  <2>1. place' \in {"compare", "close"} /\ UNCHANGED <<module, outside>>
    BY <1>10 DEF Reconcile
  <2>2. ASSUME Sound', Clear', tainted'
        PROVE  FALSE
    <3>1. Sound /\ Clear /\ place = "after"
      BY <1>10, <2>1, <2>2 DEF Reconcile
    <3>2. Reconciles /\ disturbed
      BY <1>10, <2>2, <3>1 DEF Reconcile
    <3>3. PICK path \in {Reference, Hybrid}, tokens \in {1, 2} :
            path = Plan[n].path /\ tokens = Tokens(current)
      BY <3>1, PlanFacts, TokensFacts DEF Windowed
    <3>4. PICK l \in Layers :
            delta[l].forward # tokens \/ delta[l].native < Calls(path, tokens).native
      BY <3>1, <3>2, <3>3 DEF Windowed
    <3>5. delta[l] = Calls(path, tokens)
      BY <3>2, <3>3 DEF Reconciles
    <3>6. Calls(path, tokens).forward = tokens /\ Calls(path, tokens).native \in Nat
      BY CallsFacts
    <3>. QED BY <3>4, <3>5, <3>6
  <2>. QED BY <2>1, <2>2
<1>11. CASE Compare
  BY <1>11, <1>a, <1>b DEF Compare, NextRun
<1>12. CASE Recheck
  BY <1>12, <1>a, <1>b DEF Recheck
<1>13. CASE Close
  <2>1. CASE place' = "restored"
    <3>1. Uncovered /\ outside' = outside /\ tainted' = tainted /\ (Sound' => Sound)
      BY <1>13, <2>1 DEF Close, Installed
    <3>. QED BY <1>13, <2>1, <3>1 DEF Close
  <2>. QED BY <1>13, <2>1 DEF Close
<1>14. CASE CheckRestored
  BY <1>14, <1>a, <1>b DEF CheckRestored
<1>15. CASE CheckSource
  BY <1>15, <1>a, <1>b DEF CheckSource
<1>16. CASE KeyboardInterrupt
  BY <1>16, <1>a, <1>b DEF KeyboardInterrupt
<1>17. CASE Outside /\ Stray
  BY <1>17, <1>a, <1>b DEF Stray, Outside
<1>18. CASE Outside /\ Replace
  BY <1>18, <1>a, <1>b DEF Replace, Outside
<1>19. CASE Outside /\ Commit
  BY <1>19, <1>a, <1>b DEF Commit, Outside
<1>20. CASE UNCHANGED measurementVars
  BY <1>20, <1>a, <1>b DEF measurementVars
<1>. QED BY <1>1, <1>2, <1>3, <1>4, <1>5, <1>6, <1>7, <1>8, <1>9, <1>10,
     <1>11, <1>12, <1>13, <1>14, <1>15, <1>16, <1>17, <1>18, <1>19, <1>20
  DEF MeasurementNext, Step, Outside

\* Every step keeps what the window says.
LEMMA WindowedStep ==
  ASSUME MeasurementTypes, Installed, InMode, Windowed, [MeasurementNext]_measurementVars
  PROVE  Windowed'
<1>a. runner' = runner /\ Plan' = Plan
  BY PlanStays
<1>b. Len(Plan) \in Nat \ {0}
  BY PlanFacts DEF MeasurementTypes
<1> USE DEF Untouched, Elsewhere, cleanup, Advance, End, Raise, LoseModel, Fault, window,
            LeaveWindow, MeasurementTypes, MeasurementPlaces, HoldingPlaces, Sound, Uncovered,
            Clear, Windowed
<1>1. CASE Load
  BY <1>1, <1>a, <1>b DEF Load
<1>2. CASE Baseline
  <2>. place' \in {"fp32", "install", "ended"} /\ delta' = Zero /\ ~disturbed'
    BY <1>2 DEF Baseline
  <2>. QED OBVIOUS
<1>3. CASE Install
  BY <1>3, <1>a, <1>b DEF Install
<1>4. CASE Overlooked
  BY <1>4, <1>a, <1>b DEF Overlooked
<1>5. CASE CheckInstallation
  BY <1>5, <1>a, <1>b DEF CheckInstallation
<1>6. CASE LeaveOut
  BY <1>6, <1>a, <1>b DEF LeaveOut, NextRun
<1>7. CASE SelectMode
  BY <1>7, <1>a, <1>b DEF SelectMode
<1>8. CASE Before
  <2>1. \A l \in Layers : delta[l].native <= delta[l].forward
    BY <1>8 DEF Before, Zero
  <2>. QED BY <1>8, <2>1 DEF Before
<1>9. CASE Generate
  <2>1. CASE Fault /\ LeaveWindow
    BY <1>9, <1>a, <1>b, <2>1 DEF Generate
  <2>2. CASE ~(Fault /\ LeaveWindow)
    <3>1. PICK output \in Outputs, without \in {{}} \cup {{l} : l \in Layers} :
            /\ without # {} => mode = Hybrid /\ Tokens(output) = 2
            /\ current' = output
            /\ delta' = [l \in Layers |->
                 IF module[l] # "adapter" THEN delta[l]
                 ELSE Plus(delta[l],
                           Calls(IF l \in without THEN Reference ELSE mode, Tokens(output)))]
            /\ disturbed' = (disturbed \/ without # {} \/ mode # Plan[n].path
                              \/ \E l \in Layers : module[l] # "adapter")
            /\ Advance("after")
      BY ONLY <1>9, <2>2, Generated
    <3>2. /\ place = "run" /\ place' = "after" /\ current' \in Outputs
          /\ UNCHANGED <<n, failed, raised, module, outside>>
      BY <1>9, <3>1 DEF Generate
    <3>3. PICK path \in {Reference, Hybrid} : path = Plan[n].path
      BY <3>2, PlanFacts
    <3>4. PICK tokens \in {1, 2} : tokens = Tokens(output)
      BY TokensFacts
    <3>5. ASSUME Sound', Uncovered'
          PROVE  /\ \A l \in Layers : delta'[l].forward >= tokens
                 /\ disturbed' => \E l \in Layers :
                      \/ delta'[l].forward > tokens
                      \/ delta'[l].native < Calls(path, tokens).native
      <4>1. Sound /\ Uncovered /\ mode = path
        BY <3>2, <3>3, <3>5 DEF InMode
      <4>2. ASSUME NEW l \in Layers
            PROVE  /\ delta'[l].forward = delta[l].forward + tokens
                   /\ l \in without => delta'[l].native = delta[l].native
        <5>1. PICK way \in {Reference, Hybrid} : way = IF l \in without THEN Reference ELSE path
          OBVIOUS
        <5>2. delta'[l] = Plus(delta[l], Calls(way, tokens))
          BY <3>1, <3>4, <4>1, <5>1
        <5>3. delta[l] \in [forward : Nat, native : Nat, fallback : Nat]
          OBVIOUS
        <5>4. /\ Calls(way, tokens) \in [forward : Nat, native : Nat, fallback : Nat]
              /\ Calls(way, tokens).forward = tokens
              /\ Calls(way, tokens).native = IF way = Hybrid THEN tokens - 1 ELSE 0
          BY CallsFacts
        <5>5. /\ Plus(delta[l], Calls(way, tokens)).forward = delta[l].forward + tokens
              /\ Plus(delta[l], Calls(way, tokens)).native
                   = delta[l].native + Calls(way, tokens).native
          BY <5>3, <5>4, PlusFacts
        <5>. QED BY <5>1, <5>2, <5>4, <5>5 DEF Reference, Hybrid
      <4>3. \A l \in Layers : delta[l].forward \in Nat
        OBVIOUS
      <4>4. CASE without # {}
        <5>1. PICK l \in Layers : l \in without
          BY <4>4
        <5>2. path = Hybrid /\ tokens = 2
          BY <3>1, <3>4, <4>1, <4>4
        <5>3. Calls(path, tokens).native = 1
          BY ONLY <5>2, CallsFacts
        <5>4. delta'[l].forward > tokens \/ delta'[l].native < Calls(path, tokens).native
          <6>1. /\ delta[l].native <= delta[l].forward
                /\ delta[l] \in [forward : Nat, native : Nat, fallback : Nat]
            BY <3>2
          <6>2. delta[l].forward \in Nat /\ delta[l].native \in Nat
            BY ONLY <6>1
          <6>. QED BY ONLY <4>2, <5>1, <5>3, <6>1, <6>2, tokens \in {1, 2}
        <5>5. \A k \in Layers : delta'[k].forward >= tokens
          BY ONLY <4>2, <4>3, tokens \in {1, 2}
        <5>. QED BY ONLY <5>4, <5>5
      <4>5. CASE without = {}
        <5>1. disturbed' => disturbed
          BY <3>1, <3>3, <4>1, <4>5
        <5>2. disturbed => \E l \in Layers : delta[l].forward > 0
          BY <3>2
        <5>3. \A k \in Layers : delta'[k].forward >= tokens
          BY ONLY <4>2, <4>3, tokens \in {1, 2}
        <5>4. \A k \in Layers : delta[k].forward > 0 => delta'[k].forward > tokens
          BY ONLY <4>2, <4>3, tokens \in {1, 2}
        <5>. QED BY ONLY <5>1, <5>2, <5>3, <5>4
      <4>. QED BY <4>4, <4>5
    <3>6. Tokens(current)' = tokens /\ Calls(Plan[n].path, Tokens(current))' = Calls(path, tokens)
      BY <1>a, <3>1, <3>2, <3>3, <3>4 DEF Tokens, Calls
    <3>7. ASSUME ~Uncovered, outside <= 1
          PROVE  \E l \in Layers : delta'[l].forward # tokens
      <4>1. delta = Zero
        BY <3>2, <3>7
      <4>2. PICK l \in Layers : module[l] # "adapter"
        BY <3>7
      <4>3. delta'[l].forward = 0
        BY <3>1, <4>1, <4>2 DEF Zero
      <4>. QED BY ONLY <4>3, tokens \in {1, 2}
    <3>8. Uncovered' <=> Uncovered
      BY <3>2
    <3>9. place = "run" /\ outside = 0 => Uncovered
      OBVIOUS
    <3>10. \A l \in Layers : delta'[l].forward > tokens => delta'[l].forward # tokens
      BY ONLY tokens \in {1, 2}
    <3>11. ASSUME Sound', outside' <= 1, Uncovered', NEW l \in Layers
           PROVE  delta'[l].forward >= Tokens(current)'
      BY ONLY <3>5, <3>6, <3>11
    <3>12. ASSUME Sound', Clear', disturbed'
           PROVE  \E l \in Layers :
                    \/ delta'[l].forward # Tokens(current)'
                    \/ delta'[l].native < Calls(Plan[n].path, Tokens(current))'.native
      <4>1. CASE Uncovered
        BY ONLY <3>5, <3>6, <3>8, <3>10, <3>12, <4>1
      <4>2. CASE ~Uncovered
        <5>1. outside <= 1
          BY <3>2, <3>8, <3>12, <4>2
        <5>. QED BY ONLY <3>6, <3>7, <4>2, <5>1
      <4>. QED BY <4>1, <4>2
    <3>. QED BY <3>2, <3>8, <3>9, <3>11, <3>12
  <2>. QED BY <2>1, <2>2
<1>10. CASE Reconcile
  BY <1>10, <1>a, <1>b DEF Reconcile
<1>11. CASE Compare
  BY <1>11, <1>a, <1>b DEF Compare, NextRun
<1>12. CASE Recheck
  BY <1>12, <1>a, <1>b DEF Recheck
<1>13. CASE Close
  BY <1>13, <1>a, <1>b DEF Close
<1>14. CASE CheckRestored
  BY <1>14, <1>a, <1>b DEF CheckRestored
<1>15. CASE CheckSource
  BY <1>15, <1>a, <1>b DEF CheckSource
<1>16. CASE KeyboardInterrupt
  BY <1>16, <1>a, <1>b DEF KeyboardInterrupt
<1>17. CASE Outside /\ Stray
  <2>1. PICK s \in Layers, call \in SingleCalls : delta' = [delta EXCEPT ![s] = Plus(@, call)]
    BY <1>17 DEF Stray
  <2>2. /\ place \in {"run", "after"} /\ disturbed'
        /\ UNCHANGED <<n, place, mode, module, current, failed, raised>>
        /\ outside' = outside + 1 /\ outside \in Nat
        /\ outside = 0 => Uncovered
    BY <1>17 DEF Stray, Outside
  <2>3. /\ call \in [forward : Nat, native : Nat, fallback : Nat]
        /\ call.forward = 1 /\ call.native \in {0, 1}
    BY ONLY call \in SingleCalls, SingleCallsFacts
  <2>4. /\ delta'[s].forward = delta[s].forward + 1
        /\ delta'[s].native = delta[s].native + call.native
        /\ \A l \in Layers \ {s} : delta'[l] = delta[l]
    BY <2>1, <2>3, PlusFacts
  <2>5. \A l \in Layers : delta[l].forward \in Nat
    OBVIOUS
  <2>6. CASE place = "run"
    <3>1. place' = "run" /\ outside' # 0 /\ ~(outside' = 1 /\ ~Uncovered')
      BY <2>2, <2>6
    <3>2. \A l \in Layers : delta'[l].native <= delta'[l].forward
      <4>1. \A l \in Layers : delta[l].native <= delta[l].forward /\ delta[l].native \in Nat
        BY <2>6
      <4>. QED BY ONLY <2>3, <2>4, <2>5, <4>1
    <3>3. \E l \in Layers : delta'[l].forward > 0
      BY ONLY <2>4, <2>5, s \in Layers
    <3>. QED BY ONLY <3>1, <3>2, <3>3 DEF Windowed, Uncovered
  <2>7. CASE place = "after"
    <3>0. current \in Outputs
      BY <2>7
    <3>1. PICK tokens \in {1, 2} : tokens = Tokens(current)
      BY ONLY <3>0, TokensFacts
    <3>2. Tokens(current)' = tokens
      BY <2>2, <3>1 DEF Tokens
    <3>3. ASSUME Sound', Clear'
          PROVE  /\ Uncovered' /\ \A l \in Layers : delta'[l].forward >= tokens
                 /\ delta'[s].forward > tokens
      <4>1. Uncovered /\ Uncovered' /\ outside <= 1 /\ Sound
        BY <2>2, <3>3
      <4>2. \A l \in Layers : delta[l].forward >= tokens
        BY <2>7, <3>1, <4>1
      <4>. QED BY ONLY <2>4, <2>5, <4>1, <4>2, tokens \in {1, 2}
    <3>4. place' = "after" /\ current' \in Outputs
      BY <2>2, <2>7
    <3>5. delta'[s].forward > tokens => delta'[s].forward # tokens
      BY ONLY tokens \in {1, 2}
    <3>6. Clear' <=> outside' <= 1 \/ (outside' = 2 /\ Uncovered')
      OBVIOUS
    <3>7. ASSUME Sound', outside' <= 1, Uncovered', NEW l \in Layers
          PROVE  delta'[l].forward >= Tokens(current)'
      BY ONLY <3>2, <3>3, <3>6, <3>7
    <3>8. ASSUME Sound', Clear'
          PROVE  \E l \in Layers :
                   \/ delta'[l].forward # Tokens(current)'
                   \/ delta'[l].native < Calls(Plan[n].path, Tokens(current))'.native
      BY ONLY <3>2, <3>3, <3>5, <3>8, s \in Layers
    <3>9. outside' # 0 /\ place' = "after" /\ current' \in Outputs
      BY <2>2, <3>4
    <3>. QED BY ONLY <3>7, <3>8, <3>9 DEF Windowed
  <2>. QED BY <2>2, <2>6, <2>7
<1>18. CASE Outside /\ Replace
  BY <1>18, <1>a, <1>b DEF Replace, Outside
<1>19. CASE Outside /\ Commit
  BY <1>19, <1>a, <1>b DEF Commit, Outside
<1>20. CASE UNCHANGED measurementVars
  BY <1>20, <1>a, <1>b DEF measurementVars
<1>. QED BY <1>1, <1>2, <1>3, <1>4, <1>5, <1>6, <1>7, <1>8, <1>9, <1>10,
     <1>11, <1>12, <1>13, <1>14, <1>15, <1>16, <1>17, <1>18, <1>19, <1>20
  DEF MeasurementNext, Step, Outside

\* The comparisons are of earlier generations, so that they hold as long as the results do.
LEMMA ResultsKept ==
  ASSUME MeasurementTypes, [MeasurementNext]_measurementVars, NEW m \in Nat,
         \A k \in 1 .. m : results'[k] = results[k]
  PROVE  (Have(m) => Have(m)') /\ (Compared(m) => Compared(m)')
<1>1. runner' = runner /\ Plan' = Plan /\ \A a, b : MustAgree(a, b)' = MustAgree(a, b)
  BY PlanStays
<1>2. ASSUME NEW k \in 1 .. m
      PROVE  DueAt(k)' = DueAt(k) /\ \A pair \in DueAt(k) : pair[1] \in 1 .. k /\ pair[2] \in 1 .. k
  <2>1. DueAt(k)' = DueAt(k)
    BY <1>1 DEF DueAt
  <2>2. DueAt(k) \subseteq (1 .. k) \X (1 .. k)
    BY DEF DueAt
  <2>. QED BY <2>1, <2>2
<1>3. ASSUME NEW k \in 1 .. m, NEW pair \in DueAt(k)
      PROVE  Agree(pair[1], pair[2])' = Agree(pair[1], pair[2])
  <2>1. pair[1] \in 1 .. m /\ pair[2] \in 1 .. m
    BY <1>2
  <2>. QED BY <2>1 DEF Agree
<1>4. ASSUME Compared(m)
      PROVE  Compared(m)'
  <2>1. ASSUME NEW k \in 1 .. m, NEW pair \in DueAt(k)', MustAgree(pair[1], pair[2])'
        PROVE  Agree(pair[1], pair[2])'
    <3>1. pair \in DueAt(k) /\ MustAgree(pair[1], pair[2])
      BY <1>1, <1>2, <2>1
    <3>. QED BY <1>3, <1>4, <3>1 DEF Compared
  <2>. QED BY <2>1 DEF Compared
<1>. QED BY <1>4 DEF Have

\* Every step keeps the results, and compares those that are due.
LEMMA KeptStep ==
  ASSUME MeasurementTypes, FailuresNoted, Windowed, Kept, [MeasurementNext]_measurementVars
  PROVE  Kept'
<1>a. runner' = runner /\ Plan' = Plan
  BY PlanStays
<1>b. Len(Plan) \in Nat \ {0}
  BY PlanFacts DEF MeasurementTypes
<1>c. ASSUME NEW m \in Nat, results' = results
      PROVE  /\ n = m /\ Have(n) => Have(m)'
             /\ n = m /\ Compared(n) => Compared(m)'
             /\ n - 1 = m /\ Have(n - 1) => Have(m)'
             /\ n - 1 = m /\ Compared(n - 1) => Compared(m)'
             /\ Len(Plan) = m /\ Have(Len(Plan)) => Have(m)'
             /\ Len(Plan) = m /\ Compared(Len(Plan)) => Compared(m)'
  <2>1. (Have(m) => Have(m)') /\ (Compared(m) => Compared(m)')
    BY <1>c, ResultsKept
  <2>2. /\ n = m /\ Have(n) => Have(m)
        /\ n - 1 = m /\ Have(n - 1) => Have(m)
        /\ Len(Plan) = m /\ Have(Len(Plan)) => Have(m)
    BY DEF Have
  <2>3. /\ n = m /\ Compared(n) => Compared(m)
        /\ n - 1 = m /\ Compared(n - 1) => Compared(m)
        /\ Len(Plan) = m /\ Compared(Len(Plan)) => Compared(m)
    BY DEF Compared
  <2>. QED BY <2>1, <2>2, <2>3
<1>d. ASSUME NEW m \in Nat
      PROVE  /\ n' = m /\ Have(m)' => Have(n)'
             /\ n' = m /\ Compared(m)' => Compared(n)'
             /\ n' - 1 = m /\ Have(m)' => Have(n - 1)'
             /\ n' - 1 = m /\ Compared(m)' => Compared(n - 1)'
             /\ Len(Plan') = m /\ Have(m)' => Have(Len(Plan))'
             /\ Len(Plan') = m /\ Compared(m)' => Compared(Len(Plan))'
  <2>1. /\ n' = m /\ Have(m)' => Have(n)'
        /\ n' - 1 = m /\ Have(m)' => Have(n - 1)'
        /\ Len(Plan') = m /\ Have(m)' => Have(Len(Plan))'
    BY DEF Have
  <2>2. /\ n' = m /\ Compared(m)' => Compared(n)'
        /\ n' - 1 = m /\ Compared(m)' => Compared(n - 1)'
        /\ Len(Plan') = m /\ Compared(m)' => Compared(Len(Plan))'
    BY DEF Compared
  <2>. QED BY <2>1, <2>2
<1>e. /\ results' = results /\ n' = n =>
         /\ (Have(n) => Have(n)')
         /\ (Have(n - 1) => Have(n - 1)') /\ (Compared(n - 1) => Compared(n - 1)')
      /\ results' = results =>
         /\ (Have(Len(Plan)) => Have(Len(Plan))') /\ (Compared(Len(Plan)) => Compared(Len(Plan))')
  <2>1. n \in Nat /\ n - 1 \in Nat /\ Len(Plan) \in Nat /\ Plan' = Plan
    BY <1>a, <1>b DEF MeasurementTypes
  <2>. QED BY <1>c, <1>d, <2>1
<1> USE DEF Untouched, Elsewhere, cleanup, Advance, End, Raise, LoseModel, Fault,
            MeasurementTypes, MeasurementPlaces, Sound, Kept
<1>1. CASE Load
  BY <1>1, <1>b, <1>e DEF Load
<1>2. CASE Baseline
  <2>. place' \in {"fp32", "install", "ended"}
    BY <1>2 DEF Baseline
  <2>. QED OBVIOUS
<1>3. CASE Install
  BY <1>3, <1>b, <1>e DEF Install
<1>4. CASE Overlooked
  BY <1>4, <1>b, <1>e DEF Overlooked
<1>5. CASE CheckInstallation
  <2>1. n = 1 /\ n' = n /\ place' \in {"turn", "close"} /\ (place' = "close" => raised')
    BY <1>5 DEF CheckInstallation, FailuresNoted
  <2>2. Have(0)' /\ Compared(0)'
    BY DEF Have, Compared
  <2>. QED BY <2>1, <2>2
<1>6. CASE LeaveOut
  <2>1. failed /\ failed' = failed
    BY <1>6, LeftOutFailed DEF LeaveOut
  <2>. QED BY <2>1
<1>7. CASE SelectMode
  BY <1>7, <1>b, <1>e DEF SelectMode
<1>8. CASE Before
  BY <1>8, <1>b, <1>e DEF Before
<1>9. CASE Generate
  <2>1. CASE Fault /\ LeaveWindow
    BY <1>9, <1>b, <2>1 DEF Generate
  <2>2. CASE ~(Fault /\ LeaveWindow)
    <3>1. Advance("after")
      BY <2>2, <1>9, Generated
    <3>. QED BY <1>9, <1>b, <1>e, <3>1 DEF Generate
  <2>. QED BY <2>1, <2>2
<1>10. CASE Reconcile
  <2>1. CASE Fault
    BY <1>10, <1>b, <2>1 DEF Reconcile
  <2>2. CASE ~Fault
    <3>1. /\ results' = [results EXCEPT ![n] = current] /\ place = "after" /\ place' = "compare"
          /\ UNCHANGED <<n, failed, raised>>
      BY <1>10, <2>2 DEF Reconcile
    <3>2. current \in Outputs
      BY <3>1 DEF Windowed
    <3>3. n \in 1 .. Len(Plan) /\ n - 1 \in Nat
      BY <1>b, <3>1
    <3>4. \A k \in 1 .. n - 1 : results'[k] = results[k]
      BY <1>b, <3>1, <3>3
    <3>5. ASSUME Sound'
          PROVE  Have(n)' /\ Compared(n - 1)'
      <4>1. Have(n - 1) /\ Compared(n - 1)
        BY <3>1, <3>5
      <4>2. Have(n - 1)' /\ Compared(n - 1)'
        BY <3>1, <3>3, <3>4, <4>1, ResultsKept
      <4>. QED BY <3>1, <3>2, <3>3, <4>1, <4>2 DEF Have
    <3>. QED BY <3>1, <3>5
  <2>. QED BY <2>1, <2>2
<1>11. CASE Compare
  <2>1. /\ place = "compare" /\ results' = results
        /\ Sound' => /\ Sound /\ NextRun
                    /\ \A pair \in Due : MustAgree(pair[1], pair[2]) => Agree(pair[1], pair[2])
    BY <1>11  DEF Compare
  <2>2. Due = DueAt(n)
    BY DEF Due, DueAt
  <2>3. ASSUME Sound'
        PROVE  NextRun /\ Have(n) /\ Compared(n)
    <3>1. Have(n) /\ Compared(n - 1)
      BY <2>1, <2>3
    <3>2. \A k \in 1 .. n : k = n \/ k \in 1 .. n - 1
      OBVIOUS
    <3>3. Compared(n)
      BY <2>1, <2>2, <2>3, <3>1, <3>2 DEF Compared
    <3>. QED BY <2>1, <2>3, <3>1, <3>3
  <2>4. CASE n = Len(Plan)
    <3>1. NextRun => place' \in {"recheck", "close"}
      BY <2>4 DEF NextRun
    <3>2. Sound' => /\ place' \in {"recheck", "close"}
                    /\ Have(Len(Plan))' /\ Compared(Len(Plan))'
      BY <1>e, <2>1, <2>3, <2>4, <3>1
    <3>. QED BY <3>2
  <2>5. CASE n # Len(Plan)
    <3>1. NextRun => place' = "turn" /\ n' = n + 1
      BY <2>5 DEF NextRun
    <3>2. NextRun => place' = "turn" /\ n' - 1 = n
      BY <3>1
    <3>3. Sound' => place' = "turn" /\ Have(n - 1)' /\ Compared(n - 1)'
      BY <1>c, <1>d, <2>1, <2>3, <3>2
    <3>. QED BY <3>3
  <2>. QED BY <2>4, <2>5
<1>12. CASE Recheck
  BY <1>12, <1>b, <1>e DEF Recheck
<1>13. CASE Close
  BY <1>13, <1>b, <1>e DEF Close
<1>14. CASE CheckRestored
  BY <1>14, <1>b, <1>e DEF CheckRestored
<1>15. CASE CheckSource
  BY <1>15, <1>b, <1>e DEF CheckSource
<1>16. CASE KeyboardInterrupt
  BY <1>16, <1>b, <1>e DEF KeyboardInterrupt
<1>17. CASE Outside /\ Stray
  BY <1>17, <1>b, <1>e DEF Stray, Outside
<1>18. CASE Outside /\ Replace
  BY <1>18, <1>b, <1>e DEF Replace, Outside
<1>19. CASE Outside /\ Commit
  BY <1>19, <1>b, <1>e DEF Commit, Outside
<1>20. CASE UNCHANGED measurementVars
  BY <1>20, <1>b, <1>e DEF measurementVars
<1>. QED BY <1>1, <1>2, <1>3, <1>4, <1>5, <1>6, <1>7, <1>8, <1>9, <1>10,
     <1>11, <1>12, <1>13, <1>14, <1>15, <1>16, <1>17, <1>18, <1>19, <1>20
  DEF MeasurementNext, Step, Outside

\* What the documents accepted rest on: all has been done, and nothing has failed.
LEMMA CompleteStep ==
  ASSUME MeasurementTypes, Installed, FailuresNoted, Kept, Untainted, AcceptedComplete,
         [MeasurementNext]_measurementVars
  PROVE  AcceptedComplete'
<1>a. /\ runner' = runner /\ parity' = parity /\ Plan' = Plan
      /\ \A a, b : MustAgree(a, b)' = MustAgree(a, b)
  BY PlanStays
<1>b. Len(Plan) \in Nat \ {0} /\ DOMAIN Plan = 1 .. Len(Plan)
  BY PlanFacts DEF MeasurementTypes
<1>1. CASE verdict' # "accepted"
  BY <1>1 DEF AcceptedComplete
<1>2. CASE verdict = "accepted"
  <2>1. place = "ended"
    BY <1>2 DEF Installed
  <2>2. UNCHANGED measurementVars
    BY <2>1 DEF MeasurementNext, Step, Outside, Load, Baseline, Install, Overlooked,
       CheckInstallation, LeaveOut, SelectMode, Before, Generate, Reconcile, Compare, Recheck,
       Close, CheckRestored, CheckSource, KeyboardInterrupt
  <2>3. UNCHANGED <<verdict, failed, tainted, results, outside>>
    BY <2>2 DEF measurementVars, cleanup
  <2>. QED BY <1>a, <2>3 DEF AcceptedComplete, Agree
<1>3. CASE verdict # "accepted" /\ verdict' = "accepted"
  <2>1. CheckRestored \/ CheckSource
    <3> USE <1>3 DEF cleanup, Advance, End, Raise, LoseModel, Fault, NextRun
    <3>1. ASSUME Load \/ Baseline \/ Install \/ Overlooked \/ CheckInstallation
                  \/ LeaveOut \/ SelectMode
          PROVE  FALSE
      BY <3>1 DEF Load, Baseline, Install, Overlooked, CheckInstallation, LeaveOut, SelectMode
    <3>2. ASSUME Before \/ Reconcile \/ Compare \/ Recheck \/ Close \/ KeyboardInterrupt
          PROVE  FALSE
      BY <3>2 DEF Before, Reconcile, Compare, Recheck, Close, KeyboardInterrupt
    <3>3. ASSUME Generate
          PROVE  FALSE
      BY <3>3 DEF Generate
    <3>4. ASSUME Outside \/ UNCHANGED measurementVars
          PROVE  FALSE
      BY <3>4 DEF Outside, measurementVars
    <3>. QED BY <3>1, <3>2, <3>3, <3>4 DEF MeasurementNext, Step
  <2>2. /\ Sound /\ place \in GivenPlaces
        /\ UNCHANGED <<failed, tainted, results, outside>>
    <3>1. CASE CheckRestored
      BY <1>3, <3>1 DEF CheckRestored, GivenPlaces, FailuresNoted, Sound, End, Advance,
         Untouched, cleanup, Elsewhere
    <3>2. CASE CheckSource
      BY <1>3, <3>2 DEF CheckSource, GivenPlaces, FailuresNoted, Sound, End, Untouched, Elsewhere
    <3>. QED BY <2>1, <3>1, <3>2
  <2>3. ~failed /\ (outside <= 2 => ~tainted) /\ Have(Len(Plan)) /\ Compared(Len(Plan))
    BY <2>2 DEF Sound, GivenPlaces, Untainted, Kept
  <2>4. \A a, b \in 1 .. Len(Plan) : MustAgree(a, b) => Agree(a, b)
    BY <2>3, AllPairs DEF MeasurementTypes
  <2>5. \A k \in 1 .. Len(Plan) : results[k] \in Outputs
    BY <2>3 DEF Have
  <2>. QED BY <1>a, <1>b, <2>2, <2>3, <2>4, <2>5 DEF AcceptedComplete, Agree
<1>. QED BY <1>1, <1>2, <1>3

LEMMA MeasurementStarts ==
  ASSUME MeasurementInit
  PROVE  MeasurementInv
<1> USE DEF MeasurementInit
<1>1. runner \in Runners /\ parity \in {0, 1}
  OBVIOUS
<1>2. Len(Plan) \in Nat \ {0}
  BY <1>1, PlanFacts
<1>3. Zero \in [Layers -> [forward : Nat, native : Nat, fallback : Nat]]
  BY DEF Zero
<1>4. MeasurementTypes
  <2>1. /\ fp32 \in [Cases -> {"none", "all", "generated", "failed"}]
        /\ module \in [Layers -> {"original", "adapter", "covered", "other"}]
        /\ delta \in [Layers -> [forward : Nat, native : Nat, fallback : Nat]]
    BY <1>3
  <2>2. results \in [1 .. Len(Plan) -> Outputs \cup {"none", "failed"}]
    OBVIOUS
  <2>. QED BY <1>1, <1>2, <2>1, <2>2 DEF MeasurementTypes, MeasurementPlaces
<1>8. MeasurementFlags
  BY DEF MeasurementFlags
<1>5. Installed
  BY DEF Installed, HoldingPlaces, GivenPlaces, GivenBack
<1>6. FailuresNoted
  BY <1>2 DEF FailuresNoted, Evaluation
<1>7. Kept /\ InMode /\ Windowed /\ Untainted /\ AcceptedComplete
  BY DEF Kept, InMode, Windowed, Untainted, AcceptedComplete, GivenPlaces, HoldingPlaces
<1>. QED BY <1>4, <1>5, <1>6, <1>7, <1>8 DEF MeasurementInv

\* What a measuring program knows and holds, in every reachable state.
LEMMA MeasurementInvariant == MeasurementSpec => []MeasurementInv
<1>1. MeasurementInit => MeasurementInv
  BY MeasurementStarts
<1>2. MeasurementInv /\ [MeasurementNext]_measurementVars => MeasurementInv'
  BY TypesStep, FlagsStep, InstalledStep, FailuresNotedStep, KeptStep, InModeStep,
     WindowedStep, UntaintedStep,
     CompleteStep DEF MeasurementInv
<1>. QED BY <1>1, <1>2, PTL DEF MeasurementSpec

\* Whatever the plan, the failures passed over and the steps of other code, an accepted
\* document of the four programs is complete, and clean unless other code took three
\* steps (presentation_demo.py, profile_capture.py, evaluation.py).
THEOREM AcceptedAlwaysComplete == MeasurementSpec => []AcceptedComplete
<1>1. MeasurementInv => AcceptedComplete
  BY DEF MeasurementInv
<1>. QED BY <1>1, MeasurementInvariant, PTL

\* However it ends, a program has given the model back, or accepts nothing.
THEOREM ModelAlwaysGivenBack == MeasurementSpec => []GivenBack
<1>1. MeasurementInv => GivenBack
  BY DEF MeasurementInv, Installed
<1>. QED BY <1>1, MeasurementInvariant, PTL
=============================================================================
