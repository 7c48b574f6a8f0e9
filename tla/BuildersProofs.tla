--------------------------- MODULE BuildersProofs ---------------------------
(***************************************************************************)
(* Proofs of the properties of Builders for any signals and options, and   *)
(* any number of calls, one after the other or inside each other.          *)
(*                                                                         *)
(* The invariant is a predicate of objects, table, registered, pipeline,   *)
(* stack and refused, here objs, tab, reg, pl, st and ref, so that a step  *)
(* that makes a builder and begins a call on it can be taken apart.        *)
(* A second one says what comes behind an exporter; it needs the first.    *)
(***************************************************************************)
EXTENDS Builders, FiniteSetTheorems, SequenceTheorems, TLAPS

-----------------------------------------------------------------------------
(* What a sequence p of entries says of builder b *)

Entry == [step : {"defaults", "user", "exporter"}, by : Nat]

\* No entry of b at all.
Absent(p, b) == \A i \in 1..Len(p) : p[i].by # b

IsExporter(e, b) == e.step = "exporter" /\ e.by = b

\* No exporter of b.
NoExporter(p, b) == \A i \in 1..Len(p) : ~IsExporter(p[i], b)

\* One exporter of b.
ExporterOnce(p, b) ==
  \E i \in 1..Len(p) : IsExporter(p[i], b) /\ \A j \in 1..Len(p) : IsExporter(p[j], b) => j = i

\* The defaults of b are there, and nothing of b before them.
DefaultsFirst(p, b) ==
  \E i \in 1..Len(p) :
    /\ p[i].step = "defaults" /\ p[i].by = b
    /\ \A j \in 1..Len(p) : j < i => p[j].by # b

\* What b had in the pipelines pl is still so in pl2.
Kept(pl, pl2, b) ==
  \A s \in Signals :
    /\ Absent(pl[s], b) => Absent(pl2[s], b)
    /\ NoExporter(pl[s], b) => NoExporter(pl2[s], b)
    /\ ExporterOnce(pl[s], b) => ExporterOnce(pl2[s], b)

-----------------------------------------------------------------------------
(* The calls under way *)

Positions == {"defaults", "callback", "export", "store"}

Frames ==
  [builder : Nat, components : Settings, user : BOOLEAN, defer : BOOLEAN, todo : Seq(Signals), at : Positions]

\* Call c is for a signal of f, the call of ConfigureBuilder around it.
ChildOf(objs, c, f) ==
  /\ objs[c.builder].root = f.builder /\ c.builder # f.builder
  /\ objs[c.builder].kind \in f.components.signals
  /\ objs[c.builder].kind \notin ToSet(f.todo)
  /\ c.user = FALSE /\ c.defer = f.user /\ c.components = f.components
  /\ c.at \in {"defaults", "export", "store"}
  /\ f.at = "defaults" /\ objs[f.builder].kind = "any" /\ objs[f.builder].root = f.builder

\* The signals a builder of a kind is for, with components c.
Scope(kind, c) == IF kind = "any" THEN c.signals ELSE {kind}

\* Whether it is to have an exporter for s.
Want(kind, c, s) == s \in Scope(kind, c) /\ ~c.skip

\* A call is under way on b, and it is not in its callback.
Busy(st, b) == \E i \in 1..Len(st) : st[i].builder = b /\ st[i].at # "callback"

\* How far the call f on a builder of a kind, with table entry t, has come outside of
\* its callback: the signals in p have no exporter yet, those in d no defaults.
Progress(kind, t, pl, f, p, d) ==
  /\ f.at = "defaults" => t = Null
  /\ t = Null =>
       \A s \in Signals :
         IF /\ Want(kind, f.components, s)
            /\ f.at = "store" \/ (f.at = "defaults" /\ kind = "any" /\ ~f.user /\ s \notin p)
         THEN ExporterOnce(pl[s], f.builder)
         ELSE NoExporter(pl[s], f.builder)
  /\ \A s \in Scope(kind, f.components) :
       f.at # "defaults" \/ (kind = "any" /\ s \notin d) => DefaultsFirst(pl[s], f.builder)

\* The signal of c is not done before its exporter or its defaults are added.
UntilExport(objs, c) == IF c.at \in {"defaults", "export"} THEN {objs[c.builder].kind} ELSE {}
UntilDefaults(objs, c) == IF c.at = "defaults" THEN {objs[c.builder].kind} ELSE {}

-----------------------------------------------------------------------------
(* The invariant *)

Types(objs, tab, reg, pl, st, ref) ==
  /\ objs \in Seq([kind : Signals \cup {"any"}, root : Nat])
  /\ \A b \in 1..Len(objs) : /\ objs[b].root \in 1..Len(objs)
                             /\ objs[b].kind = "any" => objs[b].root = b
  /\ tab \in Seq(Settings \cup {Null}) /\ Len(tab) = Len(objs)
  /\ reg \in Settings \cup {Null}
  /\ pl \in [Signals -> Seq(Entry)]
  /\ \A s \in Signals : \A i \in 1..Len(pl[s]) : pl[s][i].by \in 1..Len(objs)
  /\ st \in Seq(Frames)
  /\ \A i \in 1..Len(st) : st[i].builder \in 1..Len(objs) /\ IsInjective(st[i].todo)
  /\ \A b \in ref : b \in 1..Len(objs) /\ tab[b] # Null

\* Which calls wait for which: all but the innermost are in their callbacks, or the
\* second is waiting for the call for a signal. Only that one defers its exporter.
Nesting(objs, st) ==
  /\ st # << >> => \/ objs[st[1].builder].root = st[1].builder
                   \/ Len(st) >= 2 /\ ChildOf(objs, st[1], st[2])
  /\ \A i \in 2..Len(st) :
       /\ objs[st[i].builder].root = st[i].builder
       /\ st[i].at # "callback" => i = 2 /\ ChildOf(objs, st[1], st[2])
  /\ \A i \in 1..Len(st) : objs[st[i].builder].root = st[i].builder => st[i].defer = FALSE

\* Builders of all signals use the components of the service collection.
OneComponents(objs, tab, reg, st) ==
  /\ \A i \in 1..Len(st) : objs[st[i].builder].kind = "any" => st[i].components = reg
  /\ \A b \in 1..Len(objs) : objs[b].kind = "any" /\ tab[b] # Null => tab[b] = reg

\* The innermost call of the application.
InnermostInv(objs, tab, pl, st) ==
  st # << >> =>
    /\ objs[st[1].builder].root = st[1].builder /\ st[1].at # "callback" =>
         Progress(objs[st[1].builder].kind, tab[st[1].builder], pl, st[1],
                  ToSet(st[1].todo), ToSet(st[1].todo))
    /\ objs[st[1].builder].root # st[1].builder =>
         Progress(objs[st[2].builder].kind, tab[st[2].builder], pl, st[2],
                  ToSet(st[2].todo) \cup UntilExport(objs, st[1]),
                  ToSet(st[2].todo) \cup UntilDefaults(objs, st[1]))

\* A builder of a kind with table entry t that no call is adding to.
Exported(kind, t, pl, b) ==
  \A s \in Signals :
    IF t # Null /\ Want(kind, t, s) THEN ExporterOnce(pl[s], b) ELSE NoExporter(pl[s], b)

IdleInv(objs, tab, pl, st, ref) ==
  \A b \in (1..Len(objs)) \ ref :
    objs[b].root = b /\ ~Busy(st, b) => Exported(objs[b].kind, tab[b], pl, b)

\* The pipelines in which the defaults of b are ahead of all else it adds.
Guarded(kind, reg) ==
  {s \in Signals : IF kind = "any" THEN reg # Null => s \in reg.signals ELSE s = kind}

\* Defaults, once added, are the first of what the builder has added.
DefaultsInv(objs, tab, reg, pl, st) ==
  /\ \A i \in 1..Len(st) :
       objs[st[i].builder].root = st[i].builder /\ st[i].at = "callback" =>
         \A s \in Scope(objs[st[i].builder].kind, st[i].components) : DefaultsFirst(pl[s], st[i].builder)
  /\ \A b \in 1..Len(objs) :
       objs[b].root = b /\ tab[b] # Null =>
         \A s \in Scope(objs[b].kind, tab[b]) : DefaultsFirst(pl[s], b)
  /\ \A b \in 1..Len(objs) :
       objs[b].root = b =>
         \A s \in Guarded(objs[b].kind, reg) : Absent(pl[s], b) \/ DefaultsFirst(pl[s], b)

Inv(objs, tab, reg, pl, st, ref) ==
  /\ Types(objs, tab, reg, pl, st, ref)
  /\ Nesting(objs, st)
  /\ OneComponents(objs, tab, reg, st)
  /\ InnermostInv(objs, tab, pl, st)
  /\ IdleInv(objs, tab, pl, st, ref)
  /\ DefaultsInv(objs, tab, reg, pl, st)

\* The inductive invariant.
IInv == Inv(objects, table, registered, pipeline, stack, refused)

-----------------------------------------------------------------------------
(* Adding an entry *)

LEMMA AppendOther ==
  ASSUME NEW p \in Seq(Entry), NEW e \in Entry, NEW b, e.by # b
  PROVE  /\ Absent(p, b) => Absent(Append(p, e), b)
         /\ NoExporter(p, b) => NoExporter(Append(p, e), b)
         /\ ExporterOnce(p, b) => ExporterOnce(Append(p, e), b)
<1> DEFINE q == Append(p, e)
<1>1. Len(p) \in Nat /\ Len(q) = Len(p) + 1 /\ q[Len(p) + 1] = e /\ \A i \in 1..Len(p) : q[i] = p[i]
  BY AppendProperties
<1> HIDE DEF q
<1>2. Absent(p, b) => Absent(q, b)
  BY <1>1 DEF Absent
<1>3. NoExporter(p, b) => NoExporter(q, b)
  BY <1>1 DEF NoExporter, IsExporter
<1>4. ASSUME ExporterOnce(p, b) PROVE ExporterOnce(q, b)
  <2>1. PICK i \in 1..Len(p) : IsExporter(p[i], b) /\ \A j \in 1..Len(p) : IsExporter(p[j], b) => j = i
    BY <1>4 DEF ExporterOnce
  <2>2. i \in 1..Len(q) /\ IsExporter(q[i], b)
    BY <1>1, <2>1
  <2>3. ASSUME NEW j \in 1..Len(q) PROVE IsExporter(q[j], b) => j = i
    BY <1>1, <2>1, <2>3 DEF IsExporter
  <2>. QED
    BY <2>2, <2>3 DEF ExporterOnce
<1>. QED
  BY <1>2, <1>3, <1>4 DEF q

LEMMA AppendDefaultsFirst ==
  ASSUME NEW p \in Seq(Entry), NEW e \in Entry, NEW b, DefaultsFirst(p, b)
  PROVE  DefaultsFirst(Append(p, e), b)
<1> DEFINE q == Append(p, e)
<1>1. Len(p) \in Nat /\ Len(q) = Len(p) + 1 /\ q[Len(p) + 1] = e /\ \A i \in 1..Len(p) : q[i] = p[i]
  BY AppendProperties
<1> HIDE DEF q
<1>2. PICK i \in 1..Len(p) : /\ p[i].step = "defaults" /\ p[i].by = b
                             /\ \A j \in 1..Len(p) : j < i => p[j].by # b
  BY DEF DefaultsFirst
<1>3. DefaultsFirst(q, b)
  BY <1>1, <1>2 DEF DefaultsFirst
<1>. QED
  BY <1>3 DEF q

LEMMA AppendOwn ==
  ASSUME NEW p \in Seq(Entry), NEW e \in Entry, NEW b, e.step # "exporter"
  PROVE  /\ NoExporter(p, b) => NoExporter(Append(p, e), b)
         /\ ExporterOnce(p, b) => ExporterOnce(Append(p, e), b)
<1> DEFINE q == Append(p, e)
<1>1. Len(p) \in Nat /\ Len(q) = Len(p) + 1 /\ q[Len(p) + 1] = e /\ \A i \in 1..Len(p) : q[i] = p[i]
  BY AppendProperties
<1> HIDE DEF q
<1>2. NoExporter(p, b) => NoExporter(q, b)
  BY <1>1 DEF NoExporter, IsExporter
<1>3. ASSUME ExporterOnce(p, b) PROVE ExporterOnce(q, b)
  <2>1. PICK i \in 1..Len(p) : IsExporter(p[i], b) /\ \A j \in 1..Len(p) : IsExporter(p[j], b) => j = i
    BY <1>3 DEF ExporterOnce
  <2>2. i \in 1..Len(q) /\ IsExporter(q[i], b)
    BY <1>1, <2>1
  <2>3. ASSUME NEW j \in 1..Len(q) PROVE IsExporter(q[j], b) => j = i
    BY <1>1, <2>1, <2>3 DEF IsExporter
  <2>. QED
    BY <2>2, <2>3 DEF ExporterOnce
<1>. QED
  BY <1>2, <1>3 DEF q

LEMMA AppendExporter ==
  ASSUME NEW p \in Seq(Entry), NEW e \in Entry, NEW b, e.step = "exporter", e.by = b, NoExporter(p, b)
  PROVE  ExporterOnce(Append(p, e), b)
<1> DEFINE q == Append(p, e)
<1>1. Len(p) \in Nat /\ Len(q) = Len(p) + 1 /\ q[Len(p) + 1] = e /\ \A i \in 1..Len(p) : q[i] = p[i]
  BY AppendProperties
<1> HIDE DEF q
<1>2. Len(q) \in 1..Len(q) /\ IsExporter(q[Len(q)], b)
  BY <1>1 DEF IsExporter
<1>3. ASSUME NEW j \in 1..Len(q), j # Len(q) PROVE ~IsExporter(q[j], b)
  BY <1>1, <1>3 DEF NoExporter
<1>4. ExporterOnce(q, b)
  BY <1>1, <1>2, <1>3 DEF ExporterOnce
<1>. QED
  BY <1>4 DEF q

LEMMA AppendDefaults ==
  ASSUME NEW p \in Seq(Entry), NEW e \in Entry, NEW b, e.step = "defaults", e.by = b, Absent(p, b)
  PROVE  DefaultsFirst(Append(p, e), b)
<1> DEFINE q == Append(p, e)
<1>1. Len(p) \in Nat /\ Len(q) = Len(p) + 1 /\ q[Len(p) + 1] = e /\ \A i \in 1..Len(p) : q[i] = p[i]
  BY AppendProperties
<1> HIDE DEF q
<1>2. Len(q) \in 1..Len(q) /\ \A j \in 1..Len(q) : j < Len(q) => q[j].by # b
  BY <1>1 DEF Absent
<1>3. DefaultsFirst(q, b)
  BY <1>1, <1>2 DEF DefaultsFirst
<1>. QED
  BY <1>3 DEF q

\* The pipelines with e added for the signals ss.
AddTo(pl, ss, e) == [s \in Signals |-> IF s \in ss THEN Append(pl[s], e) ELSE pl[s]]

LEMMA AddedType ==
  ASSUME NEW pl \in [Signals -> Seq(Entry)], NEW ss, NEW e \in Entry, NEW n \in Nat, e.by \in 1..n,
         \A s \in Signals : \A i \in 1..Len(pl[s]) : pl[s][i].by \in 1..n
  PROVE  /\ AddTo(pl, ss, e) \in [Signals -> Seq(Entry)]
         /\ \A s \in Signals : \A i \in 1..Len(AddTo(pl, ss, e)[s]) : AddTo(pl, ss, e)[s][i].by \in 1..n
<1> DEFINE pl2 == AddTo(pl, ss, e)
<1>1. \A s \in Signals : pl2[s] = IF s \in ss THEN Append(pl[s], e) ELSE pl[s]
  BY DEF AddTo
<1>2. pl2 = [s \in Signals |-> pl2[s]]
  BY DEF AddTo
<1> HIDE DEF pl2
<1>3. ASSUME NEW s \in Signals PROVE pl2[s] \in Seq(Entry) /\ \A i \in 1..Len(pl2[s]) : pl2[s][i].by \in 1..n
  <2>1. pl[s] \in Seq(Entry)
    OBVIOUS
  <2>2. CASE s \in ss
    <3>1. pl2[s] = Append(pl[s], e)
      BY <1>1, <2>2
    <3>2. /\ pl2[s] \in Seq(Entry) /\ Len(pl2[s]) = Len(pl[s]) + 1 /\ pl2[s][Len(pl[s]) + 1] = e
          /\ \A i \in 1..Len(pl[s]) : pl2[s][i] = pl[s][i]
      BY <2>1, <3>1, AppendProperties
    <3>3. Len(pl[s]) \in Nat
      BY <2>1
    <3>4. ASSUME NEW i \in 1..Len(pl2[s]) PROVE pl2[s][i].by \in 1..n
      <4>1. i \in 1..Len(pl[s]) \/ i = Len(pl[s]) + 1
        BY <3>2, <3>3, <3>4
      <4>2. CASE i \in 1..Len(pl[s])
        <5>1. pl2[s][i] = pl[s][i] /\ pl[s][i].by \in 1..n
          BY <1>3, <3>2, <4>2
        <5>. QED
          BY <5>1
      <4>3. CASE i = Len(pl[s]) + 1
        BY <3>2, <4>3
      <4>. QED
        BY <4>1, <4>2, <4>3
    <3>. QED
      BY <3>2, <3>4
  <2>3. CASE s \notin ss
    BY <1>1, <2>1, <2>3
  <2>. QED
    BY <2>2, <2>3
<1>4. pl2 \in [Signals -> Seq(Entry)]
  BY <1>2, <1>3
<1>. QED
  BY <1>3, <1>4 DEF pl2

LEMMA AddedOther ==
  ASSUME NEW pl \in [Signals -> Seq(Entry)], NEW ss, NEW e \in Entry, NEW b, e.by # b
  PROVE  Kept(pl, AddTo(pl, ss, e), b)
<1>1. \A s \in Signals : AddTo(pl, ss, e)[s] = IF s \in ss THEN Append(pl[s], e) ELSE pl[s]
  BY DEF AddTo
<1>2. \A s \in Signals : pl[s] \in Seq(Entry)
  OBVIOUS
<1>. QED
  BY <1>1, <1>2, AppendOther DEF Kept

LEMMA AddedDefaultsFirst ==
  ASSUME NEW pl \in [Signals -> Seq(Entry)], NEW ss, NEW e \in Entry, NEW b, NEW s \in Signals,
         DefaultsFirst(pl[s], b)
  PROVE  DefaultsFirst(AddTo(pl, ss, e)[s], b)
<1>1. AddTo(pl, ss, e)[s] = IF s \in ss THEN Append(pl[s], e) ELSE pl[s]
  BY DEF AddTo
<1>. QED
  BY <1>1, AppendDefaultsFirst

-----------------------------------------------------------------------------
(* Small facts *)

LEMMA SettingsFields ==
  ASSUME NEW c \in Settings
  PROVE  c.signals \subseteq Signals /\ c.skip \in BOOLEAN /\ c # Null
  BY BuildersAssumption

LEMMA ScopeInSignals ==
  ASSUME NEW kind \in Signals \cup {"any"}, NEW c \in Settings
  PROVE  Scope(kind, c) \subseteq Signals
  BY SettingsFields DEF Scope

LEMMA KeptSame == ASSUME NEW pl, NEW b PROVE Kept(pl, pl, b)
  BY DEF Kept

LEMMA ExportedKept ==
  ASSUME NEW kind, NEW t, NEW pl, NEW pl2, NEW b, Kept(pl, pl2, b), Exported(kind, t, pl, b)
  PROVE  Exported(kind, t, pl2, b)
  BY DEF Exported, Kept

\* objs2 and tab2 are objs and tab with a builder that is not in the table.
Added(objs, tab, kind, root, objs2, tab2) ==
  objs2 = Append(objs, [kind |-> kind, root |-> root]) /\ tab2 = Append(tab, Null)

\* A new builder, of the application or for a signal of another, has done nothing yet.
LEMMA NewObjectInv ==
  ASSUME NEW objs, NEW tab, NEW reg, NEW pl, NEW st, NEW ref, Inv(objs, tab, reg, pl, st, ref),
         NEW kind \in Signals \cup {"any"}, NEW root \in 1..Len(objs) + 1, kind = "any" => root = Len(objs) + 1,
         NEW objs2, NEW tab2, Added(objs, tab, kind, root, objs2, tab2)
  PROVE  /\ Inv(objs2, tab2, reg, pl, st, ref)
         /\ Len(objs2) = Len(objs) + 1
         /\ objs2[Len(objs) + 1].kind = kind /\ objs2[Len(objs) + 1].root = root
         /\ tab2[Len(objs) + 1] = Null
         /\ \A b \in 1..Len(objs) : objs2[b] = objs[b] /\ tab2[b] = tab[b]
<1> DEFINE Obj == [kind : Signals \cup {"any"}, root : Nat]
           new == [kind |-> kind, root |-> root]
           n == Len(objs)
<1>1. Types(objs, tab, reg, pl, st, ref)
  BY DEF Inv
<1>2. n \in Nat /\ objs \in Seq(Obj) /\ tab \in Seq(Settings \cup {Null}) /\ Len(tab) = n
  BY <1>1 DEF Types
<1>3. new \in Obj
  BY <1>2
<1>4. new.kind = kind /\ new.root = root
  OBVIOUS
<1>0. objs2 = Append(objs, new) /\ tab2 = Append(tab, Null)
  BY DEF Added
<1> HIDE DEF Obj, new, n
<1>5. objs2 \in Seq(Obj) /\ Len(objs2) = n + 1 /\ objs2[n + 1] = new /\ \A b \in 1..n : objs2[b] = objs[b]
  BY <1>0, <1>2, <1>3, AppendProperties DEF n
<1>6. tab2 \in Seq(Settings \cup {Null}) /\ Len(tab2) = n + 1 /\ tab2[n + 1] = Null /\ \A b \in 1..n : tab2[b] = tab[b]
  BY <1>0, <1>2, AppendProperties
<1>7. objs2[n + 1].kind = kind /\ objs2[n + 1].root = root
  BY <1>4, <1>5
<1>8. /\ \A i \in 1..Len(st) : st[i].builder \in 1..n
      /\ st \in Seq(Frames) /\ Len(st) \in Nat
  BY <1>1 DEF Types, n
<1>9. \A i \in 1..Len(st) : /\ objs2[st[i].builder] = objs[st[i].builder]
                            /\ tab2[st[i].builder] = tab[st[i].builder]
  BY <1>5, <1>6, <1>8
<1>10. st # << >> => 1 \in 1..Len(st) /\ (Len(st) >= 2 => 2 \in 1..Len(st))
  BY <1>8
<1>11. Types(objs2, tab2, reg, pl, st, ref)
  <2>1. \A b \in 1..Len(objs2) : objs2[b].root \in 1..Len(objs2) /\ (objs2[b].kind = "any" => objs2[b].root = b)
    <3>1. ASSUME NEW b \in 1..n PROVE objs2[b].root \in 1..Len(objs2) /\ (objs2[b].kind = "any" => objs2[b].root = b)
      <4>1. objs2[b] = objs[b] /\ objs[b].root \in 1..n /\ (objs[b].kind = "any" => objs[b].root = b)
        BY <1>1, <1>5, <3>1 DEF Types, n
      <4>. QED
        BY <1>2, <1>5, <4>1
    <3>2. root \in 1..n + 1 /\ (kind = "any" => root = n + 1)
      BY DEF n
    <3>. QED
      BY <1>2, <1>5, <1>7, <3>1, <3>2
  <2>2. \A s \in Signals : \A i \in 1..Len(pl[s]) : pl[s][i].by \in 1..Len(objs2)
    BY <1>1, <1>2, <1>5 DEF Types, n
  <2>3. \A i \in 1..Len(st) : st[i].builder \in 1..Len(objs2) /\ IsInjective(st[i].todo)
    BY <1>1, <1>2, <1>5, <1>8 DEF Types
  <2>4. \A b \in ref : b \in 1..Len(objs2) /\ tab2[b] # Null
    BY <1>1, <1>2, <1>5, <1>6 DEF Types, n
  <2>. QED
    BY <1>1, <1>5, <1>6, <2>1, <2>2, <2>3, <2>4 DEF Types, Obj
<1>12. Nesting(objs2, st)
  <2>1. Nesting(objs, st)
    BY DEF Inv
  <2>2. Len(st) >= 2 => (ChildOf(objs2, st[1], st[2]) <=> ChildOf(objs, st[1], st[2]))
    BY <1>8, <1>9 DEF ChildOf
  <2>. QED
    BY <1>8, <1>9, <1>10, <2>1, <2>2 DEF Nesting
<1>13. OneComponents(objs2, tab2, reg, st)
  <2>1. OneComponents(objs, tab, reg, st)
    BY DEF Inv
  <2>2. ASSUME NEW b \in 1..n + 1 PROVE objs2[b].kind = "any" /\ tab2[b] # Null => tab2[b] = reg
    BY <1>2, <1>5, <1>6, <2>1, <2>2 DEF OneComponents, n
  <2>. QED
    BY <1>5, <1>9, <2>1, <2>2 DEF OneComponents
<1>14. InnermostInv(objs2, tab2, pl, st)
  <2>1. InnermostInv(objs, tab, pl, st)
    BY DEF Inv
  <2>2. st # << >> /\ objs[st[1].builder].root # st[1].builder => Len(st) >= 2
    BY DEF Inv, Nesting
  <2>3. st # << >> => UntilExport(objs2, st[1]) = UntilExport(objs, st[1]) /\ UntilDefaults(objs2, st[1]) = UntilDefaults(objs, st[1])
    BY <1>9, <1>10 DEF UntilExport, UntilDefaults
  <2>4. CASE st = << >>
    BY <2>4 DEF InnermostInv
  <2>5. CASE st # << >> /\ objs[st[1].builder].root = st[1].builder
    <3>1. objs2[st[1].builder] = objs[st[1].builder] /\ tab2[st[1].builder] = tab[st[1].builder]
      BY <1>9, <1>10, <2>5
    <3>. QED
      BY <2>1, <2>5, <3>1 DEF InnermostInv
  <2>6. CASE st # << >> /\ objs[st[1].builder].root # st[1].builder
    <3>1. /\ objs2[st[1].builder] = objs[st[1].builder]
          /\ objs2[st[2].builder] = objs[st[2].builder] /\ tab2[st[2].builder] = tab[st[2].builder]
      BY <1>9, <1>10, <2>2, <2>6
    <3>. QED
      BY <2>1, <2>3, <2>6, <3>1 DEF InnermostInv
  <2>. QED
    BY <2>4, <2>5, <2>6
<1>15. \A s \in Signals : Absent(pl[s], n + 1) /\ NoExporter(pl[s], n + 1)
  <2>1. \A s \in Signals : \A i \in 1..Len(pl[s]) : pl[s][i].by \in 1..n
    BY <1>1 DEF Types, n
  <2>2. n + 1 \notin 1..n
    BY <1>2
  <2>. QED
    BY <2>1, <2>2 DEF Absent, NoExporter, IsExporter
<1>16. IdleInv(objs2, tab2, pl, st, ref)
  <2>1. SUFFICES ASSUME NEW b \in 1..n + 1, b \notin ref, objs2[b].root = b, ~Busy(st, b)
                 PROVE  Exported(objs2[b].kind, tab2[b], pl, b)
    BY <1>5 DEF IdleInv
  <2>2. CASE b = n + 1
    BY <1>6, <1>15, <2>2 DEF Exported
  <2>3. CASE b \in 1..n
    <3>1. objs2[b] = objs[b] /\ tab2[b] = tab[b]
      BY <1>5, <1>6, <2>3
    <3>. QED
      BY <2>1, <2>3, <3>1 DEF Inv, IdleInv, n
  <2>. QED
    BY <1>2, <2>1, <2>2, <2>3
<1>17. DefaultsInv(objs2, tab2, reg, pl, st)
  <2>1. DefaultsInv(objs, tab, reg, pl, st)
    BY DEF Inv
  <2>2. ASSUME NEW b \in 1..n + 1, objs2[b].root = b
        PROVE  /\ tab2[b] # Null => \A s \in Scope(objs2[b].kind, tab2[b]) : DefaultsFirst(pl[s], b)
               /\ \A s \in Guarded(objs2[b].kind, reg) : Absent(pl[s], b) \/ DefaultsFirst(pl[s], b)
    <3>1. CASE b = n + 1
      BY <1>6, <1>15, <3>1 DEF Guarded
    <3>2. CASE b \in 1..n
      <4>1. objs2[b] = objs[b] /\ tab2[b] = tab[b]
        BY <1>5, <1>6, <3>2
      <4>. QED
        BY <2>1, <2>2, <3>2, <4>1 DEF DefaultsInv, n
    <3>. QED
      BY <1>2, <2>2, <3>1, <3>2
  <2>. QED
    BY <1>5, <1>9, <2>1, <2>2 DEF DefaultsInv
<1>18. Inv(objs2, tab2, reg, pl, st, ref)
  BY <1>11, <1>12, <1>13, <1>14, <1>16, <1>17 DEF Inv
<1>. QED
  BY <1>5, <1>6, <1>7, <1>18 DEF n

LEMMA UpdateTop ==
  ASSUME NEW st \in Seq(Frames), st # << >>, NEW a \in Positions
  PROVE  LET st2 == [st EXCEPT ![1].at = a] IN
         /\ st2 \in Seq(Frames) /\ Len(st2) = Len(st) /\ st2 # << >>
         /\ st2[1].at = a /\ st2[1].builder = st[1].builder /\ st2[1].components = st[1].components
         /\ st2[1].user = st[1].user /\ st2[1].defer = st[1].defer /\ st2[1].todo = st[1].todo
         /\ \A i \in 2..Len(st) : st2[i] = st[i]
<1> DEFINE f == [st[1] EXCEPT !.at = a]
           st2 == [st EXCEPT ![1] = f]
<1>1. Len(st) \in Nat /\ 1 \in 1..Len(st) /\ st[1] \in Frames
  OBVIOUS
<1>2. /\ f \in Frames /\ f.at = a /\ f.builder = st[1].builder /\ f.components = st[1].components
      /\ f.user = st[1].user /\ f.defer = st[1].defer /\ f.todo = st[1].todo
  BY <1>1 DEF Frames
<1> HIDE DEF f
<1>3. /\ st2 \in Seq(Frames) /\ Len(st2) = Len(st)
      /\ \A j \in 1..Len(st) : st2[j] = IF j = 1 THEN f ELSE st[j]
  BY <1>1, <1>2, ExceptSeq
<1>4. [st EXCEPT ![1].at = a] = st2
  BY DEF f
<1> HIDE DEF st2
<1>5. st2[1] = f /\ st2 # << >> /\ \A i \in 2..Len(st) : st2[i] = st[i]
  BY <1>1, <1>3
<1>. QED
  BY <1>2, <1>3, <1>4, <1>5

\* The types of the parts of a state.
LEMMA StateTypes ==
  ASSUME NEW objs, NEW tab, NEW reg, NEW pl, NEW st, NEW ref, Types(objs, tab, reg, pl, st, ref)
  PROVE  /\ Len(objs) \in Nat /\ Len(st) \in Nat /\ Len(tab) = Len(objs)
         /\ \A b \in 1..Len(objs) : /\ objs[b].kind \in Signals \cup {"any"} /\ objs[b].root \in 1..Len(objs)
                                    /\ objs[b].kind = "any" => objs[b].root = b
                                    /\ tab[b] \in Settings \cup {Null}
         /\ \A i \in 1..Len(st) : /\ st[i] \in Frames /\ st[i].builder \in 1..Len(objs)
                                  /\ st[i].components \in Settings /\ st[i].todo \in Seq(Signals)
                                  /\ st[i].user \in BOOLEAN
         /\ st # << >> => 1 \in 1..Len(st)
         /\ Len(st) >= 2 => 2 \in 1..Len(st)
<1>1. /\ objs \in Seq([kind : Signals \cup {"any"}, root : Nat]) /\ Len(objs) \in Nat
      /\ tab \in Seq(Settings \cup {Null}) /\ Len(tab) = Len(objs)
      /\ st \in Seq(Frames) /\ Len(st) \in Nat
  BY DEF Types
<1>2. ASSUME NEW b \in 1..Len(objs)
      PROVE  objs[b].kind \in Signals \cup {"any"} /\ tab[b] \in Settings \cup {Null}
  <2>1. objs[b] \in [kind : Signals \cup {"any"}, root : Nat]
    BY <1>1, <1>2, ElementOfSeq
  <2>2. tab[b] \in Settings \cup {Null}
    BY <1>1, <1>2, ElementOfSeq
  <2>. QED
    BY <2>1, <2>2
<1>3. ASSUME NEW i \in 1..Len(st)
      PROVE  /\ st[i] \in Frames /\ st[i].components \in Settings /\ st[i].todo \in Seq(Signals)
             /\ st[i].user \in BOOLEAN
  <2>1. st[i] \in Frames
    BY <1>1
  <2>. QED
    BY <2>1 DEF Frames
<1>4. (st # << >> => 1 \in 1..Len(st)) /\ (Len(st) >= 2 => 2 \in 1..Len(st))
  BY <1>1
<1>5. /\ \A b \in 1..Len(objs) : objs[b].root \in 1..Len(objs) /\ (objs[b].kind = "any" => objs[b].root = b)
      /\ \A i \in 1..Len(st) : st[i].builder \in 1..Len(objs)
  BY DEF Types
<1>. QED
  BY <1>1, <1>2, <1>3, <1>4, <1>5

\* The pipelines pl2 are pl, but for entries of builder r, and have lost no defaults.
Extends(objs, pl, pl2, r) ==
  /\ pl2 \in [Signals -> Seq(Entry)]
  /\ \A s \in Signals : \A i \in 1..Len(pl2[s]) : pl2[s][i].by \in 1..Len(objs)
  /\ \A b \in 1..Len(objs) : b # r => Kept(pl, pl2, b)
  /\ \A b \in 1..Len(objs), s \in Signals : DefaultsFirst(pl[s], b) => DefaultsFirst(pl2[s], b)

LEMMA ExtendsSame ==
  ASSUME NEW objs, NEW tab, NEW reg, NEW pl, NEW st, NEW ref, Types(objs, tab, reg, pl, st, ref), NEW r
  PROVE  Extends(objs, pl, pl, r)
  BY KeptSame DEF Extends, Types

\* A step of the innermost call that may add to the pipelines: what is left to show
\* is what concerns the builder it adds for.
LEMMA GotoInv ==
  ASSUME NEW objs, NEW tab, NEW reg, NEW pl, NEW st, NEW ref, Inv(objs, tab, reg, pl, st, ref),
         st # << >>, NEW a \in Positions, NEW st2, st2 = [st EXCEPT ![1].at = a],
         NEW b1, b1 = st[1].builder, NEW r, r = objs[b1].root,
         NEW pl2, Extends(objs, pl, pl2, r),
         r # b1 => a \in {"defaults", "export", "store"},
         InnermostInv(objs, tab, pl2, st2),
         a = "callback" => /\ Exported(objs[b1].kind, tab[b1], pl2, b1)
                           /\ \A s \in Scope(objs[b1].kind, st[1].components) : DefaultsFirst(pl2[s], b1),
         \A s \in Guarded(objs[r].kind, reg) : Absent(pl2[s], r) \/ DefaultsFirst(pl2[s], r)
  PROVE  Inv(objs, tab, reg, pl2, st2, ref)
<1>1. Types(objs, tab, reg, pl, st, ref) /\ Nesting(objs, st)
  BY DEF Inv
<1>12. /\ pl2 \in [Signals -> Seq(Entry)]
       /\ \A s \in Signals : \A i \in 1..Len(pl2[s]) : pl2[s][i].by \in 1..Len(objs)
       /\ \A b \in 1..Len(objs) : b # r => Kept(pl, pl2, b)
       /\ \A b \in 1..Len(objs), s \in Signals : DefaultsFirst(pl[s], b) => DefaultsFirst(pl2[s], b)
  BY DEF Extends
<1>2. /\ Len(objs) \in Nat /\ Len(st) \in Nat
      /\ \A b \in 1..Len(objs) : /\ objs[b].kind \in Signals \cup {"any"} /\ objs[b].root \in 1..Len(objs)
                                 /\ tab[b] \in Settings \cup {Null}
      /\ \A i \in 1..Len(st) : st[i].builder \in 1..Len(objs) /\ st[i].components \in Settings
      /\ 1 \in 1..Len(st) /\ (Len(st) >= 2 => 2 \in 1..Len(st))
  BY <1>1, StateTypes
<1>3. /\ st2 \in Seq(Frames) /\ Len(st2) = Len(st) /\ st2 # << >>
      /\ st2[1].at = a /\ st2[1].builder = b1 /\ st2[1].components = st[1].components
      /\ st2[1].user = st[1].user /\ st2[1].defer = st[1].defer /\ st2[1].todo = st[1].todo
      /\ \A i \in 2..Len(st) : st2[i] = st[i]
  <2>1. st \in Seq(Frames)
    BY <1>1 DEF Types
  <2>. QED
    BY <2>1, UpdateTop
<1>4. \A i \in 1..Len(st) : st2[i].builder = st[i].builder /\ st2[i].components = st[i].components /\ st2[i].todo = st[i].todo
  BY <1>2, <1>3
<1>5. Types(objs, tab, reg, pl2, st2, ref)
  BY <1>1, <1>3, <1>4, <1>12 DEF Types
<1>6. r # b1 => Len(st) >= 2 /\ ChildOf(objs, st[1], st[2]) /\ ChildOf(objs, st2[1], st2[2])
  BY <1>1, <1>2, <1>3 DEF Nesting, ChildOf
<1>7. ChildOf(objs, st[1], st[2]) => r # b1
  BY DEF ChildOf
<1>8. Nesting(objs, st2)
  <2>1. \/ objs[st2[1].builder].root = st2[1].builder
        \/ Len(st2) >= 2 /\ ChildOf(objs, st2[1], st2[2])
    BY <1>3, <1>6
  <2>2. ASSUME NEW i \in 2..Len(st2)
        PROVE  /\ objs[st2[i].builder].root = st2[i].builder
               /\ st2[i].at # "callback" => i = 2 /\ ChildOf(objs, st2[1], st2[2])
    <3>1. i \in 2..Len(st) /\ st2[i] = st[i]
      BY <1>3, <2>2
    <3>2. /\ objs[st[i].builder].root = st[i].builder
          /\ st[i].at # "callback" => i = 2 /\ ChildOf(objs, st[1], st[2])
      BY <1>1, <3>1 DEF Nesting
    <3>. QED
      BY <1>6, <1>7, <3>1, <3>2
  <2>3. ASSUME NEW i \in 1..Len(st2), objs[st2[i].builder].root = st2[i].builder
        PROVE  st2[i].defer = FALSE
    <3>1. i \in 1..Len(st) /\ st2[i].builder = st[i].builder /\ st2[i].defer = st[i].defer
      BY <1>2, <1>3, <2>3
    <3>. QED
      BY <1>1, <2>3, <3>1 DEF Nesting
  <2>. QED
    BY <2>1, <2>2, <2>3 DEF Nesting
<1>9. OneComponents(objs, tab, reg, st2)
  BY <1>3, <1>4 DEF Inv, OneComponents
<1>10. IdleInv(objs, tab, pl2, st2, ref)
  <2>1. SUFFICES ASSUME NEW b \in 1..Len(objs), b \notin ref, objs[b].root = b, ~Busy(st2, b)
                 PROVE  Exported(objs[b].kind, tab[b], pl2, b)
    BY DEF IdleInv
  <2>2. CASE b # r
    <3>1. b # b1
      BY <2>1, <2>2
    <3>2. ~Busy(st, b)
      BY <1>2, <1>3, <2>1, <3>1 DEF Busy
    <3>3. Exported(objs[b].kind, tab[b], pl, b)
      BY <2>1, <3>2 DEF Inv, IdleInv
    <3>. QED
      BY <1>12, <2>2, <3>3, ExportedKept
  <2>3. CASE b = r
    <3>1. r = b1
      <4>1. SUFFICES ASSUME r # b1 PROVE FALSE
        OBVIOUS
      <4>2. Len(st) >= 2 /\ st[2].builder = r /\ st[2].at = "defaults"
        BY <1>6, <4>1 DEF ChildOf
      <4>3. 2 \in 1..Len(st2) /\ st2[2].builder = r /\ st2[2].at # "callback"
        BY <1>2, <1>3, <4>2
      <4>. QED
        BY <2>1, <2>3, <4>3 DEF Busy
    <3>2. a = "callback"
      BY <1>2, <1>3, <2>1, <2>3, <3>1 DEF Busy
    <3>. QED
      BY <2>3, <3>1, <3>2
  <2>. QED
    BY <2>2, <2>3
<1>11. DefaultsInv(objs, tab, reg, pl2, st2)
  <2>1. DefaultsInv(objs, tab, reg, pl, st)
    BY DEF Inv
  <2>2. ASSUME NEW i \in 1..Len(st2), objs[st2[i].builder].root = st2[i].builder, st2[i].at = "callback",
               NEW s \in Scope(objs[st2[i].builder].kind, st2[i].components)
        PROVE  DefaultsFirst(pl2[s], st2[i].builder)
    <3>1. CASE i = 1
      BY <1>3, <2>2, <3>1
    <3>2. CASE i # 1
      <4>1. i \in 1..Len(st) /\ st2[i] = st[i]
        BY <1>2, <1>3, <2>2, <3>2
      <4>2. s \in Signals
        BY <1>2, <2>2, <4>1, ScopeInSignals
      <4>3. DefaultsFirst(pl[s], st[i].builder)
        BY <2>1, <2>2, <4>1 DEF DefaultsInv
      <4>. QED
        BY <1>2, <1>12, <4>1, <4>2, <4>3
    <3>. QED
      BY <3>1, <3>2
  <2>3. ASSUME NEW b \in 1..Len(objs), objs[b].root = b, tab[b] # Null, NEW s \in Scope(objs[b].kind, tab[b])
        PROVE  DefaultsFirst(pl2[s], b)
    <3>1. s \in Signals
      BY <1>2, <2>3, ScopeInSignals
    <3>2. DefaultsFirst(pl[s], b)
      BY <2>1, <2>3 DEF DefaultsInv
    <3>. QED
      BY <1>12, <3>1, <3>2
  <2>4. ASSUME NEW b \in 1..Len(objs), objs[b].root = b, NEW s \in Guarded(objs[b].kind, reg)
        PROVE  Absent(pl2[s], b) \/ DefaultsFirst(pl2[s], b)
    <3>1. s \in Signals
      BY DEF Guarded
    <3>2. Absent(pl[s], b) \/ DefaultsFirst(pl[s], b)
      BY <2>1, <2>4 DEF DefaultsInv
    <3>3. CASE b = r
      BY <2>4, <3>3
    <3>4. CASE b # r
      BY <1>12, <3>1, <3>2, <3>4 DEF Kept
    <3>. QED
      BY <3>3, <3>4
  <2>. QED
    BY <2>2, <2>3, <2>4 DEF DefaultsInv
<1>. QED
  BY <1>5, <1>8, <1>9, <1>10, <1>11 DEF Inv

\* The innermost call goes on to a, with what GotoInv asks for.
Advances(objs, tab, reg, pl, st, a, pl2, st2) ==
  LET b1 == st[1].builder
      r == objs[b1].root IN
  /\ a \in Positions /\ st2 = [st EXCEPT ![1].at = a]
  /\ Extends(objs, pl, pl2, r)
  /\ r # b1 => a \in {"defaults", "export", "store"}
  /\ InnermostInv(objs, tab, pl2, st2)
  /\ a = "callback" => /\ Exported(objs[b1].kind, tab[b1], pl2, b1)
                       /\ \A s \in Scope(objs[b1].kind, st[1].components) : DefaultsFirst(pl2[s], b1)
  /\ \A s \in Guarded(objs[r].kind, reg) : Absent(pl2[s], r) \/ DefaultsFirst(pl2[s], r)

LEMMA AdvanceInv ==
  ASSUME NEW objs, NEW tab, NEW reg, NEW pl, NEW st, NEW ref, Inv(objs, tab, reg, pl, st, ref), st # << >>,
         NEW a, NEW pl2, NEW st2, Advances(objs, tab, reg, pl, st, a, pl2, st2)
  PROVE  Inv(objs, tab, reg, pl2, st2, ref)
<1>1. PICK b1, r : b1 = st[1].builder /\ r = objs[b1].root
  OBVIOUS
<1>2. /\ a \in Positions /\ st2 = [st EXCEPT ![1].at = a]
      /\ Extends(objs, pl, pl2, r)
      /\ r # b1 => a \in {"defaults", "export", "store"}
      /\ InnermostInv(objs, tab, pl2, st2)
      /\ a = "callback" => /\ Exported(objs[b1].kind, tab[b1], pl2, b1)
                           /\ \A s \in Scope(objs[b1].kind, st[1].components) : DefaultsFirst(pl2[s], b1)
      /\ \A s \in Guarded(objs[r].kind, reg) : Absent(pl2[s], r) \/ DefaultsFirst(pl2[s], r)
  BY <1>1 DEF Advances
<1>. QED
  BY <1>1, <1>2, GotoInv

\* What adding an entry of builder r does.
LEMMA AddFacts ==
  ASSUME NEW objs, NEW tab, NEW reg, NEW pl, NEW st, NEW ref, Types(objs, tab, reg, pl, st, ref),
         NEW r \in 1..Len(objs), NEW e \in Entry, e.by = r, NEW ss
  PROVE  LET pl2 == AddTo(pl, ss, e) IN
         /\ Extends(objs, pl, pl2, r)
         /\ \A s \in Signals : s \notin ss => pl2[s] = pl[s]
         /\ \A s \in Signals : s \in ss =>
              /\ e.step # "exporter" => (NoExporter(pl[s], r) => NoExporter(pl2[s], r))
              /\ e.step # "exporter" => (ExporterOnce(pl[s], r) => ExporterOnce(pl2[s], r))
              /\ e.step = "exporter" => (NoExporter(pl[s], r) => ExporterOnce(pl2[s], r))
              /\ e.step = "defaults" => (Absent(pl[s], r) => DefaultsFirst(pl2[s], r))
<1> DEFINE step == e.step
           pl2 == AddTo(pl, ss, e)
<1>1. Len(objs) \in Nat /\ pl \in [Signals -> Seq(Entry)]
  BY DEF Types
<1>2. e \in Entry /\ e.step = step /\ e.by = r
  OBVIOUS
<1> HIDE DEF step, pl2
<1>3. pl2 = AddTo(pl, ss, e)
  BY DEF pl2
<1>4. /\ pl2 \in [Signals -> Seq(Entry)]
      /\ \A s \in Signals : \A i \in 1..Len(pl2[s]) : pl2[s][i].by \in 1..Len(objs)
  <2>1. \A s \in Signals : \A i \in 1..Len(pl[s]) : pl[s][i].by \in 1..Len(objs)
    BY DEF Types
  <2>2. e.by \in 1..Len(objs)
    BY <1>2
  <2>3. /\ AddTo(pl, ss, e) \in [Signals -> Seq(Entry)]
        /\ \A s \in Signals : \A i \in 1..Len(AddTo(pl, ss, e)[s]) : AddTo(pl, ss, e)[s][i].by \in 1..Len(objs)
    BY <1>1, <1>2, <2>1, <2>2, AddedType
  <2>. QED
    BY <1>3, <2>3
<1>5. \A b \in 1..Len(objs) : b # r => Kept(pl, pl2, b)
  BY <1>1, <1>2, <1>3, AddedOther
<1>6. \A b \in 1..Len(objs), s \in Signals : DefaultsFirst(pl[s], b) => DefaultsFirst(pl2[s], b)
  BY <1>1, <1>2, <1>3, AddedDefaultsFirst
<1>7. \A s \in Signals : pl2[s] = IF s \in ss THEN Append(pl[s], e) ELSE pl[s]
  BY <1>3 DEF AddTo
<1>8. ASSUME NEW s \in Signals, s \in ss
      PROVE  /\ step # "exporter" => (NoExporter(pl[s], r) => NoExporter(pl2[s], r))
             /\ step # "exporter" => (ExporterOnce(pl[s], r) => ExporterOnce(pl2[s], r))
             /\ step = "exporter" => (NoExporter(pl[s], r) => ExporterOnce(pl2[s], r))
             /\ step = "defaults" => (Absent(pl[s], r) => DefaultsFirst(pl2[s], r))
  <2>1. pl2[s] = Append(pl[s], e) /\ pl[s] \in Seq(Entry)
    BY <1>1, <1>7, <1>8
  <2>. QED
    BY <1>2, <2>1, AppendOwn, AppendExporter, AppendDefaults
<1>9. Extends(objs, pl, pl2, r)
  BY <1>4, <1>5, <1>6 DEF Extends
<1>. QED
  BY <1>7, <1>8, <1>9 DEF pl2, step

LEMMA EntryType ==
  ASSUME NEW step \in {"defaults", "user", "exporter"}, NEW r \in Nat, NEW e, e = [step |-> step, by |-> r]
  PROVE  e \in Entry /\ e.step = step /\ e.by = r
  BY DEF Entry

\* While a callback of the innermost call runs, all calls are in their callbacks.
LEMMA AllInCallbacks ==
  ASSUME NEW objs, NEW st, Nesting(objs, st), Len(st) \in Nat, st # << >> => st[1].at = "callback"
  PROVE  \A i \in 1..Len(st) : st[i].at = "callback" /\ (st # << >> => objs[st[i].builder].root = st[i].builder)
<1>1. st # << >> => ~ChildOf(objs, st[1], st[2])
  BY DEF ChildOf
<1>2. ASSUME NEW i \in 1..Len(st), i # 1
      PROVE  st[i].at = "callback" /\ objs[st[i].builder].root = st[i].builder
  <2>1. i \in 2..Len(st) /\ st # << >>
    BY <1>2
  <2>. QED
    BY <1>1, <2>1 DEF Nesting
<1>3. ASSUME st # << >> PROVE objs[st[1].builder].root = st[1].builder
  BY <1>1, <1>3 DEF Nesting
<1>4. Len(st) # 0 => st # << >>
  OBVIOUS
<1>. QED
  BY <1>2, <1>3, <1>4

\* With a call under way the pipelines a builder is to guard are those it is for.
LEMMA GuardedIsScope ==
  ASSUME NEW objs, NEW tab, NEW reg, NEW pl, NEW st, NEW ref, Inv(objs, tab, reg, pl, st, ref),
         NEW i \in 1..Len(st)
  PROVE  Guarded(objs[st[i].builder].kind, reg) = Scope(objs[st[i].builder].kind, st[i].components)
<1>1. /\ st[i].components \in Settings /\ objs[st[i].builder].kind \in Signals \cup {"any"}
  BY StateTypes DEF Inv
<1>2. st[i].components.signals \subseteq Signals /\ st[i].components # Null
  BY <1>1, SettingsFields
<1>3. CASE objs[st[i].builder].kind = "any"
  <2>1. st[i].components = reg
    BY <1>3 DEF Inv, OneComponents
  <2>. QED
    BY <1>2, <1>3, <2>1 DEF Guarded, Scope
<1>4. CASE objs[st[i].builder].kind # "any"
  BY <1>1, <1>4 DEF Guarded, Scope
<1>. QED
  BY <1>3, <1>4

\* The facts every action of the innermost call needs.
LEMMA TopFacts ==
  ASSUME IInv, stack # << >>, NEW b1, b1 = stack[1].builder, NEW kind, kind = objects[b1].kind
  PROVE  /\ Top = stack[1] /\ TopObject = objects[b1]
         /\ Types(objects, table, registered, pipeline, stack, refused)
         /\ b1 \in 1..Len(objects) /\ objects[b1].root \in 1..Len(objects)
         /\ kind \in Signals \cup {"any"}
         /\ stack[1].components \in Settings
         /\ Guarded(kind, registered) = Scope(kind, stack[1].components)
         /\ Scope(kind, stack[1].components) \subseteq Signals
         /\ objects[b1].root # b1 => Len(stack) >= 2 /\ ChildOf(objects, stack[1], stack[2])
<1>1. Inv(objects, table, registered, pipeline, stack, refused)
  BY DEF IInv
<1>2. Types(objects, table, registered, pipeline, stack, refused)
  BY <1>1 DEF Inv
<1>3. /\ 1 \in 1..Len(stack) /\ b1 \in 1..Len(objects) /\ objects[b1].root \in 1..Len(objects)
      /\ kind \in Signals \cup {"any"} /\ stack[1].components \in Settings
  BY <1>2, StateTypes
<1>4. Top = stack[1] /\ TopObject = objects[b1]
  BY DEF Top, TopObject
<1>5. Guarded(kind, registered) = Scope(kind, stack[1].components)
  BY <1>1, <1>3, GuardedIsScope
<1>6. Scope(kind, stack[1].components) \subseteq Signals
  BY <1>3, ScopeInSignals
<1>. QED
  BY <1>1, <1>2, <1>3, <1>4, <1>5, <1>6 DEF Inv, Nesting

LEMMA AnyNotSignal == "any" \notin Signals
  BY SignalsAssumption

LEMMA SignalsConfiguredStep ==
  ASSUME IInv, SignalsConfigured PROVE IInv'
<1> DEFINE b1 == stack[1].builder
           f == stack[1]
           a == IF f.user THEN "callback" ELSE "store"
<1>1. stack # << >>
  BY DEF SignalsConfigured
<1>2. /\ Top = f /\ TopObject = objects[b1]
      /\ Types(objects, table, registered, pipeline, stack, refused)
      /\ b1 \in 1..Len(objects) /\ objects[b1].root \in 1..Len(objects) /\ f.components \in Settings
      /\ Scope(objects[b1].kind, f.components) \subseteq Signals
  BY <1>1, TopFacts
<1>3. /\ objects[b1].kind = "any" /\ f.at = "defaults" /\ f.todo = << >>
      /\ stack' = [stack EXCEPT ![1].at = a]
      /\ objects' = objects /\ table' = table /\ registered' = registered /\ pipeline' = pipeline /\ refused' = refused
  BY <1>2 DEF SignalsConfigured, Goto
<1>4. objects[b1].root = b1 /\ a \in Positions
  BY <1>2, <1>3 DEF Types, Positions
<1>5. /\ stack' # << >> /\ stack'[1].at = a /\ stack'[1].builder = b1 /\ stack'[1].components = f.components
      /\ stack'[1].user = f.user /\ stack'[1].todo = f.todo
  BY <1>1, <1>2, <1>3, <1>4, UpdateTop DEF Types
<1>6. Progress("any", table[b1], pipeline, f, {}, {})
  <2>1. ToSet(f.todo) = {}
    BY <1>3 DEF ToSet
  <2>. QED
    BY <1>1, <1>3, <1>4, <2>1 DEF IInv, Inv, InnermostInv
<1>7. table[b1] = Null /\ \A s \in Scope("any", f.components) : DefaultsFirst(pipeline[s], b1)
  BY <1>3, <1>6 DEF Progress
<1>8. InnermostInv(objects, table, pipeline, stack')
  <2>1. CASE f.user
    BY <1>4, <1>5, <2>1 DEF InnermostInv
  <2>2. CASE ~f.user
    <3>1. a = "store"
      BY <2>2
    <3> HIDE DEF a
    <3>2. ASSUME NEW s \in Signals
          PROVE  IF Want("any", f.components, s) THEN ExporterOnce(pipeline[s], b1) ELSE NoExporter(pipeline[s], b1)
      BY <1>3, <1>6, <1>7, <2>2, <3>2 DEF Progress
    <3>3. Progress("any", table[b1], pipeline, stack'[1], ToSet(stack'[1].todo), ToSet(stack'[1].todo))
      BY <1>5, <1>7, <3>1, <3>2 DEF Progress
    <3>. QED
      BY <1>3, <1>4, <1>5, <3>3 DEF InnermostInv
  <2>. QED
    BY <2>1, <2>2
<1>9. \A s \in Guarded(objects[b1].kind, registered) : Absent(pipeline[s], b1) \/ DefaultsFirst(pipeline[s], b1)
  BY <1>2, <1>4 DEF IInv, Inv, DefaultsInv
<1>10. Extends(objects, pipeline, pipeline, b1)
  BY <1>2, ExtendsSame
<1>11. a = "callback" => /\ Exported("any", table[b1], pipeline, b1)
                         /\ \A s \in Scope("any", f.components) : DefaultsFirst(pipeline[s], b1)
  <2>1. a = "callback" => f.user
    OBVIOUS
  <2>2. f.user => \A s \in Signals : NoExporter(pipeline[s], b1)
    BY <1>3, <1>6, <1>7 DEF Progress
  <2>. QED
    BY <1>7, <2>1, <2>2 DEF Exported
<1> HIDE DEF a
<1>13. Advances(objects, table, registered, pipeline, stack, a, pipeline, stack')
  BY <1>1, <1>3, <1>4, <1>8, <1>9, <1>10, <1>11 DEF Advances
<1>12. Inv(objects, table, registered, pipeline, stack', refused)
  BY <1>1, <1>13, AdvanceInv DEF IInv
<1>. QED
  BY <1>3, <1>12 DEF IInv

LEMMA HandleOtlpExporterStep ==
  ASSUME IInv, HandleOtlpExporter PROVE IInv'
<1> DEFINE b1 == stack[1].builder
           f == stack[1]
           ss == IF f.components.skip THEN {} ELSE f.components.signals
           e == [step |-> "exporter", by |-> b1]
<1>1. stack # << >>
  BY DEF HandleOtlpExporter
<1>2. /\ Top = f /\ TopObject = objects[b1]
      /\ Types(objects, table, registered, pipeline, stack, refused)
      /\ b1 \in 1..Len(objects) /\ objects[b1].root \in 1..Len(objects) /\ f.components \in Settings
      /\ Scope(objects[b1].kind, f.components) \subseteq Signals
      /\ Guarded(objects[b1].kind, registered) = Scope(objects[b1].kind, f.components)
  BY <1>1, TopFacts
<1>3. /\ objects[b1].kind = "any" /\ f.at = "export" /\ stack' = [stack EXCEPT ![1].at = "store"]
      /\ objects' = objects /\ table' = table /\ registered' = registered /\ refused' = refused
  BY <1>2 DEF HandleOtlpExporter, Goto
<1>4. objects[b1].root = b1 /\ "store" \in Positions
  BY <1>2, <1>3 DEF Types, Positions
<1>5. pipeline' = AddTo(pipeline, ss, e)
  BY <1>2, <1>4 DEF HandleOtlpExporter, Add, AddTo
<1>6. /\ stack' # << >> /\ stack'[1].at = "store" /\ stack'[1].builder = b1 /\ stack'[1].components = f.components
      /\ stack'[1].todo = f.todo
  BY <1>1, <1>2, <1>3, <1>4, UpdateTop DEF Types
<1>7. Progress("any", table[b1], pipeline, f, ToSet(f.todo), ToSet(f.todo))
  BY <1>1, <1>3, <1>4 DEF IInv, Inv, InnermostInv
<1>8. ss \subseteq Signals
  BY <1>2, SettingsFields
<1>9. /\ \A s : s \in ss <=> Want("any", f.components, s)
  BY DEF Want, Scope
<1>15. e \in Entry /\ e.step = "exporter" /\ e.by = b1
  BY <1>2, EntryType DEF Types
<1> HIDE DEF ss, e
<1>10. /\ Extends(objects, pipeline, pipeline', b1)
       /\ \A s \in Signals : s \notin ss => pipeline'[s] = pipeline[s]
       /\ \A s \in Signals : s \in ss => (NoExporter(pipeline[s], b1) => ExporterOnce(pipeline'[s], b1))
  BY <1>2, <1>5, <1>15, AddFacts
<1>11. \A s \in Scope("any", f.components) : DefaultsFirst(pipeline'[s], b1)
  BY <1>2, <1>3, <1>7, <1>10 DEF Progress, Extends
<1>12. Progress("any", table[b1], pipeline', stack'[1], ToSet(stack'[1].todo), ToSet(stack'[1].todo))
  <2>1. ASSUME table[b1] = Null, NEW s \in Signals
        PROVE  IF Want("any", f.components, s)
               THEN ExporterOnce(pipeline'[s], b1) ELSE NoExporter(pipeline'[s], b1)
    <3>1. NoExporter(pipeline[s], b1)
      BY <1>3, <1>7, <2>1 DEF Progress
    <3>. QED
      BY <1>9, <1>10, <2>1, <3>1
  <2>. QED
    BY <1>6, <1>11, <2>1 DEF Progress
<1>13. InnermostInv(objects, table, pipeline', stack')
  BY <1>3, <1>4, <1>6, <1>12 DEF InnermostInv
<1>16. \A s \in Guarded(objects[b1].kind, registered) : Absent(pipeline'[s], b1) \/ DefaultsFirst(pipeline'[s], b1)
  BY <1>2, <1>3, <1>11
<1>17. Advances(objects, table, registered, pipeline, stack, "store", pipeline', stack')
  BY <1>1, <1>3, <1>4, <1>10, <1>13, <1>16 DEF Advances
<1>14. Inv(objects, table, registered, pipeline', stack', refused)
  BY <1>1, <1>17, AdvanceInv DEF IInv
<1>. QED
  BY <1>3, <1>14 DEF IInv

\* The defaults of a signal, on a builder of the application or for a builder of all.
LEMMA ConfigureSignalStep ==
  ASSUME IInv, ConfigureSignal PROVE IInv'
<1> DEFINE b1 == stack[1].builder
           f == stack[1]
           r == objects[b1].root
           kind == objects[b1].kind
           a == IF f.user THEN "callback" ELSE "export"
           e == [step |-> "defaults", by |-> r]
<1>1. stack # << >>
  BY DEF ConfigureSignal
<1>2. /\ Top = f /\ TopObject = objects[b1]
      /\ Types(objects, table, registered, pipeline, stack, refused)
      /\ b1 \in 1..Len(objects) /\ r \in 1..Len(objects) /\ f.components \in Settings
      /\ kind \in Signals \cup {"any"}
      /\ Guarded(kind, registered) = Scope(kind, f.components)
      /\ r # b1 => Len(stack) >= 2 /\ ChildOf(objects, stack[1], stack[2])
  BY <1>1, TopFacts
<1>3. /\ kind # "any" /\ f.at = "defaults" /\ stack' = [stack EXCEPT ![1].at = a]
      /\ objects' = objects /\ table' = table /\ registered' = registered /\ refused' = refused
  BY <1>2 DEF ConfigureSignal, Goto
<1>4. pipeline' = AddTo(pipeline, {kind}, e)
  BY <1>2 DEF ConfigureSignal, Add, AddTo
<1>5. a \in Positions /\ a \in {"callback", "export"} /\ (~f.user => a = "export")
  BY DEF Positions
<1> HIDE DEF a
<1>6. /\ stack' # << >> /\ stack'[1].at = a /\ stack'[1].builder = b1 /\ stack'[1].components = f.components
      /\ stack'[1].todo = f.todo /\ \A i \in 2..Len(stack) : stack'[i] = stack[i]
  BY <1>1, <1>2, <1>3, <1>5, UpdateTop DEF Types
<1>7. kind \in Signals
  BY <1>2, <1>3
<1>12. e \in Entry /\ e.step = "defaults" /\ e.by = r
  BY <1>2, EntryType DEF Types
<1> HIDE DEF kind, r, e
<1>8. /\ Extends(objects, pipeline, pipeline', r)
      /\ \A s \in Signals : s # kind => pipeline'[s] = pipeline[s]
      /\ NoExporter(pipeline[kind], r) => NoExporter(pipeline'[kind], r)
      /\ Absent(pipeline[kind], r) => DefaultsFirst(pipeline'[kind], r)
  <2>1. /\ Extends(objects, pipeline, pipeline', r)
        /\ \A s \in Signals : s \notin {kind} => pipeline'[s] = pipeline[s]
        /\ \A s \in Signals : s \in {kind} =>
             /\ NoExporter(pipeline[s], r) => NoExporter(pipeline'[s], r)
             /\ Absent(pipeline[s], r) => DefaultsFirst(pipeline'[s], r)
    <3>1. e.step # "exporter"
      BY <1>12
    <3>. QED
      BY <1>2, <1>4, <1>12, <3>1, AddFacts
  <2>. QED
    BY <1>7, <2>1
<1>11. \A b \in 1..Len(objects), s \in Signals : DefaultsFirst(pipeline[s], b) => DefaultsFirst(pipeline'[s], b)
  BY <1>8 DEF Extends
<1>9. /\ InnermostInv(objects, table, pipeline', stack')
      /\ \A s \in Guarded(objects[r].kind, registered) : Absent(pipeline'[s], r) \/ DefaultsFirst(pipeline'[s], r)
      /\ r # b1 => a = "export"
      /\ r = b1 => /\ table[b1] = Null /\ \A s \in Signals : NoExporter(pipeline'[s], b1)
                   /\ \A s \in Scope(kind, f.components) : DefaultsFirst(pipeline'[s], b1)
  <2>1. ASSUME NEW s \in Guarded(objects[r].kind, registered)
        PROVE  Absent(pipeline[s], r) \/ DefaultsFirst(pipeline[s], r)
    <3>1. objects[r].root = r
      BY <1>2, <1>3 DEF r, ChildOf
    <3>. QED
      BY <1>2, <2>1, <3>1 DEF IInv, Inv, DefaultsInv
  <2>2. kind \in Guarded(objects[r].kind, registered) => DefaultsFirst(pipeline'[kind], r)
    BY <1>2, <1>7, <1>8, <1>11, <2>1
  <2>3. ASSUME NEW s \in Guarded(objects[r].kind, registered)
        PROVE  Absent(pipeline'[s], r) \/ DefaultsFirst(pipeline'[s], r)
    <3>1. CASE s = kind
      BY <2>2, <2>3, <3>1
    <3>2. CASE s # kind
      BY <1>8, <2>1, <2>3, <3>2 DEF Guarded
    <3>. QED
      BY <3>1, <3>2
  <2>4. CASE r = b1
    <3>1. Progress(kind, table[b1], pipeline, f, ToSet(f.todo), ToSet(f.todo))
      BY <1>1, <1>3, <2>4 DEF IInv, Inv, InnermostInv, r, kind
    <3>2. table[b1] = Null /\ \A s \in Signals : NoExporter(pipeline[s], b1)
      BY <1>3, <3>1 DEF Progress
    <3>3. \A s \in Signals : NoExporter(pipeline'[s], b1)
      BY <1>8, <2>4, <3>2
    <3>4. \A s \in Scope(kind, f.components) : DefaultsFirst(pipeline'[s], b1)
      <4>1. kind \in Guarded(objects[r].kind, registered)
        BY <1>2, <1>3, <1>7, <2>4 DEF Guarded, kind
      <4>. QED
        BY <1>3, <2>2, <2>4, <4>1 DEF Scope
    <3>5. a = "export" => Progress(kind, table[b1], pipeline', stack'[1], ToSet(stack'[1].todo), ToSet(stack'[1].todo))
      BY <1>6, <3>2, <3>3, <3>4 DEF Progress
    <3>6. InnermostInv(objects, table, pipeline', stack')
      BY <1>5, <1>6, <2>4, <3>5 DEF InnermostInv, r, kind
    <3>. QED
      BY <2>3, <2>4, <3>2, <3>3, <3>4, <3>6
  <2>5. CASE r # b1
    <3> DEFINE g == stack[2]
    <3>1. Len(stack) >= 2 /\ ChildOf(objects, f, g)
      BY <1>2, <2>5
    <3>2. /\ r = g.builder /\ kind \in g.components.signals /\ kind \notin ToSet(g.todo)
          /\ f.user = FALSE /\ g.at = "defaults" /\ objects[g.builder].kind = "any"
      BY <3>1 DEF ChildOf, r, kind
    <3>3. stack'[2] = g /\ 2 \in 1..Len(stack)
      BY <1>2, <1>6, <3>1, StateTypes
    <3>4. a = "export"
      BY <1>5, <3>2
    <3>5. Progress("any", table[r], pipeline, g, ToSet(g.todo) \cup {kind}, ToSet(g.todo) \cup {kind})
      <4>1. UntilExport(objects, f) = {kind} /\ UntilDefaults(objects, f) = {kind}
        BY <1>3 DEF UntilExport, UntilDefaults, kind
      <4>. QED
        BY <1>1, <2>5, <3>2, <4>1 DEF IInv, Inv, InnermostInv, r
    <3>6. UntilExport(objects, stack'[1]) = {kind} /\ UntilDefaults(objects, stack'[1]) = {}
      BY <1>6, <3>4 DEF UntilExport, UntilDefaults, kind
    <3>7. Guarded("any", registered) = Scope("any", g.components)
      BY <3>2, <3>3, GuardedIsScope DEF IInv
    <3>8. DefaultsFirst(pipeline'[kind], r)
      BY <2>2, <3>2, <3>7 DEF Scope
    <3> HIDE DEF g
    <3>9. table[r] = Null
      BY <3>2, <3>5 DEF Progress
    <3>10. ASSUME NEW s \in Signals
           PROVE  IF Want("any", g.components, s) /\ ~g.user /\ s \notin ToSet(g.todo) \cup {kind}
                  THEN ExporterOnce(pipeline'[s], r) ELSE NoExporter(pipeline'[s], r)
      <4>1. IF Want("any", g.components, s) /\ ~g.user /\ s \notin ToSet(g.todo) \cup {kind}
            THEN ExporterOnce(pipeline[s], r) ELSE NoExporter(pipeline[s], r)
        BY <3>2, <3>5, <3>9, <3>10 DEF Progress
      <4>2. CASE s = kind
        BY <1>8, <4>1, <4>2
      <4>3. CASE s # kind
        BY <1>8, <4>1, <4>3
      <4>. QED
        BY <4>2, <4>3
    <3>11. ASSUME NEW s \in Scope("any", g.components), s \notin ToSet(g.todo)
           PROVE  DefaultsFirst(pipeline'[s], r)
      <4>1. CASE s = kind
        BY <3>8, <4>1
      <4>2. CASE s # kind
        <5>1. DefaultsFirst(pipeline[s], r)
          BY <3>2, <3>5, <3>11, <4>2 DEF Progress
        <5>2. s \in Signals
          BY <3>7, <3>11 DEF Guarded
        <5>. QED
          BY <1>2, <1>11, <5>1, <5>2
      <4>. QED
        BY <4>1, <4>2
    <3>12. Progress("any", table[r], pipeline', g, ToSet(g.todo) \cup {kind}, ToSet(g.todo) \cup {})
      BY <3>2, <3>9, <3>10, <3>11 DEF Progress
    <3>13. InnermostInv(objects, table, pipeline', stack')
      BY <1>6, <2>5, <3>2, <3>3, <3>6, <3>12 DEF InnermostInv, r
    <3>. QED
      BY <2>3, <2>5, <3>4, <3>13
  <2>. QED
    BY <2>4, <2>5
<1>10. Inv(objects, table, registered, pipeline', stack', refused)
  <2>1. r # b1 => a \in {"defaults", "export", "store"}
    BY <1>9
  <2>3. a = "callback" => /\ Exported(kind, table[b1], pipeline', b1)
                          /\ \A s \in Scope(kind, f.components) : DefaultsFirst(pipeline'[s], b1)
    BY <1>9 DEF Exported
  <2>2. Advances(objects, table, registered, pipeline, stack, a, pipeline', stack')
    BY <1>3, <1>5, <1>8, <1>9, <2>1, <2>3 DEF Advances, r, kind
  <2>. QED
    BY <1>1, <2>2, AdvanceInv DEF IInv
<1>. QED
  BY <1>3, <1>10 DEF IInv

\* The exporter of a signal, on a builder of the application or for a builder of all.
LEMMA AddOtlpExporterStep ==
  ASSUME IInv, AddOtlpExporter PROVE IInv'
<1> DEFINE b1 == stack[1].builder
           f == stack[1]
           r == objects[b1].root
           kind == objects[b1].kind
           ss == IF f.defer \/ f.components.skip THEN {} ELSE {kind}
           e == [step |-> "exporter", by |-> r]
<1>1. stack # << >>
  BY DEF AddOtlpExporter
<1>2. /\ Top = f /\ TopObject = objects[b1]
      /\ Types(objects, table, registered, pipeline, stack, refused)
      /\ b1 \in 1..Len(objects) /\ r \in 1..Len(objects) /\ f.components \in Settings
      /\ kind \in Signals \cup {"any"}
      /\ Guarded(kind, registered) = Scope(kind, f.components)
      /\ r # b1 => Len(stack) >= 2 /\ ChildOf(objects, stack[1], stack[2])
  BY <1>1, TopFacts
<1>3. /\ kind # "any" /\ f.at = "export" /\ stack' = [stack EXCEPT ![1].at = "store"]
      /\ objects' = objects /\ table' = table /\ registered' = registered /\ refused' = refused
  BY <1>2 DEF AddOtlpExporter, Goto
<1>4. pipeline' = AddTo(pipeline, ss, e)
  BY <1>2 DEF AddOtlpExporter, Add, AddTo
<1>5. "store" \in Positions
  BY DEF Positions
<1>6. /\ stack' # << >> /\ stack'[1].at = "store" /\ stack'[1].builder = b1
      /\ stack'[1].components = f.components
      /\ stack'[1].todo = f.todo /\ \A i \in 2..Len(stack) : stack'[i] = stack[i]
  BY <1>1, <1>2, <1>3, <1>5, UpdateTop DEF Types
<1>7. kind \in Signals /\ \A s : s \in ss <=> s = kind /\ ~f.defer /\ ~f.components.skip
  BY <1>2, <1>3
<1>8. e \in Entry /\ e.step = "exporter" /\ e.by = r
  BY <1>2, EntryType DEF Types
<1> HIDE DEF kind, r, e, ss
<1>9. /\ Extends(objects, pipeline, pipeline', r)
      /\ \A s \in Signals : s \notin ss => pipeline'[s] = pipeline[s]
      /\ \A s \in Signals : s \in ss => (NoExporter(pipeline[s], r) => ExporterOnce(pipeline'[s], r))
  BY <1>2, <1>4, <1>7, <1>8, AddFacts
<1>10. \A b \in 1..Len(objects), s \in Signals : DefaultsFirst(pipeline[s], b) => DefaultsFirst(pipeline'[s], b)
  BY <1>9 DEF Extends
<1>11. \A s \in Guarded(objects[r].kind, registered) : Absent(pipeline[s], r) \/ DefaultsFirst(pipeline[s], r)
  <2>1. objects[r].root = r
    BY <1>2 DEF r, ChildOf
  <2>. QED
    BY <1>2, <2>1 DEF IInv, Inv, DefaultsInv
\* It is enough that the defaults are there already.
<1>12. ASSUME DefaultsFirst(pipeline[kind], r)
       PROVE  \A s \in Guarded(objects[r].kind, registered) : Absent(pipeline'[s], r) \/ DefaultsFirst(pipeline'[s], r)
  <2>1. DefaultsFirst(pipeline'[kind], r)
    BY <1>2, <1>7, <1>10, <1>12
  <2>2. ASSUME NEW s \in Guarded(objects[r].kind, registered), s # kind
        PROVE  pipeline'[s] = pipeline[s]
    BY <1>7, <1>9, <2>2 DEF Guarded
  <2>. QED
    BY <1>11, <2>1, <2>2
<1>13. CASE r = b1
  <2>1. Progress(kind, table[b1], pipeline, f, ToSet(f.todo), ToSet(f.todo))
    BY <1>1, <1>3, <1>13 DEF IInv, Inv, InnermostInv, r, kind
  <2>2. f.defer = FALSE
    <3>1. 1 \in 1..Len(stack)
      BY <1>1, <1>2, StateTypes
    <3>. QED
      BY <1>13, <3>1 DEF IInv, Inv, Nesting, r
  <2>3. DefaultsFirst(pipeline[kind], r)
    BY <1>3, <1>13, <2>1 DEF Progress, Scope
  <2>4. ASSUME table[b1] = Null, NEW s \in Signals
        PROVE  IF Want(kind, f.components, s) THEN ExporterOnce(pipeline'[s], b1) ELSE NoExporter(pipeline'[s], b1)
    <3>1. NoExporter(pipeline[s], b1)
      BY <1>3, <2>1, <2>4 DEF Progress
    <3>2. Want(kind, f.components, s) <=> s \in ss
      BY <1>3, <1>7, <2>2 DEF Want, Scope
    <3>. QED
      BY <1>9, <1>13, <2>4, <3>1, <3>2
  <2>5. \A s \in Scope(kind, f.components) : DefaultsFirst(pipeline'[s], b1)
    BY <1>2, <1>3, <1>7, <1>10, <1>13, <2>3 DEF Scope
  <2>6. Progress(kind, table[b1], pipeline', stack'[1], ToSet(stack'[1].todo), ToSet(stack'[1].todo))
    BY <1>6, <2>4, <2>5 DEF Progress
  <2>7. InnermostInv(objects, table, pipeline', stack')
    BY <1>6, <1>13, <2>6 DEF InnermostInv, r, kind
  <2>8. \A s \in Guarded(objects[r].kind, registered) : Absent(pipeline'[s], r) \/ DefaultsFirst(pipeline'[s], r)
    BY <1>12, <2>3
  <2>10. Advances(objects, table, registered, pipeline, stack, "store", pipeline', stack')
    BY <1>1, <1>3, <1>5, <1>9, <2>7, <2>8 DEF Advances, r
  <2>9. Inv(objects, table, registered, pipeline', stack', refused)
    BY <1>1, <2>10, AdvanceInv DEF IInv
  <2>. QED
    BY <1>3, <2>9 DEF IInv
<1>14. CASE r # b1
  <2> DEFINE g == stack[2]
  <2>1. Len(stack) >= 2 /\ ChildOf(objects, f, g)
    BY <1>2, <1>14
  <2>2. /\ r = g.builder /\ kind \in g.components.signals /\ kind \notin ToSet(g.todo)
        /\ f.components = g.components /\ f.defer = g.user
        /\ g.at = "defaults" /\ objects[g.builder].kind = "any"
    BY <2>1 DEF ChildOf, r, kind
  <2>3. stack'[2] = g /\ 2 \in 1..Len(stack)
    BY <1>2, <1>6, <2>1, StateTypes
  <2>4. Progress("any", table[r], pipeline, g, ToSet(g.todo) \cup {kind}, ToSet(g.todo) \cup {})
    <3>1. UntilExport(objects, f) = {kind} /\ UntilDefaults(objects, f) = {}
      BY <1>3 DEF UntilExport, UntilDefaults, kind
    <3>. QED
      BY <1>1, <1>14, <2>2, <3>1 DEF IInv, Inv, InnermostInv, r
  <2>5. UntilExport(objects, stack'[1]) = {} /\ UntilDefaults(objects, stack'[1]) = {}
    BY <1>6 DEF UntilExport, UntilDefaults
  <2>6. g.components \in Settings
    BY <1>2, <2>2
  <2> HIDE DEF g
  <2>7. table[r] = Null
    BY <2>2, <2>4 DEF Progress
  <2>8. DefaultsFirst(pipeline[kind], r)
    BY <2>2, <2>4 DEF Progress, Scope
  <2>9. ASSUME NEW s \in Signals
        PROVE  IF Want("any", g.components, s) /\ ~g.user /\ s \notin ToSet(g.todo) \cup {}
               THEN ExporterOnce(pipeline'[s], r) ELSE NoExporter(pipeline'[s], r)
    <3>1. IF Want("any", g.components, s) /\ ~g.user /\ s \notin ToSet(g.todo) \cup {kind}
          THEN ExporterOnce(pipeline[s], r) ELSE NoExporter(pipeline[s], r)
      BY <2>2, <2>4, <2>7, <2>9 DEF Progress
    <3>2. CASE s = kind
      <4>1. NoExporter(pipeline[s], r)
        BY <3>1, <3>2
      <4>2. Want("any", g.components, s) /\ ~g.user <=> s \in ss
        BY <1>7, <2>2, <3>2 DEF Want, Scope
      <4>. QED
        BY <1>9, <2>2, <2>9, <3>2, <4>1, <4>2
    <3>3. CASE s # kind
      BY <1>7, <1>9, <3>1, <3>3
    <3>. QED
      BY <3>2, <3>3
  <2>10. ASSUME NEW s \in Scope("any", g.components), s \notin ToSet(g.todo) \cup {}
         PROVE  DefaultsFirst(pipeline'[s], r)
    <3>1. DefaultsFirst(pipeline[s], r)
      BY <2>2, <2>4, <2>10 DEF Progress
    <3>2. s \in Signals
      BY <2>6, <2>10, ScopeInSignals
    <3>. QED
      BY <1>2, <1>10, <3>1, <3>2
  <2>11. Progress("any", table[r], pipeline', g, ToSet(g.todo) \cup {}, ToSet(g.todo) \cup {})
    BY <2>2, <2>7, <2>9, <2>10 DEF Progress
  <2>12. InnermostInv(objects, table, pipeline', stack')
    BY <1>6, <1>14, <2>2, <2>3, <2>5, <2>11 DEF InnermostInv, r
  <2>13. \A s \in Guarded(objects[r].kind, registered) : Absent(pipeline'[s], r) \/ DefaultsFirst(pipeline'[s], r)
    BY <1>12, <2>8
  <2>15. Advances(objects, table, registered, pipeline, stack, "store", pipeline', stack')
    BY <1>1, <1>3, <1>5, <1>9, <2>12, <2>13 DEF Advances, r
  <2>14. Inv(objects, table, registered, pipeline', stack', refused)
    BY <1>1, <2>15, AdvanceInv DEF IInv
  <2>. QED
    BY <1>3, <2>14 DEF IInv
<1>. QED
  BY <1>13, <1>14

\* All calls are in their callbacks, so what is added goes behind the defaults of its
\* builder, and is no exporter.
LEMMA RunCallbackStep ==
  ASSUME IInv, RunCallback PROVE IInv'
<1>1. stack # << >> /\ stack[1].at = "callback"
  BY DEF RunCallback, UserRuns, Top
<1>2. /\ Types(objects, table, registered, pipeline, stack, refused)
      /\ Nesting(objects, stack) /\ OneComponents(objects, table, registered, stack)
      /\ IdleInv(objects, table, pipeline, stack, refused) /\ DefaultsInv(objects, table, registered, pipeline, stack)
  BY DEF IInv, Inv
<1>3. \A i \in 1..Len(stack) : stack[i].at = "callback" /\ objects[stack[i].builder].root = stack[i].builder
  BY <1>1, <1>2, AllInCallbacks DEF Types
<1>4. PICK i0 \in 1..Len(stack), s0 \in Signals :
        LET b == stack[i0].builder IN
        /\ objects[b].kind \in {s0, "any"}
        /\ pipeline' = [pipeline EXCEPT ![s0] = Append(@, [step |-> "user", by |-> objects[b].root])]
  BY DEF RunCallback
<1> DEFINE r == stack[i0].builder
           e == [step |-> "user", by |-> r]
<1>5. UNCHANGED <<objects, table, registered, stack, refused>>
  BY DEF RunCallback
<1>6. r \in 1..Len(objects) /\ objects[r].root = r /\ stack[i0].components \in Settings
  BY <1>2, <1>3, StateTypes
<1>7. e \in Entry /\ e.step = "user" /\ e.by = r
  BY <1>2, <1>6, EntryType DEF Types
<1>8. pipeline' = AddTo(pipeline, {s0}, e)
  <2>1. pipeline = [s \in Signals |-> pipeline[s]]
    BY <1>2 DEF Types
  <2>. QED
    BY <1>4, <1>6, <2>1 DEF AddTo
<1> HIDE DEF e
<1>9. /\ Extends(objects, pipeline, pipeline', r)
      /\ \A s \in Signals : /\ NoExporter(pipeline[s], r) => NoExporter(pipeline'[s], r)
                            /\ ExporterOnce(pipeline[s], r) => ExporterOnce(pipeline'[s], r)
      /\ \A s \in Signals : s # s0 => pipeline'[s] = pipeline[s]
  <2>1. /\ Extends(objects, pipeline, pipeline', r)
        /\ \A s \in Signals : s \notin {s0} => pipeline'[s] = pipeline[s]
        /\ \A s \in Signals : s \in {s0} =>
             /\ NoExporter(pipeline[s], r) => NoExporter(pipeline'[s], r)
             /\ ExporterOnce(pipeline[s], r) => ExporterOnce(pipeline'[s], r)
    <3>1. e.step # "exporter"
      BY <1>7
    <3>. QED
      BY <1>2, <1>6, <1>7, <1>8, <3>1, AddFacts
  <2>2. ASSUME NEW s \in Signals
        PROVE  /\ NoExporter(pipeline[s], r) => NoExporter(pipeline'[s], r)
               /\ ExporterOnce(pipeline[s], r) => ExporterOnce(pipeline'[s], r)
    BY <2>1, <2>2
  <2>. QED
    BY <2>1, <2>2
<1>10. \A b \in 1..Len(objects), s \in Signals : DefaultsFirst(pipeline[s], b) => DefaultsFirst(pipeline'[s], b)
  BY <1>9 DEF Extends
<1>11. Types(objects, table, registered, pipeline', stack, refused)
  BY <1>2, <1>9 DEF Types, Extends
<1>12. InnermostInv(objects, table, pipeline', stack)
  BY <1>1, <1>2, <1>3, StateTypes DEF InnermostInv
<1>13. IdleInv(objects, table, pipeline', stack, refused)
  <2>1. SUFFICES ASSUME NEW b \in 1..Len(objects), b \notin refused, objects[b].root = b, ~Busy(stack, b)
                 PROVE  Exported(objects[b].kind, table[b], pipeline', b)
    BY DEF IdleInv
  <2>2. Exported(objects[b].kind, table[b], pipeline, b)
    BY <1>2, <2>1 DEF IdleInv
  <2>3. CASE b = r
    BY <1>9, <2>2, <2>3 DEF Exported
  <2>4. CASE b # r
    BY <1>9, <2>2, <2>4, ExportedKept DEF Extends
  <2>. QED
    BY <2>3, <2>4
<1>14. DefaultsInv(objects, table, registered, pipeline', stack)
  <2>1. ASSUME NEW i \in 1..Len(stack), NEW s \in Scope(objects[stack[i].builder].kind, stack[i].components)
        PROVE  DefaultsFirst(pipeline'[s], stack[i].builder)
    <3>1. /\ stack[i].builder \in 1..Len(objects) /\ stack[i].components \in Settings
          /\ objects[stack[i].builder].kind \in Signals \cup {"any"}
      BY <1>2, StateTypes
    <3>2. s \in Signals
      BY <2>1, <3>1, ScopeInSignals
    <3>3. DefaultsFirst(pipeline[s], stack[i].builder)
      BY <1>2, <1>3, <2>1 DEF DefaultsInv
    <3>. QED
      BY <1>10, <3>1, <3>2, <3>3
  <2>2. ASSUME NEW b \in 1..Len(objects), objects[b].root = b, table[b] # Null,
               NEW s \in Scope(objects[b].kind, table[b])
        PROVE  DefaultsFirst(pipeline'[s], b)
    <3>1. objects[b].kind \in Signals \cup {"any"} /\ table[b] \in Settings
      BY <1>2, <2>2, StateTypes
    <3>2. s \in Signals
      BY <2>2, <3>1, ScopeInSignals
    <3>3. DefaultsFirst(pipeline[s], b)
      BY <1>2, <2>2 DEF DefaultsInv
    <3>. QED
      BY <1>10, <3>2, <3>3
  <2>3. ASSUME NEW b \in 1..Len(objects), objects[b].root = b, NEW s \in Guarded(objects[b].kind, registered)
        PROVE  Absent(pipeline'[s], b) \/ DefaultsFirst(pipeline'[s], b)
    <3>1. s \in Signals
      BY <2>3 DEF Guarded
    <3>2. Absent(pipeline[s], b) \/ DefaultsFirst(pipeline[s], b)
      BY <1>2, <2>3 DEF DefaultsInv
    <3>3. CASE b = r
      <4>1. Guarded(objects[r].kind, registered) = Scope(objects[r].kind, stack[i0].components)
        BY GuardedIsScope DEF IInv
      <4>. QED
        BY <2>1, <2>3, <3>3, <4>1
    <3>4. CASE b # r
      BY <1>9, <1>10, <3>1, <3>2, <3>4 DEF Extends, Kept
    <3>. QED
      BY <3>3, <3>4
  <2>. QED
    BY <2>1, <2>2, <2>3 DEF DefaultsInv
<1>15. Inv(objects, table, registered, pipeline', stack, refused)
  BY <1>2, <1>11, <1>12, <1>13, <1>14 DEF Inv
<1>. QED
  BY <1>5, <1>15 DEF IInv

LEMMA CallbackReturnsStep ==
  ASSUME IInv, CallbackReturns PROVE IInv'
<1> DEFINE b1 == stack[1].builder
           f == stack[1]
           kind == objects[b1].kind
<1>1. stack # << >>
  BY DEF CallbackReturns
<1>2. /\ Top = f
      /\ Types(objects, table, registered, pipeline, stack, refused)
      /\ b1 \in 1..Len(objects)
      /\ objects[b1].root # b1 => Len(stack) >= 2 /\ ChildOf(objects, stack[1], stack[2])
  BY <1>1, TopFacts
<1>3. /\ f.at = "callback" /\ stack' = [stack EXCEPT ![1].at = "export"]
      /\ objects' = objects /\ table' = table /\ registered' = registered /\ refused' = refused
      /\ pipeline' = pipeline
  BY <1>2 DEF CallbackReturns, Goto
<1>4. objects[b1].root = b1 /\ "export" \in Positions
  BY <1>2, <1>3 DEF ChildOf, Positions
<1>5. /\ stack' # << >> /\ stack'[1].at = "export" /\ stack'[1].builder = b1
      /\ stack'[1].components = f.components
  BY <1>1, <1>2, <1>3, <1>4, UpdateTop DEF Types
<1>6. 1 \in 1..Len(stack) /\ Len(stack) \in Nat
  BY <1>1, <1>2, StateTypes
<1>7. ~Busy(stack, b1)
  <2>1. \A i \in 1..Len(stack) : stack[i].at = "callback"
    BY <1>3, <1>6, AllInCallbacks DEF IInv, Inv
  <2>. QED
    BY <2>1 DEF Busy
<1>8. table[b1] = Null => \A s \in Signals : NoExporter(pipeline[s], b1)
  <2>1. table[b1] = Null => b1 \notin refused
    BY <1>2 DEF Types
  <2>. QED
    BY <1>2, <1>4, <1>7, <2>1 DEF IInv, Inv, IdleInv, Exported
<1>9. \A s \in Scope(kind, f.components) : DefaultsFirst(pipeline[s], b1)
  BY <1>3, <1>4, <1>6 DEF IInv, Inv, DefaultsInv
<1>10. Progress(kind, table[b1], pipeline, stack'[1], ToSet(stack'[1].todo), ToSet(stack'[1].todo))
  BY <1>5, <1>8, <1>9 DEF Progress
<1>11. InnermostInv(objects, table, pipeline, stack')
  BY <1>4, <1>5, <1>10 DEF InnermostInv
<1>12. \A s \in Guarded(kind, registered) : Absent(pipeline[s], b1) \/ DefaultsFirst(pipeline[s], b1)
  BY <1>2, <1>4 DEF IInv, Inv, DefaultsInv
<1>13. Extends(objects, pipeline, pipeline, b1)
  BY <1>2, ExtendsSame
<1>15. Advances(objects, table, registered, pipeline, stack, "export", pipeline, stack')
  BY <1>1, <1>3, <1>4, <1>11, <1>12, <1>13 DEF Advances
<1>14. Inv(objects, table, registered, pipeline, stack', refused)
  BY <1>1, <1>15, AdvanceInv DEF IInv
<1>. QED
  BY <1>3, <1>14 DEF IInv


-----------------------------------------------------------------------------
(* Calls begin *)

LEMMA Pushed ==
  ASSUME NEW st \in Seq(Frames), NEW f \in Frames, NEW st2, st2 = <<f>> \o st
  PROVE  /\ st2 \in Seq(Frames) /\ Len(st2) = Len(st) + 1 /\ st2 # << >> /\ st2[1] = f
         /\ \A i \in 1..Len(st2) : i # 1 => i - 1 \in 1..Len(st) /\ st2[i] = st[i - 1]
         /\ \A i \in 1..Len(st) : i + 1 \in 1..Len(st2) /\ st2[i + 1] = st[i]
<1>1. <<f>> \in Seq(Frames) /\ Len(<<f>>) = 1 /\ <<f>>[1] = f /\ Len(st) \in Nat
  OBVIOUS
<1>2. /\ st2 \in Seq(Frames) /\ Len(st2) = 1 + Len(st)
      /\ \A i \in 1..Len(st2) : st2[i] = IF i <= 1 THEN <<f>>[i] ELSE st[i - 1]
  BY <1>1, ConcatProperties
<1>. QED
  BY <1>1, <1>2

LEMMA PushTypes ==
  ASSUME NEW objs, NEW tab, NEW reg, NEW pl, NEW st, NEW ref, Types(objs, tab, reg, pl, st, ref),
         NEW reg2 \in Settings \cup {Null}, NEW f \in Frames, f.builder \in 1..Len(objs), IsInjective(f.todo),
         NEW st2, st2 = <<f>> \o st
  PROVE  Types(objs, tab, reg2, pl, st2, ref)
<1>1. st \in Seq(Frames) /\ Len(st) \in Nat
  BY DEF Types
<1>2. /\ st2 \in Seq(Frames) /\ st2[1] = f
      /\ \A i \in 1..Len(st2) : i # 1 => i - 1 \in 1..Len(st) /\ st2[i] = st[i - 1]
  BY <1>1, Pushed
<1>3. \A i \in 1..Len(st) : st[i].builder \in 1..Len(objs) /\ IsInjective(st[i].todo)
  BY DEF Types
<1>4. \A i \in 1..Len(st2) : st2[i].builder \in 1..Len(objs) /\ IsInjective(st2[i].todo)
  BY <1>2, <1>3
<1>. QED
  BY <1>2, <1>4 DEF Types

\* The pipelines to guard are no more once there are components in the services.
LEMMA GuardedShrinks ==
  ASSUME NEW kind, NEW reg, NEW reg2, reg # Null => reg2 = reg
  PROVE  Guarded(kind, reg2) \subseteq Guarded(kind, reg)
  BY DEF Guarded

\* The application begins a call on a builder that has no state.
LEMMA CallInv ==
  ASSUME NEW objs, NEW tab, NEW reg, NEW pl, NEW st, NEW ref, Inv(objs, tab, reg, pl, st, ref),
         st # << >> => st[1].at = "callback",
         NEW b \in 1..Len(objs), objs[b].root = b, tab[b] = Null,
         NEW reg2 \in Settings \cup {Null}, reg # Null => reg2 = reg,
         NEW f \in Frames, f.builder = b, f.at = "defaults", f.todo = SignalOrder, f.defer = FALSE,
         objs[b].kind = "any" => f.components = reg2,
         NEW st2, st2 = <<f>> \o st
  PROVE  Inv(objs, tab, reg2, pl, st2, ref)
<1>1. Types(objs, tab, reg, pl, st, ref) /\ Nesting(objs, st)
  BY DEF Inv
<1>2. /\ Len(objs) \in Nat /\ Len(st) \in Nat /\ objs[b].kind \in Signals \cup {"any"}
      /\ \A i \in 1..Len(st) : st[i].builder \in 1..Len(objs) /\ st[i].components \in Settings
  BY <1>1, StateTypes
<1>12. st \in Seq(Frames)
  BY <1>1 DEF Types
<1>3. /\ Len(st2) = Len(st) + 1 /\ st2 # << >> /\ st2[1] = f
      /\ \A i \in 1..Len(st2) : i # 1 => i - 1 \in 1..Len(st) /\ st2[i] = st[i - 1]
      /\ \A i \in 1..Len(st) : i + 1 \in 1..Len(st2) /\ st2[i + 1] = st[i]
  BY <1>12, Pushed
<1>4. \A i \in 1..Len(st) : st[i].at = "callback" /\ objs[st[i].builder].root = st[i].builder
  <2>1. \A i \in 1..Len(st) : st[i].at = "callback" /\ (st # << >> => objs[st[i].builder].root = st[i].builder)
    BY <1>1, <1>2, AllInCallbacks
  <2>2. ASSUME NEW i \in 1..Len(st) PROVE st # << >>
    BY <2>2
  <2>. QED
    BY <2>1, <2>2
<1>5. Types(objs, tab, reg2, pl, st2, ref)
  <2>1. IsInjective(f.todo)
    BY SignalsAssumption
  <2>2. f.builder \in 1..Len(objs)
    OBVIOUS
  <2>. QED
    BY <1>1, <2>1, <2>2, PushTypes
<1>6. \A i \in 1..Len(st2) : objs[st2[i].builder].root = st2[i].builder /\ (i # 1 => st2[i].at = "callback")
  BY <1>3, <1>4
<1>7. Nesting(objs, st2)
  <2>1. \A i \in 2..Len(st2) : i \in 1..Len(st2) /\ i # 1
    BY <1>2, <1>3
  <2>2. 1 \in 1..Len(st2)
    BY <1>2, <1>3
  <2>3. ASSUME NEW i \in 1..Len(st2) PROVE st2[i].defer = FALSE
    <3>1. CASE i = 1
      BY <1>3, <3>1
    <3>2. CASE i # 1
      <4>1. i - 1 \in 1..Len(st) /\ st2[i] = st[i - 1]
        BY <1>3, <2>3, <3>2
      <4>. QED
        BY <1>1, <1>4, <4>1 DEF Nesting
    <3>. QED
      BY <3>1, <3>2
  <2>. QED
    BY <1>6, <2>1, <2>2, <2>3 DEF Nesting
<1>8. OneComponents(objs, tab, reg2, st2)
  <2>1. OneComponents(objs, tab, reg, st)
    BY DEF Inv
  <2>2. Null \notin Settings
    BY BuildersAssumption
  <2>3. ASSUME NEW i \in 1..Len(st2), objs[st2[i].builder].kind = "any" PROVE st2[i].components = reg2
    <3>1. CASE i = 1
      BY <1>3, <2>3, <3>1
    <3>2. CASE i # 1
      <4>1. i - 1 \in 1..Len(st) /\ st2[i] = st[i - 1]
        BY <1>3, <2>3, <3>2
      <4>2. st[i - 1].components = reg /\ reg # Null
        BY <1>2, <2>1, <2>2, <2>3, <4>1 DEF OneComponents
      <4>. QED
        BY <4>1, <4>2
    <3>. QED
      BY <3>1, <3>2
  <2>4. \A c \in 1..Len(objs) : objs[c].kind = "any" /\ tab[c] # Null => tab[c] = reg2
    BY <2>1 DEF OneComponents
  <2>. QED
    BY <2>3, <2>4 DEF OneComponents
<1>9. IdleInv(objs, tab, pl, st2, ref)
  <2>1. SUFFICES ASSUME NEW c \in 1..Len(objs), c \notin ref, objs[c].root = c
                 PROVE  Exported(objs[c].kind, tab[c], pl, c)
    BY DEF IdleInv
  <2>2. ~Busy(st, c)
    BY <1>4 DEF Busy
  <2>. QED
    BY <2>1, <2>2 DEF Inv, IdleInv
<1>10. InnermostInv(objs, tab, pl, st2)
  <2>1. b \notin ref /\ ~Busy(st, b)
    BY <1>1, <1>4 DEF Types, Busy
  <2>2. \A s \in Signals : NoExporter(pl[s], b)
    BY <2>1 DEF Inv, IdleInv, Exported
  <2>3. ToSet(f.todo) = Signals
    BY DEF Signals
  <2>4. f.components \in Settings
    BY DEF Frames
  <2>5. Scope(objs[b].kind, f.components) \subseteq Signals
    BY <1>2, <2>4, ScopeInSignals
  <2>6. Progress(objs[b].kind, tab[b], pl, f, ToSet(f.todo), ToSet(f.todo))
    BY <2>2, <2>3, <2>5 DEF Progress
  <2>. QED
    BY <1>3, <2>6 DEF InnermostInv
<1>11. DefaultsInv(objs, tab, reg2, pl, st2)
  <2>1. DefaultsInv(objs, tab, reg, pl, st)
    BY DEF Inv
  <2>2. ASSUME NEW i \in 1..Len(st2), st2[i].at = "callback",
               NEW s \in Scope(objs[st2[i].builder].kind, st2[i].components)
        PROVE  DefaultsFirst(pl[s], st2[i].builder)
    <3>1. i - 1 \in 1..Len(st) /\ st2[i] = st[i - 1]
      BY <1>3, <2>2
    <3>. QED
      BY <1>4, <2>1, <2>2, <3>1 DEF DefaultsInv
  <2>3. ASSUME NEW c \in 1..Len(objs), objs[c].root = c, NEW s \in Guarded(objs[c].kind, reg2)
        PROVE  Absent(pl[s], c) \/ DefaultsFirst(pl[s], c)
    <3>1. s \in Guarded(objs[c].kind, reg)
      BY <2>3, GuardedShrinks
    <3>. QED
      BY <2>1, <2>3, <3>1 DEF DefaultsInv
  <2>. QED
    BY <2>1, <2>2, <2>3 DEF DefaultsInv
<1>. QED
  BY <1>5, <1>7, <1>8, <1>9, <1>10, <1>11 DEF Inv

\* Bootstrap for that call: it uses the components of the services, or puts its own there.
LEMMA BeginInv ==
  ASSUME NEW objs, NEW tab, NEW pl, NEW ref, Inv(objs, tab, registered, pl, stack, ref), UserRuns,
         NEW b \in 1..Len(objs), objs[b].root = b, tab[b] = Null,
         NEW o \in Settings \cup {Null}, NEW inServices \in BOOLEAN, NEW user \in BOOLEAN,
         objs[b].kind = "any" => inServices,
         Begin(b, o, inServices, user, FALSE)
  PROVE  Inv(objs, tab, registered', pl, stack', ref)
<1> DEFINE c == Bootstrap(IF o = Null THEN Default ELSE o, inServices)
           f == [builder |-> b, components |-> c, user |-> user, defer |-> FALSE,
                 todo |-> SignalOrder, at |-> "defaults"]
<1>1. Types(objs, tab, registered, pl, stack, ref)
  BY DEF Inv
<1>2. registered \in Settings \cup {Null} /\ Len(objs) \in Nat
  BY <1>1 DEF Types
<1>3. c \in Settings /\ (inServices /\ registered # Null => c = registered)
  BY <1>2, BuildersAssumption DEF Bootstrap
<1>4. registered' = (IF inServices THEN c ELSE registered) /\ stack' = <<f>> \o stack
  BY DEF Begin
<1> HIDE DEF c
<1>5. SignalOrder \in Seq(Signals) /\ "defaults" \in Positions
  BY SignalsAssumption DEF Positions
<1>6. f \in Frames
  BY <1>2, <1>3, <1>5 DEF Frames
<1>7. f.builder = b /\ f.at = "defaults" /\ f.todo = SignalOrder /\ f.defer = FALSE /\ f.components = c
  OBVIOUS
<1> HIDE DEF f
<1>8. /\ registered' \in Settings \cup {Null}
      /\ registered # Null => registered' = registered
      /\ objs[b].kind = "any" => f.components = registered'
  BY <1>2, <1>3, <1>4, <1>7
<1>9. stack # << >> => stack[1].at = "callback"
  BY DEF UserRuns, Top
<1>. QED
  BY <1>4, <1>6, <1>7, <1>8, <1>9, CallInv

\* The application makes a builder of a kind, or has one.
LEMMA BuilderGiven ==
  ASSUME IInv, NEW b \in 1..Len(objects) + 1, NEW kind \in Signals \cup {"any"},
         IF b > Len(objects)
         THEN NewObject(kind, 0)
         ELSE objects[b].kind = kind /\ objects[b].root = b /\ UNCHANGED <<objects, table>>
  PROVE  /\ Inv(objects', table', registered, pipeline, stack, refused)
         /\ b \in 1..Len(objects') /\ objects'[b].root = b /\ objects'[b].kind = kind
         /\ b > Len(objects) => table'[b] = Null
         /\ b <= Len(objects) => table'[b] = table[b]
<1>1. Inv(objects, table, registered, pipeline, stack, refused)
  BY DEF IInv
<1>2. Len(objects) \in Nat
  BY <1>1 DEF Inv, Types
<1>3. CASE b > Len(objects)
  <2>1. b = Len(objects) + 1
    BY <1>2, <1>3
  <2>2. Added(objects, table, kind, b, objects', table')
    BY <1>3, <2>1 DEF NewObject, Added
  <2>3. kind = "any" => b = Len(objects) + 1
    BY <2>1
  <2>4. /\ Inv(objects', table', registered, pipeline, stack, refused)
        /\ Len(objects') = Len(objects) + 1 /\ objects'[Len(objects) + 1].kind = kind
        /\ objects'[Len(objects) + 1].root = b /\ table'[Len(objects) + 1] = Null
    BY <1>1, <2>2, <2>3, NewObjectInv
  <2>. QED
    BY <1>2, <1>3, <2>1, <2>4
<1>4. CASE ~(b > Len(objects))
  BY <1>1, <1>2, <1>4
<1>. QED
  BY <1>3, <1>4

LEMMA WithElasticDefaultsStep ==
  ASSUME IInv, NEW b \in 1..Len(objects) + 1, NEW o \in Settings, NEW user \in BOOLEAN,
         WithElasticDefaults(b, o, user)
  PROVE  IInv'
<1>1. Len(objects) \in Nat /\ \A c \in 1..Len(objects) : objects[c].kind = "any" => objects[c].root = c
  BY DEF IInv, Inv, Types
<1>2. IF b > Len(objects)
      THEN NewObject("any", 0)
      ELSE objects[b].kind = "any" /\ objects[b].root = b /\ UNCHANGED <<objects, table>>
  BY <1>1 DEF WithElasticDefaults
<1>3. /\ Inv(objects', table', registered, pipeline, stack, refused)
      /\ b \in 1..Len(objects') /\ objects'[b].root = b /\ objects'[b].kind = "any"
      /\ b > Len(objects) => table'[b] = Null
      /\ b <= Len(objects) => table'[b] = table[b]
  BY <1>2, BuilderGiven
<1>4. pipeline' = pipeline /\ refused' = refused /\ UserRuns
  BY DEF WithElasticDefaults
<1>5. CASE o.signals = {} \/ (b <= Len(objects) /\ table[b] # Null)
  <2>1. registered' = registered /\ stack' = stack
    BY <1>5 DEF WithElasticDefaults, Skip
  <2>. QED
    BY <1>3, <1>4, <2>1 DEF IInv
<1>6. CASE ~(o.signals = {} \/ (b <= Len(objects) /\ table[b] # Null))
  <2>1. Begin(b, o, TRUE, user, FALSE)
    BY <1>6 DEF WithElasticDefaults
  <2>2. table'[b] = Null
    BY <1>1, <1>3, <1>6
  <2>3. Inv(objects', table', registered', pipeline, stack', refused)
    BY <1>3, <1>4, <2>1, <2>2, BeginInv
  <2>. QED
    BY <1>4, <2>3 DEF IInv
<1>. QED
  BY <1>5, <1>6

LEMMA WithElasticSignalStep ==
  ASSUME IInv, NEW b \in 1..Len(objects) + 1, NEW s \in Signals, NEW o \in Settings \cup {Null},
         NEW inServices \in BOOLEAN, NEW user \in BOOLEAN, WithElasticSignal(b, s, o, inServices, user)
  PROVE  IInv'
<1>1. Len(objects) \in Nat /\ s # "any"
  BY AnyNotSignal DEF IInv, Inv, Types
<1>2. IF b > Len(objects)
      THEN NewObject(s, 0)
      ELSE objects[b].kind = s /\ objects[b].root = b /\ UNCHANGED <<objects, table>>
  BY DEF WithElasticSignal
<1>3. /\ Inv(objects', table', registered, pipeline, stack, refused)
      /\ b \in 1..Len(objects') /\ objects'[b].root = b /\ objects'[b].kind = s
      /\ b > Len(objects) => table'[b] = Null
      /\ b <= Len(objects) => table'[b] = table[b]
  BY <1>2, BuilderGiven
<1>4. pipeline' = pipeline /\ refused' = refused /\ UserRuns
  BY DEF WithElasticSignal
<1>5. CASE (o # Null /\ s \notin o.signals) \/ (b <= Len(objects) /\ table[b] # Null)
  <2>1. registered' = registered /\ stack' = stack
    BY <1>5 DEF WithElasticSignal, Skip
  <2>. QED
    BY <1>3, <1>4, <2>1 DEF IInv
<1>6. CASE ~((o # Null /\ s \notin o.signals) \/ (b <= Len(objects) /\ table[b] # Null))
  <2>1. Begin(b, o, inServices, user, FALSE)
    BY <1>6 DEF WithElasticSignal
  <2>2. table'[b] = Null
    BY <1>1, <1>3, <1>6
  <2>3. Inv(objects', table', registered', pipeline, stack', refused)
    BY <1>1, <1>3, <1>4, <2>1, <2>2, BeginInv
  <2>. QED
    BY <1>4, <2>3 DEF IInv
<1>. QED
  BY <1>5, <1>6

-----------------------------------------------------------------------------
(* The signals of a builder of all, one by one *)

LEMMA TodoTail ==
  ASSUME NEW todo \in Seq(Signals), todo # << >>, IsInjective(todo), NEW t, t = Tail(todo)
  PROVE  /\ t \in Seq(Signals) /\ IsInjective(t) /\ Head(todo) \in Signals
         /\ ToSet(todo) = ToSet(t) \cup {Head(todo)}
         /\ Head(todo) \notin ToSet(t)
<1>1. Len(todo) \in Nat /\ DOMAIN todo = 1..Len(todo) /\ 1 \in 1..Len(todo)
  OBVIOUS
<1>2. /\ t \in Seq(Signals) /\ Len(t) = Len(todo) - 1 /\ DOMAIN t = 1..Len(t)
      /\ \A i \in 1..Len(t) : t[i] = todo[i + 1]
  BY HeadTailProperties
<1>3. Head(todo) = todo[1] /\ todo[1] \in Signals
  BY <1>1
<1>4. \A i, j \in 1..Len(todo) : todo[i] = todo[j] => i = j
  BY <1>1 DEF IsInjective
<1>5. \A i \in 1..Len(t) : i + 1 \in 1..Len(todo) /\ i + 1 # 1
  BY <1>1, <1>2
<1>6. IsInjective(t)
  BY <1>2, <1>4, <1>5 DEF IsInjective
<1>7. Head(todo) \notin ToSet(t)
  BY <1>1, <1>2, <1>3, <1>4, <1>5 DEF ToSet
<1>8. ASSUME NEW i \in 1..Len(todo) PROVE todo[i] \in ToSet(t) \cup {Head(todo)}
  <2>1. CASE i = 1
    BY <1>3, <2>1
  <2>2. CASE i # 1
    <3>1. i - 1 \in 1..Len(t) /\ (i - 1) + 1 = i
      BY <1>1, <1>2, <1>8, <2>2
    <3>2. t[i - 1] = todo[i]
      BY <1>2, <3>1
    <3>. QED
      BY <1>2, <3>1, <3>2 DEF ToSet
  <2>. QED
    BY <2>1, <2>2
<1>9. ToSet(todo) = ToSet(t) \cup {Head(todo)}
  BY <1>1, <1>2, <1>3, <1>5, <1>8 DEF ToSet
<1>. QED
  BY <1>2, <1>3, <1>6, <1>7, <1>9

\* The calls with the first signal of those left to do taken off.
RestOf(st) == [st EXCEPT ![1].todo = Tail(@)]

RestProps(st, rest) ==
  /\ rest \in Seq(Frames) /\ Len(rest) = Len(st) /\ rest # << >>
  /\ rest[1].at = st[1].at /\ rest[1].builder = st[1].builder /\ rest[1].components = st[1].components
  /\ rest[1].user = st[1].user /\ rest[1].defer = st[1].defer
  /\ rest[1].todo = Tail(st[1].todo) /\ IsInjective(rest[1].todo) /\ Head(st[1].todo) \in Signals
  /\ ToSet(st[1].todo) = ToSet(rest[1].todo) \cup {Head(st[1].todo)}
  /\ Head(st[1].todo) \notin ToSet(rest[1].todo)
  /\ \A i \in 2..Len(st) : rest[i] = st[i]

LEMMA RestFacts ==
  ASSUME NEW st \in Seq(Frames), st # << >>, st[1].todo # << >>, IsInjective(st[1].todo)
  PROVE  RestProps(st, RestOf(st))
<1> DEFINE t == Tail(st[1].todo)
           f == [st[1] EXCEPT !.todo = t]
           st2 == [st EXCEPT ![1] = f]
<1>1. Len(st) \in Nat /\ 1 \in 1..Len(st) /\ st[1] \in Frames
  OBVIOUS
<1>2. st[1].todo \in Seq(Signals)
  BY <1>1 DEF Frames
<1>3. /\ t \in Seq(Signals) /\ IsInjective(t) /\ Head(st[1].todo) \in Signals
      /\ ToSet(st[1].todo) = ToSet(t) \cup {Head(st[1].todo)} /\ Head(st[1].todo) \notin ToSet(t)
  BY <1>2, TodoTail
<1>4. RestOf(st) = st2
  BY DEF RestOf
<1> HIDE DEF t
<1>5. /\ f \in Frames /\ f.at = st[1].at /\ f.builder = st[1].builder /\ f.components = st[1].components
      /\ f.user = st[1].user /\ f.defer = st[1].defer /\ f.todo = t
  BY <1>1, <1>3 DEF Frames
<1> HIDE DEF f
<1>6. /\ st2 \in Seq(Frames) /\ Len(st2) = Len(st)
      /\ \A j \in 1..Len(st) : st2[j] = IF j = 1 THEN f ELSE st[j]
  BY <1>1, <1>5, ExceptSeq
<1> HIDE DEF st2
<1>7. st2[1] = f /\ st2 # << >> /\ \A i \in 2..Len(st) : st2[i] = st[i]
  BY <1>1, <1>6
<1>8. RestProps(st, st2)
  BY <1>3, <1>5, <1>6, <1>7 DEF RestProps, t
<1>. QED
  BY <1>4, <1>8

\* The signal at the head of those left to do is not enabled.
LEMMA RestInv ==
  ASSUME NEW objs, NEW tab, NEW reg, NEW pl, NEW st, NEW ref, Inv(objs, tab, reg, pl, st, ref),
         st # << >>, NEW f, f = st[1], objs[f.builder].kind = "any", f.at = "defaults", f.todo # << >>,
         Head(f.todo) \notin f.components.signals,
         NEW rest, rest = RestOf(st)
  PROVE  Inv(objs, tab, reg, pl, rest, ref)
<1>1. Types(objs, tab, reg, pl, st, ref) /\ Nesting(objs, st)
  BY DEF Inv
<1>2. Len(st) \in Nat /\ 1 \in 1..Len(st) /\ f.builder \in 1..Len(objs) /\ objs[f.builder].root = f.builder
  BY <1>1, StateTypes
<1>3. st \in Seq(Frames) /\ IsInjective(st[1].todo) /\ st[1].todo # << >>
  BY <1>1, <1>2 DEF Types
<1>13. RestProps(st, rest)
  BY <1>3, RestFacts
<1>4. /\ rest \in Seq(Frames) /\ Len(rest) = Len(st) /\ rest # << >>
      /\ rest[1].at = "defaults" /\ rest[1].builder = f.builder /\ rest[1].components = f.components
      /\ rest[1].user = f.user /\ rest[1].defer = f.defer
      /\ IsInjective(rest[1].todo)
      /\ ToSet(f.todo) = ToSet(rest[1].todo) \cup {Head(f.todo)}
      /\ \A i \in 2..Len(st) : rest[i] = st[i]
  BY <1>13 DEF RestProps
<1>5. \A i \in 1..Len(st) : /\ rest[i].builder = st[i].builder /\ rest[i].components = st[i].components
                            /\ rest[i].at = st[i].at /\ rest[i].defer = st[i].defer
  BY <1>2, <1>4
<1>6. Types(objs, tab, reg, pl, rest, ref)
  <2>1. \A i \in 1..Len(st) : st[i].builder \in 1..Len(objs) /\ IsInjective(st[i].todo)
    BY <1>1 DEF Types
  <2>2. \A i \in 1..Len(rest) : rest[i].builder \in 1..Len(objs) /\ IsInjective(rest[i].todo)
    BY <1>2, <1>4, <2>1
  <2>. QED
    BY <1>1, <1>4, <2>2 DEF Types
<1>7. ~ChildOf(objs, st[1], st[2])
  BY <1>2 DEF ChildOf
<1>8. Nesting(objs, rest)
  <2>1. \A i \in 2..Len(rest) : objs[rest[i].builder].root = rest[i].builder /\ rest[i].at = "callback"
    BY <1>1, <1>4, <1>7 DEF Nesting
  <2>2. \A i \in 1..Len(rest) : objs[rest[i].builder].root = rest[i].builder => rest[i].defer = FALSE
    BY <1>1, <1>4, <1>5 DEF Nesting
  <2>. QED
    BY <1>2, <1>4, <2>1, <2>2 DEF Nesting
<1>9. OneComponents(objs, tab, reg, rest)
  BY <1>4, <1>5 DEF Inv, OneComponents
<1>10. IdleInv(objs, tab, pl, rest, ref)
  <2>1. \A b : Busy(rest, b) <=> Busy(st, b)
    BY <1>4, <1>5 DEF Busy
  <2>. QED
    BY <2>1 DEF Inv, IdleInv
<1>11. DefaultsInv(objs, tab, reg, pl, rest)
  BY <1>4, <1>5 DEF Inv, DefaultsInv
<1>12. InnermostInv(objs, tab, pl, rest)
  <2>1. Progress("any", tab[f.builder], pl, f, ToSet(f.todo), ToSet(f.todo))
    BY <1>2 DEF Inv, InnermostInv
  <2>2. \A s \in Scope("any", f.components) : s \notin ToSet(rest[1].todo) => s \notin ToSet(f.todo)
    BY <1>4 DEF Scope
  <2>3. \A s \in ToSet(rest[1].todo) : s \in ToSet(f.todo)
    BY <1>4
  <2>4. Progress("any", tab[f.builder], pl, rest[1], ToSet(rest[1].todo), ToSet(rest[1].todo))
    BY <1>4, <2>1, <2>2, <2>3 DEF Progress, Want
  <2>. QED
    BY <1>2, <1>4, <2>4 DEF InnermostInv
<1>. QED
  BY <1>6, <1>8, <1>9, <1>10, <1>11, <1>12 DEF Inv

\* Call c is the one for the first signal the innermost call f has left to do.
Starts(objs, c, f) ==
  /\ c \in Frames /\ c.builder \in 1..Len(objs) /\ c.builder # f.builder
  /\ objs[c.builder].kind = Head(f.todo) /\ objs[c.builder].root = f.builder
  /\ c.components = f.components /\ c.user = FALSE /\ c.defer = f.user
  /\ c.todo = SignalOrder /\ c.at = "defaults"

\* The signal at the head of those left to do is enabled and has its builder.
LEMMA ChildInv ==
  ASSUME NEW objs, NEW tab, NEW reg, NEW pl, NEW st, NEW ref, Inv(objs, tab, reg, pl, st, ref),
         st # << >>, NEW f, f = st[1], objs[f.builder].kind = "any", f.at = "defaults", f.todo # << >>,
         Head(f.todo) \in f.components.signals,
         NEW c, Starts(objs, c, f), NEW rest, rest = RestOf(st), NEW st2, st2 = <<c>> \o rest
  PROVE  Inv(objs, tab, reg, pl, st2, ref)
<1>1. Types(objs, tab, reg, pl, st, ref) /\ Nesting(objs, st)
  BY DEF Inv
<1>2. Len(st) \in Nat /\ 1 \in 1..Len(st) /\ f.builder \in 1..Len(objs) /\ objs[f.builder].root = f.builder
  BY <1>1, StateTypes
<1>3. st \in Seq(Frames) /\ IsInjective(st[1].todo) /\ st[1].todo # << >>
  BY <1>1, <1>2 DEF Types
<1>19. RestProps(st, rest)
  BY <1>3, RestFacts
<1>4. /\ rest \in Seq(Frames) /\ Len(rest) = Len(st) /\ rest # << >>
      /\ rest[1].at = st[1].at /\ rest[1].builder = st[1].builder /\ rest[1].components = st[1].components
      /\ rest[1].user = st[1].user /\ rest[1].defer = st[1].defer
      /\ IsInjective(rest[1].todo) /\ Head(st[1].todo) \in Signals
      /\ ToSet(st[1].todo) = ToSet(rest[1].todo) \cup {Head(st[1].todo)}
      /\ Head(st[1].todo) \notin ToSet(rest[1].todo)
      /\ \A i \in 2..Len(st) : rest[i] = st[i]
  BY <1>19 DEF RestProps
<1>5. \A i \in 1..Len(st) : /\ rest[i].builder = st[i].builder /\ rest[i].components = st[i].components
                            /\ rest[i].at = st[i].at /\ rest[i].defer = st[i].defer
  BY <1>2, <1>4
<1>6. /\ c \in Frames /\ c.builder \in 1..Len(objs) /\ c.builder # f.builder
      /\ objs[c.builder].kind = Head(f.todo) /\ objs[c.builder].root = f.builder
      /\ c.components = f.components /\ c.user = FALSE /\ c.defer = f.user
      /\ c.todo = SignalOrder /\ c.at = "defaults"
  BY DEF Starts
<1>7. /\ Len(st2) = Len(st) + 1 /\ st2 # << >> /\ st2[1] = c
      /\ \A i \in 1..Len(st2) : i # 1 => i - 1 \in 1..Len(st) /\ st2[i] = rest[i - 1]
      /\ \A i \in 1..Len(st) : i + 1 \in 1..Len(st2) /\ st2[i + 1] = rest[i]
  BY <1>4, <1>6, Pushed
<1>8. st2[2] = rest[1] /\ 2 \in 1..Len(st2)
  BY <1>2, <1>7
<1>9. ChildOf(objs, c, rest[1])
  BY <1>2, <1>4, <1>6 DEF ChildOf
<1>10. Types(objs, tab, reg, pl, rest, ref)
  <2>1. \A i \in 1..Len(st) : st[i].builder \in 1..Len(objs) /\ IsInjective(st[i].todo)
    BY <1>1 DEF Types
  <2>2. \A i \in 1..Len(rest) : rest[i].builder \in 1..Len(objs) /\ IsInjective(rest[i].todo)
    BY <1>2, <1>4, <2>1
  <2>. QED
    BY <1>1, <1>4, <2>2 DEF Types
<1>11. Types(objs, tab, reg, pl, st2, ref)
  <2>1. IsInjective(c.todo)
    BY <1>6, SignalsAssumption
  <2>2. reg \in Settings \cup {Null}
    BY <1>1 DEF Types
  <2>. QED
    BY <1>6, <1>10, <2>1, <2>2, PushTypes
<1>12. ~ChildOf(objs, st[1], st[2])
  BY <1>2 DEF ChildOf
<1>13. \A i \in 2..Len(st) : objs[st[i].builder].root = st[i].builder /\ st[i].at = "callback"
  BY <1>1, <1>12 DEF Nesting
<1>14. Nesting(objs, st2)
  <2>1. ASSUME NEW i \in 2..Len(st2)
        PROVE  objs[st2[i].builder].root = st2[i].builder /\ (st2[i].at # "callback" => i = 2)
    <3>1. i - 1 \in 1..Len(st) /\ st2[i] = rest[i - 1]
      BY <1>7, <2>1
    <3>2. CASE i = 2
      BY <1>2, <1>4, <1>8, <3>2
    <3>3. CASE i # 2
      <4>1. i - 1 \in 2..Len(st)
        BY <1>2, <2>1, <3>1, <3>3
      <4>. QED
        BY <1>4, <1>13, <3>1, <4>1
    <3>. QED
      BY <3>2, <3>3
  <2>2. ASSUME NEW i \in 1..Len(st2), objs[st2[i].builder].root = st2[i].builder PROVE st2[i].defer = FALSE
    <3>1. i # 1
      BY <1>6, <1>7, <2>2
    <3>2. i - 1 \in 1..Len(st) /\ st2[i] = rest[i - 1]
      BY <1>7, <2>2, <3>1
    <3>3. /\ st2[i].builder = st[i - 1].builder /\ st2[i].defer = st[i - 1].defer
          /\ objs[st[i - 1].builder].root = st[i - 1].builder
      BY <1>5, <2>2, <3>2
    <3>. QED
      BY <1>1, <3>2, <3>3 DEF Nesting
  <2>3. Len(st2) >= 2
    BY <1>2, <1>7
  <2>. QED
    BY <1>7, <1>8, <1>9, <2>1, <2>2, <2>3 DEF Nesting
<1>15. OneComponents(objs, tab, reg, st2)
  <2>1. OneComponents(objs, tab, reg, st)
    BY DEF Inv
  <2>2. ASSUME NEW i \in 1..Len(st2), objs[st2[i].builder].kind = "any" PROVE st2[i].components = reg
    <3>1. i # 1
      BY <1>4, <1>6, <1>7, <2>2, AnyNotSignal
    <3>2. i - 1 \in 1..Len(st) /\ st2[i] = rest[i - 1]
      BY <1>7, <2>2, <3>1
    <3>. QED
      BY <1>5, <2>1, <2>2, <3>2 DEF OneComponents
  <2>. QED
    BY <2>1, <2>2 DEF OneComponents
<1>16. IdleInv(objs, tab, pl, st2, ref)
  <2>1. ASSUME NEW b, Busy(st, b) PROVE Busy(st2, b)
    <3>1. PICK i \in 1..Len(st) : st[i].builder = b /\ st[i].at # "callback"
      BY <2>1 DEF Busy
    <3>2. i + 1 \in 1..Len(st2) /\ st2[i + 1].builder = b /\ st2[i + 1].at # "callback"
      BY <1>5, <1>7, <3>1
    <3>. QED
      BY <3>2 DEF Busy
  <2>. QED
    BY <2>1 DEF Inv, IdleInv
<1>17. DefaultsInv(objs, tab, reg, pl, st2)
  <2>1. DefaultsInv(objs, tab, reg, pl, st)
    BY DEF Inv
  <2>2. ASSUME NEW i \in 1..Len(st2), objs[st2[i].builder].root = st2[i].builder, st2[i].at = "callback",
               NEW s \in Scope(objs[st2[i].builder].kind, st2[i].components)
        PROVE  DefaultsFirst(pl[s], st2[i].builder)
    <3>1. i # 1
      BY <1>6, <1>7, <2>2
    <3>2. i - 1 \in 1..Len(st) /\ st2[i] = rest[i - 1]
      BY <1>7, <2>2, <3>1
    <3>3. /\ st2[i].builder = st[i - 1].builder /\ st2[i].components = st[i - 1].components
          /\ st[i - 1].at = "callback"
      BY <1>5, <2>2, <3>2
    <3>. QED
      BY <2>1, <2>2, <3>2, <3>3 DEF DefaultsInv
  <2>. QED
    BY <2>1, <2>2 DEF DefaultsInv
<1>18. InnermostInv(objs, tab, pl, st2)
  <2> DEFINE P == ToSet(f.todo)
  <2>1. Progress("any", tab[f.builder], pl, f, P, P)
    BY <1>2 DEF Inv, InnermostInv
  <2>2. UntilExport(objs, c) = {Head(f.todo)} /\ UntilDefaults(objs, c) = {Head(f.todo)}
    BY <1>6 DEF UntilExport, UntilDefaults
  <2>3. P = ToSet(rest[1].todo) \cup {Head(f.todo)}
    BY <1>4
  <2> HIDE DEF P
  <2>4. Progress("any", tab[f.builder], pl, rest[1], P, P)
    BY <1>4, <2>1 DEF Progress
  <2>5. /\ objs[st2[1].builder].root # st2[1].builder
        /\ st2[2].builder = f.builder /\ objs[st2[2].builder].kind = "any"
    BY <1>4, <1>6, <1>7, <1>8
  <2>6. /\ ToSet(st2[2].todo) \cup UntilExport(objs, st2[1]) = P
        /\ ToSet(st2[2].todo) \cup UntilDefaults(objs, st2[1]) = P
    BY <1>7, <1>8, <2>2, <2>3
  <2>7. Progress("any", tab[f.builder], pl, st2[2], P, P)
    BY <1>8, <2>4
  <2>. QED
    BY <2>5, <2>6, <2>7 DEF InnermostInv
<1>. QED
  BY <1>11, <1>14, <1>15, <1>16, <1>17, <1>18 DEF Inv

LEMMA ConfigureSignalsStep ==
  ASSUME IInv, ConfigureSignals PROVE IInv'
<1> DEFINE f == stack[1]
           b1 == f.builder
           s == Head(f.todo)
           n == Len(objects)
           rest == RestOf(stack)
<1>1. stack # << >>
  BY DEF ConfigureSignals
<1>2. /\ Top = f /\ TopObject = objects[b1]
      /\ Types(objects, table, registered, pipeline, stack, refused)
      /\ b1 \in 1..Len(objects) /\ f.components \in Settings
  BY <1>1, TopFacts
<1>3. /\ objects[b1].kind = "any" /\ f.at = "defaults" /\ f.todo # << >>
      /\ registered' = registered /\ pipeline' = pipeline /\ refused' = refused
  BY <1>2 DEF ConfigureSignals
<1>4. Inv(objects, table, registered, pipeline, stack, refused)
  BY DEF IInv
<1>5. n \in Nat /\ s \in Signals /\ f.user \in BOOLEAN
  <2>1. f.todo \in Seq(Signals) /\ Len(objects) \in Nat /\ f.user \in BOOLEAN
    BY <1>1, <1>2, StateTypes
  <2>. QED
    BY <1>3, <2>1
<1>6. CASE s \notin f.components.signals
  <2>1. stack' = RestOf(stack) /\ objects' = objects /\ table' = table
    BY <1>2, <1>6 DEF ConfigureSignals, RestOf
  <2>2. Inv(objects, table, registered, pipeline, stack', refused)
    BY <1>1, <1>3, <1>4, <1>6, <2>1, RestInv
  <2>. QED
    BY <1>3, <2>1, <2>2 DEF IInv
<1>7. CASE s \in f.components.signals
  <2> DEFINE c == [builder |-> n + 1, components |-> f.components, user |-> FALSE,
                   defer |-> f.user, todo |-> SignalOrder, at |-> "defaults"]
  <2>1. stack' = <<c>> \o rest
    BY <1>2, <1>7 DEF ConfigureSignals, RestOf
  <2>2. Added(objects, table, s, b1, objects', table')
    <3>1. b1 # 0
      BY <1>2, <1>5
    <3>2. NewObject(s, b1)
      BY <1>2, <1>7 DEF ConfigureSignals
    <3>. QED
      BY <3>1, <3>2 DEF NewObject, Added
  <2>3. b1 \in 1..Len(objects) + 1 /\ (s = "any" => b1 = Len(objects) + 1) /\ s \in Signals \cup {"any"}
    BY <1>2, <1>5, AnyNotSignal
  <2> HIDE DEF s, b1
  <2>4. /\ Inv(objects', table', registered, pipeline, stack, refused)
        /\ Len(objects') = Len(objects) + 1
        /\ objects'[Len(objects) + 1].kind = s /\ objects'[Len(objects) + 1].root = b1
        /\ \A b \in 1..Len(objects) : objects'[b] = objects[b] /\ table'[b] = table[b]
    BY <1>4, <2>2, <2>3, NewObjectInv
  <2>5. "defaults" \in Positions /\ SignalOrder \in Seq(Signals)
    BY SignalsAssumption DEF Positions
  <2>6. c \in Frames
    BY <1>2, <1>5, <2>5 DEF Frames
  <2>7. /\ c.builder = n + 1 /\ c.components = f.components /\ c.user = FALSE
        /\ c.defer = f.user /\ c.todo = SignalOrder /\ c.at = "defaults"
    OBVIOUS
  <2> HIDE DEF c
  <2>8. n + 1 \in 1..Len(objects') /\ n + 1 # b1 /\ n + 1 = Len(objects) + 1
    BY <1>2, <1>5, <2>4
  <2>9. Starts(objects', c, f)
    BY <2>4, <2>6, <2>7, <2>8 DEF Starts, s, b1
  <2>10. objects'[f.builder].kind = "any"
    BY <1>2, <1>3, <2>4 DEF b1
  <2>11. Head(f.todo) \in f.components.signals
    BY <1>7 DEF s
  <2>12. Inv(objects', table', registered, pipeline, stack', refused)
    BY <1>1, <1>3, <2>1, <2>4, <2>9, <2>10, <2>11, ChildInv
  <2>. QED
    BY <1>3, <2>12 DEF IInv
<1>. QED
  BY <1>6, <1>7

-----------------------------------------------------------------------------
(* Calls end *)

LEMMA Popped ==
  ASSUME NEW st \in Seq(Frames), st # << >>, NEW st2, st2 = Tail(st)
  PROVE  /\ st2 \in Seq(Frames) /\ Len(st2) = Len(st) - 1
         /\ \A i \in 1..Len(st2) : i + 1 \in 2..Len(st) /\ st2[i] = st[i + 1]
         /\ \A i \in 1..Len(st) : i # 1 => i - 1 \in 1..Len(st2) /\ st2[i - 1] = st[i]
<1>1. Len(st) \in Nat /\ Len(st) # 0
  OBVIOUS
<1>2. st2 \in Seq(Frames) /\ Len(st2) = Len(st) - 1 /\ \A i \in 1..Len(st2) : st2[i] = st[i + 1]
  BY HeadTailProperties
<1>3. ASSUME NEW i \in 1..Len(st), i # 1 PROVE i - 1 \in 1..Len(st2) /\ st2[i - 1] = st[i]
  <2>1. i - 1 \in 1..Len(st2) /\ (i - 1) + 1 = i
    BY <1>1, <1>2, <1>3
  <2>. QED
    BY <1>2, <2>1
<1>. QED
  BY <1>1, <1>2, <1>3

\* At most builder b gets a table entry, or is refused one because it has it already.
Stored(objs, tab, ref, b, tab2, ref2) ==
  /\ tab2 \in Seq(Settings \cup {Null}) /\ Len(tab2) = Len(objs)
  /\ \A c \in 1..Len(objs) : c # b => tab2[c] = tab[c]
  /\ tab[b] # Null => tab2[b] = tab[b]
  /\ ref \subseteq ref2 /\ ref2 \subseteq ref \cup {b}
  /\ b \in ref2 => tab2[b] # Null

\* The innermost call returns or throws: what is left to show concerns its builder.
LEMMA PopInv ==
  ASSUME NEW objs, NEW tab, NEW reg, NEW pl, NEW st, NEW ref, Inv(objs, tab, reg, pl, st, ref),
         st # << >>, NEW b1, b1 = st[1].builder, NEW tab2, NEW ref2, Stored(objs, tab, ref, b1, tab2, ref2),
         objs[b1].kind = "any" /\ tab2[b1] # Null => tab2[b1] = reg,
         objs[b1].root = b1 /\ tab2[b1] # Null => \A s \in Scope(objs[b1].kind, tab2[b1]) : DefaultsFirst(pl[s], b1),
         objs[b1].root = b1 /\ b1 \notin ref2 => Exported(objs[b1].kind, tab2[b1], pl, b1),
         objs[b1].root # b1 => st[1].at = "store",
         NEW st2, st2 = Tail(st)
  PROVE  Inv(objs, tab2, reg, pl, st2, ref2)
<1>1. Types(objs, tab, reg, pl, st, ref) /\ Nesting(objs, st)
  BY DEF Inv
<1>2. /\ Len(objs) \in Nat /\ Len(st) \in Nat /\ 1 \in 1..Len(st) /\ b1 \in 1..Len(objs)
      /\ \A i \in 1..Len(st) : st[i].builder \in 1..Len(objs)
  BY <1>1, StateTypes
<1>3. st \in Seq(Frames)
  BY <1>1 DEF Types
<1>4. /\ st2 \in Seq(Frames) /\ Len(st2) = Len(st) - 1
      /\ \A i \in 1..Len(st2) : i + 1 \in 2..Len(st) /\ st2[i] = st[i + 1]
      /\ \A i \in 1..Len(st) : i # 1 => i - 1 \in 1..Len(st2) /\ st2[i - 1] = st[i]
  BY <1>3, Popped
<1>5. /\ tab2 \in Seq(Settings \cup {Null}) /\ Len(tab2) = Len(objs)
      /\ \A c \in 1..Len(objs) : c # b1 => tab2[c] = tab[c]
      /\ tab[b1] # Null => tab2[b1] = tab[b1]
      /\ ref \subseteq ref2 /\ ref2 \subseteq ref \cup {b1}
      /\ b1 \in ref2 => tab2[b1] # Null
  BY DEF Stored
<1>6. \A i \in 1..Len(st2) : i + 1 \in 1..Len(st)
  BY <1>2, <1>4
<1>7. Types(objs, tab2, reg, pl, st2, ref2)
  <2>1. \A i \in 1..Len(st) : st[i].builder \in 1..Len(objs) /\ IsInjective(st[i].todo)
    BY <1>1 DEF Types
  <2>2. \A i \in 1..Len(st2) : st2[i].builder \in 1..Len(objs) /\ IsInjective(st2[i].todo)
    BY <1>4, <1>6, <2>1
  <2>3. \A b \in ref : b \in 1..Len(objs) /\ tab[b] # Null
    BY <1>1 DEF Types
  <2>4. ASSUME NEW b \in ref2 PROVE b \in 1..Len(objs) /\ tab2[b] # Null
    <3>1. CASE b = b1
      BY <1>2, <1>5, <2>4, <3>1
    <3>2. CASE b # b1
      BY <1>5, <2>3, <2>4, <3>2
    <3>. QED
      BY <3>1, <3>2
  <2>. QED
    BY <1>1, <1>4, <1>5, <2>2, <2>4 DEF Types
<1>8. ASSUME NEW i \in 1..Len(st2)
      PROVE  /\ objs[st2[i].builder].root = st2[i].builder /\ st2[i].defer = FALSE
             /\ st2[i].at # "callback" => i = 1 /\ ChildOf(objs, st[1], st[2])
  <2>1. i + 1 \in 2..Len(st) /\ i + 1 \in 1..Len(st) /\ st2[i] = st[i + 1]
    BY <1>4, <1>6, <1>8
  <2>2. /\ objs[st[i + 1].builder].root = st[i + 1].builder
        /\ st[i + 1].at # "callback" => i + 1 = 2 /\ ChildOf(objs, st[1], st[2])
    BY <1>1, <2>1 DEF Nesting
  <2>3. st[i + 1].defer = FALSE
    BY <1>1, <2>1, <2>2 DEF Nesting
  <2>4. i + 1 = 2 => i = 1
    BY <1>8
  <2>. QED
    BY <2>1, <2>2, <2>3, <2>4
<1>9. Nesting(objs, st2)
  <2>1. st2 # << >> => 1 \in 1..Len(st2)
    BY <1>4
  <2>2. \A i \in 2..Len(st2) : i \in 1..Len(st2) /\ i # 1
    BY <1>2, <1>4
  <2>. QED
    BY <1>8, <2>1, <2>2 DEF Nesting
<1>10. OneComponents(objs, tab2, reg, st2)
  <2>1. OneComponents(objs, tab, reg, st)
    BY DEF Inv
  <2>2. \A i \in 1..Len(st2) : objs[st2[i].builder].kind = "any" => st2[i].components = reg
    BY <1>4, <1>6, <2>1 DEF OneComponents
  <2>3. ASSUME NEW b \in 1..Len(objs), objs[b].kind = "any", tab2[b] # Null PROVE tab2[b] = reg
    <3>1. CASE b = b1
      BY <2>3, <3>1
    <3>2. CASE b # b1
      BY <1>5, <2>1, <2>3, <3>2 DEF OneComponents
    <3>. QED
      BY <3>1, <3>2
  <2>. QED
    BY <2>2, <2>3 DEF OneComponents
<1>11. DefaultsInv(objs, tab2, reg, pl, st2)
  <2>1. DefaultsInv(objs, tab, reg, pl, st)
    BY DEF Inv
  <2>2. ASSUME NEW i \in 1..Len(st2), objs[st2[i].builder].root = st2[i].builder, st2[i].at = "callback",
               NEW s \in Scope(objs[st2[i].builder].kind, st2[i].components)
        PROVE  DefaultsFirst(pl[s], st2[i].builder)
    <3>1. i + 1 \in 1..Len(st) /\ st2[i] = st[i + 1]
      BY <1>4, <1>6, <2>2
    <3>. QED
      BY <2>1, <2>2, <3>1 DEF DefaultsInv
  <2>3. ASSUME NEW b \in 1..Len(objs), objs[b].root = b, tab2[b] # Null, NEW s \in Scope(objs[b].kind, tab2[b])
        PROVE  DefaultsFirst(pl[s], b)
    <3>1. CASE b = b1
      BY <2>3, <3>1
    <3>2. CASE b # b1
      <4>1. tab2[b] = tab[b]
        BY <1>5, <2>3, <3>2
      <4>. QED
        BY <2>1, <2>3, <4>1 DEF DefaultsInv
    <3>. QED
      BY <3>1, <3>2
  <2>. QED
    BY <2>1, <2>2, <2>3 DEF DefaultsInv
<1>12. IdleInv(objs, tab2, pl, st2, ref2)
  <2>1. SUFFICES ASSUME NEW b \in 1..Len(objs), b \notin ref2, objs[b].root = b, ~Busy(st2, b)
                 PROVE  Exported(objs[b].kind, tab2[b], pl, b)
    BY DEF IdleInv
  <2>2. CASE b = b1
    BY <2>1, <2>2
  <2>3. CASE b # b1
    <3>1. ASSUME Busy(st, b) PROVE FALSE
      <4>1. PICK i \in 1..Len(st) : st[i].builder = b /\ st[i].at # "callback"
        BY <3>1 DEF Busy
      <4>2. i # 1
        BY <2>3, <4>1
      <4>3. i - 1 \in 1..Len(st2) /\ st2[i - 1] = st[i]
        BY <1>4, <4>2
      <4>. QED
        BY <2>1, <4>1, <4>3 DEF Busy
    <3>2. tab2[b] = tab[b] /\ b \notin ref
      BY <1>5, <2>1, <2>3
    <3>. QED
      BY <2>1, <3>1, <3>2 DEF Inv, IdleInv
  <2>. QED
    BY <2>2, <2>3
<1>13. InnermostInv(objs, tab2, pl, st2)
  <2>1. CASE st2 = << >>
    BY <2>1 DEF InnermostInv
  <2>2. CASE st2 # << >> /\ st2[1].at = "callback"
    <3>1. 1 \in 1..Len(st2)
      BY <1>4, <2>2
    <3>. QED
      BY <1>8, <2>2, <3>1 DEF InnermostInv
  <2>3. CASE st2 # << >> /\ st2[1].at # "callback"
    <3> DEFINE g == st[2]
               P == ToSet(g.todo)
    <3>1. 1 \in 1..Len(st2) /\ st2[1] = g
      BY <1>4, <2>3
    <3>2. ChildOf(objs, st[1], g) /\ objs[g.builder].root = g.builder
      BY <1>8, <2>3, <3>1
    <3>3. objs[b1].root # b1 /\ st[1].at = "store"
      BY <3>2 DEF ChildOf
    <3>4. UntilExport(objs, st[1]) = {} /\ UntilDefaults(objs, st[1]) = {}
      BY <3>3 DEF UntilExport, UntilDefaults
    <3>5. g.builder \in 1..Len(objs) /\ g.builder # b1
      BY <1>7, <3>1, <3>2, <3>3 DEF Types
    <3>6. tab2[g.builder] = tab[g.builder]
      BY <1>5, <3>5
    <3>7. Progress(objs[g.builder].kind, tab[g.builder], pl, g,
                   P \cup UntilExport(objs, st[1]), P \cup UntilDefaults(objs, st[1]))
      BY <3>3 DEF Inv, InnermostInv
    <3>8. P \cup {} = P
      OBVIOUS
    <3> HIDE DEF g, P
    <3>9. Progress(objs[g.builder].kind, tab2[g.builder], pl, g, P, P)
      BY <3>4, <3>6, <3>7, <3>8
    <3>. QED
      BY <3>1, <3>2, <3>9 DEF InnermostInv, P
  <2>. QED
    BY <2>1, <2>2, <2>3
<1>. QED
  BY <1>7, <1>9, <1>10, <1>11, <1>12, <1>13 DEF Inv

LEMMA CallbackThrowsStep ==
  ASSUME IInv, CallbackThrows PROVE IInv'
<1> DEFINE b1 == stack[1].builder
<1>1. stack # << >>
  BY DEF CallbackThrows
<1>2. /\ Top = stack[1]
      /\ Types(objects, table, registered, pipeline, stack, refused)
      /\ b1 \in 1..Len(objects)
      /\ objects[b1].root # b1 => Len(stack) >= 2 /\ ChildOf(objects, stack[1], stack[2])
  BY <1>1, TopFacts
<1>3. /\ stack[1].at = "callback" /\ stack' = Tail(stack)
      /\ objects' = objects /\ table' = table /\ registered' = registered /\ refused' = refused
      /\ pipeline' = pipeline
  BY <1>2 DEF CallbackThrows
<1>4. objects[b1].root = b1
  BY <1>2, <1>3 DEF ChildOf
<1>5. Inv(objects, table, registered, pipeline, stack, refused)
  BY DEF IInv
<1>6. Stored(objects, table, refused, b1, table, refused)
  BY <1>2 DEF Types, Stored
<1>7. ~Busy(stack, b1)
  <2>1. \A i \in 1..Len(stack) : stack[i].at = "callback"
    <3>1. Nesting(objects, stack) /\ Len(stack) \in Nat
      BY <1>2, <1>5, StateTypes DEF Inv
    <3>. QED
      BY <1>3, <3>1, AllInCallbacks
  <2>. QED
    BY <2>1 DEF Busy
<1>8. b1 \notin refused => Exported(objects[b1].kind, table[b1], pipeline, b1)
  BY <1>2, <1>4, <1>5, <1>7 DEF Inv, IdleInv
<1>9. objects[b1].kind = "any" /\ table[b1] # Null => table[b1] = registered
  BY <1>2, <1>5 DEF Inv, OneComponents
<1>10. table[b1] # Null => \A s \in Scope(objects[b1].kind, table[b1]) : DefaultsFirst(pipeline[s], b1)
  BY <1>2, <1>4, <1>5 DEF Inv, DefaultsInv
<1>11. Inv(objects, table, registered, pipeline, stack', refused)
  BY <1>1, <1>3, <1>4, <1>5, <1>6, <1>8, <1>9, <1>10, PopInv
<1>. QED
  BY <1>3, <1>11 DEF IInv

LEMMA StoreBuilderStateStep ==
  ASSUME IInv, StoreBuilderState PROVE IInv'
<1> DEFINE f == stack[1]
           b1 == f.builder
           kind == objects[b1].kind
<1>1. stack # << >>
  BY DEF StoreBuilderState
<1>2. /\ Top = f
      /\ Types(objects, table, registered, pipeline, stack, refused)
      /\ b1 \in 1..Len(objects) /\ f.components \in Settings
  BY <1>1, TopFacts
<1>3. /\ f.at = "store" /\ stack' = Tail(stack)
      /\ objects' = objects /\ registered' = registered /\ pipeline' = pipeline
  BY <1>2 DEF StoreBuilderState
<1>4. Inv(objects, table, registered, pipeline, stack, refused)
  BY DEF IInv
<1>5. f.components # Null /\ 1 \in 1..Len(stack)
  BY <1>1, <1>2, SettingsFields, StateTypes
<1>6. table \in Seq(Settings \cup {Null}) /\ Len(table) = Len(objects) /\ \A b \in refused : table[b] # Null
  BY <1>2 DEF Types
<1>7. ASSUME objects[b1].root = b1
      PROVE  Progress(kind, table[b1], pipeline, f, ToSet(f.todo), ToSet(f.todo))
  BY <1>1, <1>3, <1>4, <1>7 DEF Inv, InnermostInv
<1>8. CASE table[b1] = Null
  <2>1. table' = [table EXCEPT ![b1] = f.components] /\ refused' = refused
    BY <1>2, <1>8 DEF StoreBuilderState
  <2>2. f.components \in Settings \cup {Null} /\ b1 \in 1..Len(table)
    BY <1>2, <1>6
  <2>3. /\ table' \in Seq(Settings \cup {Null}) /\ Len(table') = Len(table)
        /\ \A c \in 1..Len(table) : table'[c] = IF c = b1 THEN f.components ELSE table[c]
    BY <1>6, <2>1, <2>2, ExceptSeq
  <2>4. table'[b1] = f.components
    BY <2>2, <2>3
  <2>5. b1 \notin refused
    BY <1>6, <1>8
  <2>6. Stored(objects, table, refused, b1, table', refused)
    BY <1>6, <1>8, <2>3, <2>5 DEF Stored
  <2>7. kind = "any" /\ table'[b1] # Null => table'[b1] = registered
    BY <1>4, <1>5, <2>4 DEF Inv, OneComponents
  <2>8. objects[b1].root = b1 /\ table'[b1] # Null =>
          \A s \in Scope(kind, table'[b1]) : DefaultsFirst(pipeline[s], b1)
    BY <1>3, <1>7, <2>4 DEF Progress
  <2>9. objects[b1].root = b1 /\ b1 \notin refused => Exported(kind, table'[b1], pipeline, b1)
    BY <1>3, <1>5, <1>7, <1>8, <2>4 DEF Progress, Exported
  <2>10. Inv(objects, table', registered, pipeline, stack', refused)
    BY <1>1, <1>3, <1>4, <2>6, <2>7, <2>8, <2>9, PopInv
  <2>. QED
    BY <1>3, <2>1, <2>10 DEF IInv
<1>9. CASE table[b1] # Null
  <2>1. table' = table /\ refused' = refused \cup {b1}
    BY <1>2, <1>9 DEF StoreBuilderState
  <2>2. Stored(objects, table, refused, b1, table, refused')
    BY <1>6, <1>9, <2>1 DEF Stored
  <2>3. kind = "any" /\ table[b1] # Null => table[b1] = registered
    BY <1>2, <1>4 DEF Inv, OneComponents
  <2>4. objects[b1].root = b1 /\ table[b1] # Null =>
          \A s \in Scope(kind, table[b1]) : DefaultsFirst(pipeline[s], b1)
    BY <1>2, <1>4 DEF Inv, DefaultsInv
  <2>5. b1 \in refused'
    BY <2>1
  <2>6. Inv(objects, table, registered, pipeline, stack', refused')
    BY <1>1, <1>3, <1>4, <2>2, <2>3, <2>4, <2>5, PopInv
  <2>. QED
    BY <1>3, <2>1, <2>6 DEF IInv
<1>. QED
  BY <1>8, <1>9

-----------------------------------------------------------------------------

LEMMA InitIInv == Init => IInv
<1> SUFFICES ASSUME Init PROVE IInv
  OBVIOUS
<1>1. /\ objects = << >> /\ table = << >> /\ registered = Null /\ stack = << >> /\ refused = {}
      /\ pipeline = [s \in Signals |-> << >>]
  BY DEF Init
<1>2. Len(objects) = 0 /\ Len(stack) = 0 /\ 1..0 = {} /\ 2..0 = {}
  BY <1>1
<1>3. pipeline \in [Signals -> Seq(Entry)] /\ \A s \in Signals : Len(pipeline[s]) = 0
  BY <1>1
<1>4. Types(objects, table, registered, pipeline, stack, refused)
  BY <1>1, <1>2, <1>3 DEF Types
<1>5. Nesting(objects, stack)
  BY <1>1, <1>2 DEF Nesting
<1>6. OneComponents(objects, table, registered, stack)
  BY <1>2 DEF OneComponents
<1>7. InnermostInv(objects, table, pipeline, stack)
  BY <1>1 DEF InnermostInv
<1>8. IdleInv(objects, table, pipeline, stack, refused)
  BY <1>2 DEF IdleInv
<1>9. DefaultsInv(objects, table, registered, pipeline, stack)
  BY <1>2 DEF DefaultsInv
<1>. QED
  BY <1>4, <1>5, <1>6, <1>7, <1>8, <1>9 DEF IInv, Inv

LEMMA NextIInv == IInv /\ [Next]_vars => IInv'
<1> SUFFICES ASSUME IInv, [Next]_vars PROVE IInv'
  OBVIOUS
<1>1. CASE UNCHANGED vars
  BY <1>1 DEF vars, IInv
<1>2. ASSUME NEW b \in 1..Len(objects) + 1, NEW o \in Settings, NEW user \in BOOLEAN,
             WithElasticDefaults(b, o, user)
      PROVE  IInv'
  BY <1>2, WithElasticDefaultsStep
<1>3. ASSUME NEW b \in 1..Len(objects) + 1, NEW s \in Signals, NEW o \in Settings \cup {Null},
             NEW inServices \in BOOLEAN, NEW user \in BOOLEAN, WithElasticSignal(b, s, o, inServices, user)
      PROVE  IInv'
  BY <1>3, WithElasticSignalStep
<1>4. CASE ConfigureSignals
  BY <1>4, ConfigureSignalsStep
<1>5. CASE SignalsConfigured
  BY <1>5, SignalsConfiguredStep
<1>6. CASE HandleOtlpExporter
  BY <1>6, HandleOtlpExporterStep
<1>7. CASE ConfigureSignal
  BY <1>7, ConfigureSignalStep
<1>8. CASE AddOtlpExporter
  BY <1>8, AddOtlpExporterStep
<1>9. CASE RunCallback
  BY <1>9, RunCallbackStep
<1>10. CASE CallbackReturns
  BY <1>10, CallbackReturnsStep
<1>11. CASE CallbackThrows
  BY <1>11, CallbackThrowsStep
<1>12. CASE StoreBuilderState
  BY <1>12, StoreBuilderStateStep
<1>. QED
  BY <1>1, <1>2, <1>3, <1>4, <1>5, <1>6, <1>7, <1>8, <1>9, <1>10, <1>11, <1>12 DEF Next

\* The calls of WithElasticDefaults nest as SignalBuilder.Lock lets them, and what
\* each builder has put in the pipelines is what the calls on it have come to.
THEOREM Invariance == Spec => []IInv
<1>1. Init => IInv
  BY InitIInv
<1>2. IInv /\ [Next]_vars => IInv'
  BY NextIInv
<1>. QED
  BY <1>1, <1>2, PTL DEF Spec

-----------------------------------------------------------------------------
(* What the invariant says of settled builders *)

\* The exporters of b in p are counted as ExportedOnce counts them.
LEMMA CountExporters ==
  ASSUME NEW p \in Seq(Entry), NEW b \in Nat
  PROVE  LET found == {i \in 1..Len(p) : p[i] = [step |-> "exporter", by |-> b]} IN
         /\ ExporterOnce(p, b) => Cardinality(found) = 1
         /\ NoExporter(p, b) => Cardinality(found) = 0
<1> DEFINE found == {i \in 1..Len(p) : p[i] = [step |-> "exporter", by |-> b]}
<1>1. ASSUME NEW i \in 1..Len(p) PROVE i \in found <=> IsExporter(p[i], b)
  <2>1. p[i] \in Entry
    BY <1>1, ElementOfSeq
  <2>2. p[i] = [step |-> "exporter", by |-> b] <=> p[i].step = "exporter" /\ p[i].by = b
    BY <2>1 DEF Entry
  <2>. QED
    BY <1>1, <2>2 DEF IsExporter
<1>2. found \subseteq 1..Len(p)
  OBVIOUS
<1> HIDE DEF found
<1>3. ASSUME ExporterOnce(p, b) PROVE Cardinality(found) = 1
  <2>1. PICK i \in 1..Len(p) : IsExporter(p[i], b) /\ \A j \in 1..Len(p) : IsExporter(p[j], b) => j = i
    BY <1>3 DEF ExporterOnce
  <2>2. found = {i}
    BY <1>1, <1>2, <2>1
  <2>. QED
    BY <2>2, FS_Singleton
<1>4. ASSUME NoExporter(p, b) PROVE Cardinality(found) = 0
  <2>1. found = {}
    BY <1>1, <1>2, <1>4 DEF NoExporter
  <2>. QED
    BY <2>1, FS_EmptySet
<1>. QED
  BY <1>3, <1>4 DEF found

LEMMA SettledFacts ==
  ASSUME IInv, NEW b \in Settled
  PROVE  /\ b \in Nat /\ b \in 1..Len(objects) /\ objects[b].root = b
         /\ table[b] \in Settings /\ table[b] # Null /\ objects[b].kind \in Signals \cup {"any"}
         /\ Covers(b) = Scope(objects[b].kind, table[b])
         /\ b \notin refused => Exported(objects[b].kind, table[b], pipeline, b)
         /\ \A s \in Scope(objects[b].kind, table[b]) : s \in Signals /\ DefaultsFirst(pipeline[s], b)
         /\ \A s \in Signals : pipeline[s] \in Seq(Entry)
<1>1. Types(objects, table, registered, pipeline, stack, refused)
  BY DEF IInv, Inv
<1>2. /\ b \in 1..Len(objects) /\ objects[b].root = b /\ table[b] # Null
      /\ \A i \in 1..Len(stack) : stack[i].builder # b
  BY DEF Settled
<1>3. /\ Len(objects) \in Nat /\ objects[b].kind \in Signals \cup {"any"}
      /\ table[b] \in Settings \cup {Null}
  BY <1>1, <1>2, StateTypes
<1>4. b \in Nat /\ table[b] \in Settings
  BY <1>2, <1>3
<1>5. ~Busy(stack, b)
  BY <1>2 DEF Busy
<1>6. b \notin refused => Exported(objects[b].kind, table[b], pipeline, b)
  BY <1>2, <1>5 DEF IInv, Inv, IdleInv
<1>7. \A s \in Scope(objects[b].kind, table[b]) : DefaultsFirst(pipeline[s], b)
  BY <1>2 DEF IInv, Inv, DefaultsInv
<1>8. Scope(objects[b].kind, table[b]) \subseteq Signals
  BY <1>3, <1>4, ScopeInSignals
<1>9. pipeline \in [Signals -> Seq(Entry)]
  BY <1>1 DEF Types
<1>10. Covers(b) = Scope(objects[b].kind, table[b])
  BY DEF Covers, Scope
<1>. QED
  BY <1>2, <1>3, <1>4, <1>6, <1>7, <1>8, <1>9, <1>10

\* Telemetry is exported once: ConfigureBuilder of the IOpenTelemetryBuilder defers the
\* exporters of its signals to the end when it has a callback, and BuilderStateTable
\* keeps a second call from adding another, however calls nest and callbacks fail.
THEOREM ExportersOnce == Spec => []ExportedOnce
<1>1. IInv => ExportedOnce
  <2> SUFFICES ASSUME IInv, NEW b \in Settled \ refused, NEW s \in Signals
               PROVE  Exporters(b, s) = IF s \in Covers(b) /\ ~table[b].skip THEN 1 ELSE 0
    BY DEF ExportedOnce
  <2>1. /\ b \in Nat /\ table[b] # Null /\ Covers(b) = Scope(objects[b].kind, table[b])
        /\ Exported(objects[b].kind, table[b], pipeline, b) /\ pipeline[s] \in Seq(Entry)
    BY SettledFacts
  <2>2. IF s \in Covers(b) /\ ~table[b].skip THEN ExporterOnce(pipeline[s], b) ELSE NoExporter(pipeline[s], b)
    BY <2>1 DEF Exported, Want
  <2>3. /\ ExporterOnce(pipeline[s], b) => Exporters(b, s) = 1
        /\ NoExporter(pipeline[s], b) => Exporters(b, s) = 0
    BY <2>1, CountExporters DEF Exporters
  <2>. QED
    BY <2>2, <2>3
<1>. QED
  BY <1>1, Invariance, PTL

-----------------------------------------------------------------------------
(* What comes behind the exporter. An invariant of its own, of the states that *)
(* satisfy IInv: a builder with a state and a call under way has got the state *)
(* inside its own callback, and for all others nothing of a builder is behind  *)
(* an exporter of it.                                                          *)

\* Nothing of b comes after an exporter of b.
Ordered(p, b) ==
  \A i, j \in 1..Len(p) : i < j /\ p[j].by = b => ~IsExporter(p[i], b)

\* A builder with a state and a call under way is among the re-entered ones.
ReentryInv(tab, st, re) ==
  \A i \in 1..Len(st) : tab[st[i].builder] # Null => st[i].builder \in re

\* Whatever is not re-entered has nothing behind its exporter.
OrderInv(objs, pl, re) ==
  /\ re \subseteq 1..Len(objs)
  /\ \A b \in (1..Len(objs)) \ re, s \in Signals : Ordered(pl[s], b)

AfterInv == ReentryInv(table, stack, reentered) /\ OrderInv(objects, pipeline, reentered)

LEMMA AppendOrdered ==
  ASSUME NEW p \in Seq(Entry), NEW e \in Entry, NEW b, Ordered(p, b), e.by = b => NoExporter(p, b)
  PROVE  Ordered(Append(p, e), b)
<1> DEFINE q == Append(p, e)
<1>1. Len(p) \in Nat /\ Len(q) = Len(p) + 1 /\ q[Len(p) + 1] = e /\ \A i \in 1..Len(p) : q[i] = p[i]
  BY AppendProperties
<1> HIDE DEF q
<1>2. ASSUME NEW i \in 1..Len(q), NEW j \in 1..Len(q), i < j, q[j].by = b
      PROVE  ~IsExporter(q[i], b)
  <2>1. i \in 1..Len(p) /\ q[i] = p[i]
    BY <1>1, <1>2
  <2>2. CASE j = Len(p) + 1
    <3>1. NoExporter(p, b)
      BY <1>1, <1>2, <2>2
    <3>. QED
      BY <2>1, <3>1 DEF NoExporter
  <2>3. CASE j # Len(p) + 1
    <3>1. j \in 1..Len(p) /\ q[j] = p[j]
      BY <1>1, <1>2, <2>3
    <3>. QED
      BY <1>2, <2>1, <3>1 DEF Ordered
  <2>. QED
    BY <2>2, <2>3
<1>3. Ordered(q, b)
  BY <1>2 DEF Ordered
<1>. QED
  BY <1>3 DEF q

\* Entries of r are added, in pipelines that have no exporter of r.
LEMMA AddedOrder ==
  ASSUME IInv, AfterInv, NEW r \in 1..Len(objects), NEW e \in Entry, e.by = r, NEW ss,
         objects' = objects, pipeline' = AddTo(pipeline, ss, e), reentered' = reentered,
         r \notin reentered => \A s \in Signals : s \in ss => NoExporter(pipeline[s], r)
  PROVE  OrderInv(objects, pipeline, reentered)'
<1>1. pipeline \in [Signals -> Seq(Entry)]
  BY DEF IInv, Inv, Types
<1>2. ASSUME NEW b \in (1..Len(objects)) \ reentered, NEW s \in Signals
      PROVE  Ordered(pipeline'[s], b)
  <2>1. Ordered(pipeline[s], b) /\ pipeline[s] \in Seq(Entry)
    BY <1>1, <1>2 DEF AfterInv, OrderInv
  <2>2. pipeline'[s] = IF s \in ss THEN Append(pipeline[s], e) ELSE pipeline[s]
    BY <1>2 DEF AddTo
  <2>3. CASE s \in ss
    <3>1. e.by = b => NoExporter(pipeline[s], b)
      BY <1>2, <2>3
    <3>2. Ordered(Append(pipeline[s], e), b)
      BY <2>1, <3>1, AppendOrdered
    <3>. QED
      BY <2>2, <2>3, <3>2
  <2>4. CASE s \notin ss
    BY <2>1, <2>2, <2>4
  <2>. QED
    BY <2>3, <2>4
<1>3. reentered \subseteq 1..Len(objects)
  BY DEF AfterInv, OrderInv
<1>. QED
  BY <1>2, <1>3 DEF OrderInv

\* A new builder has no entries.
LEMMA NewOrder ==
  ASSUME IInv, AfterInv, NEW kind, NEW root, NEW n, n = Len(objects) + 1, NewObject(kind, root),
         pipeline' = pipeline, reentered' = reentered
  PROVE  /\ OrderInv(objects, pipeline, reentered)'
         /\ Len(objects) \in Nat /\ table'[n] = Null
         /\ \A b \in 1..Len(objects) : table'[b] = table[b]
<1>1. /\ Len(objects) \in Nat /\ Len(table) = Len(objects) /\ objects \in Seq([kind : Signals \cup {"any"}, root : Nat])
      /\ table \in Seq(Settings \cup {Null})
      /\ \A s \in Signals : \A i \in 1..Len(pipeline[s]) : pipeline[s][i].by \in 1..Len(objects)
  BY DEF IInv, Inv, Types
<1>2. Len(objects') = n
  BY <1>1 DEF NewObject
<1>3. table'[n] = Null /\ \A b \in 1..Len(objects) : table'[b] = table[b]
  BY <1>1, AppendProperties DEF NewObject
<1>4. reentered \subseteq 1..Len(objects) /\ \A b \in (1..Len(objects)) \ reentered, s \in Signals : Ordered(pipeline[s], b)
  BY DEF AfterInv, OrderInv
<1>5. ASSUME NEW b \in (1..n) \ reentered, NEW s \in Signals PROVE Ordered(pipeline[s], b)
  <2>1. CASE b = n
    <3>1. n \notin 1..Len(objects)
      BY <1>1
    <3>. QED
      BY <1>1, <2>1, <3>1 DEF Ordered
  <2>2. CASE b # n
    <3>1. b \in 1..Len(objects)
      BY <1>1, <1>5, <2>2
    <3>. QED
      BY <1>4, <1>5, <3>1
  <2>. QED
    BY <2>1, <2>2
<1>6. reentered \subseteq 1..n
  BY <1>1, <1>4
<1>. QED
  BY <1>1, <1>2, <1>3, <1>5, <1>6 DEF OrderInv

\* A step that goes on with the same builders.
LEMMA SameBuilders ==
  ASSUME AfterInv, NEW tab, NEW st2, Len(st2) = Len(stack),
         \A i \in 1..Len(stack) : st2[i].builder = stack[i].builder,
         \A i \in 1..Len(stack) : tab[stack[i].builder] = table[stack[i].builder]
  PROVE  ReentryInv(tab, st2, reentered)
  BY DEF AfterInv, ReentryInv

\* A call is begun on a builder without a state.
LEMMA PushReentry ==
  ASSUME NEW tab, NEW st \in Seq(Frames), NEW re, ReentryInv(tab, st, re), NEW f, tab[f.builder] = Null
  PROVE  ReentryInv(tab, <<f>> \o st, re)
<1> DEFINE S == Frames \cup {f}
           st2 == <<f>> \o st
<1>1. st \in Seq(S) /\ <<f>> \in Seq(S) /\ Len(<<f>>) = 1 /\ <<f>>[1] = f /\ Len(st) \in Nat
  BY SeqMonotonic
<1>2. Len(st2) = 1 + Len(st) /\ \A i \in 1..1 + Len(st) : st2[i] = IF i <= 1 THEN <<f>>[i] ELSE st[i - 1]
  BY <1>1, ConcatProperties
<1> HIDE DEF st2
<1>3. ReentryInv(tab, st2, re)
  <2>1. SUFFICES ASSUME NEW i \in 1..1 + Len(st), tab[st2[i].builder] # Null PROVE st2[i].builder \in re
    BY <1>2 DEF ReentryInv
  <2>2. CASE i = 1
    BY <1>1, <1>2, <2>1, <2>2
  <2>3. CASE i # 1
    <3>1. i - 1 \in 1..Len(st) /\ st2[i] = st[i - 1]
      BY <1>1, <1>2, <2>1, <2>3
    <3>. QED
      BY <2>1, <3>1 DEF ReentryInv
  <2>. QED
    BY <2>2, <2>3
<1>. QED
  BY <1>3 DEF st2

\* The application calls WithElasticDefaults or one of its siblings.
LEMMA CalledAfter ==
  ASSUME IInv, AfterInv, NEW b \in 1..Len(objects) + 1, NEW kind, NEW o, NEW inServices, NEW user,
         IF b > Len(objects) THEN NewObject(kind, 0) ELSE UNCHANGED <<objects, table>>,
         Skip \/ ((b <= Len(objects) => table[b] = Null) /\ Begin(b, o, inServices, user, FALSE)),
         pipeline' = pipeline, reentered' = reentered
  PROVE  AfterInv'
<1>1. Types(objects, table, registered, pipeline, stack, refused)
  BY DEF IInv, Inv
<1>2. Len(objects) \in Nat /\ stack \in Seq(Frames) /\ \A i \in 1..Len(stack) : stack[i].builder \in 1..Len(objects)
  BY <1>1 DEF Types
<1>3. /\ OrderInv(objects, pipeline, reentered)'
      /\ \A c \in 1..Len(objects) : table'[c] = table[c]
      /\ b > Len(objects) => table'[b] = Null
  <2>1. CASE b > Len(objects)
    <3>1. b = Len(objects) + 1
      BY <1>2, <2>1
    <3>. QED
      BY <2>1, <3>1, NewOrder
  <2>2. CASE ~(b > Len(objects))
    BY <2>2 DEF AfterInv, OrderInv
  <2>. QED
    BY <2>1, <2>2
<1>4. ReentryInv(table', stack, reentered)
  BY <1>2, <1>3, SameBuilders
<1>5. ReentryInv(table', stack', reentered)
  <2>1. CASE Skip
    BY <1>4, <2>1 DEF Skip
  <2>2. CASE (b <= Len(objects) => table[b] = Null) /\ Begin(b, o, inServices, user, FALSE)
    <3> DEFINE f == [builder |-> b, components |-> Bootstrap(IF o = Null THEN Default ELSE o, inServices),
                     user |-> user, defer |-> FALSE, todo |-> SignalOrder, at |-> "defaults"]
    <3>1. stack' = <<f>> \o stack
      BY <2>2 DEF Begin
    <3>2. f.builder = b
      OBVIOUS
    <3>3. table'[b] = Null
      <4>1. CASE b > Len(objects)
        BY <1>3, <4>1
      <4>2. CASE ~(b > Len(objects))
        <5>1. b \in 1..Len(objects) /\ b <= Len(objects)
          BY <1>2, <4>2
        <5>. QED
          BY <1>3, <2>2, <5>1
      <4>. QED
        BY <4>1, <4>2
    <3> HIDE DEF f
    <3>. QED
      BY <1>2, <1>4, <3>1, <3>2, <3>3, PushReentry
  <2>. QED
    BY <2>1, <2>2
<1>. QED
  BY <1>3, <1>5 DEF AfterInv

\* The innermost call goes on, and may have added entries.
LEMMA MovedAfter ==
  ASSUME IInv, AfterInv, stack # << >>, NEW a \in Positions, Goto(a),
         table' = table, reentered' = reentered, OrderInv(objects, pipeline, reentered)'
  PROVE  AfterInv'
<1>1. stack \in Seq(Frames) /\ Len(stack) \in Nat
  BY DEF IInv, Inv, Types
<1>2. stack' = [stack EXCEPT ![1].at = a]
  BY DEF Goto
<1>3. /\ Len(stack') = Len(stack) /\ stack'[1].builder = stack[1].builder
      /\ \A i \in 2..Len(stack) : stack'[i] = stack[i]
  BY <1>1, <1>2, UpdateTop
<1>4. \A i \in 1..Len(stack) : stack'[i].builder = stack[i].builder
  BY <1>1, <1>3
<1>5. ReentryInv(table, stack', reentered)
  BY <1>3, <1>4, SameBuilders
<1>. QED
  BY <1>5 DEF AfterInv

\* Before the call on top adds the defaults or the exporter of its signal there is no
\* exporter of its builder there, unless the builder got a state inside the callback.
LEMMA TopNoExporter ==
  ASSUME IInv, AfterInv, stack # << >>, NEW b1, b1 = stack[1].builder, NEW kind, kind = objects[b1].kind,
         NEW r, r = objects[b1].root, r \notin reentered,
         stack[1].at = "export" \/ (stack[1].at = "defaults" /\ kind # "any")
  PROVE  /\ kind \in Signals => NoExporter(pipeline[kind], r)
         /\ kind = "any" => \A s \in Signals : NoExporter(pipeline[s], r)
<1>1. /\ Types(objects, table, registered, pipeline, stack, refused) /\ b1 \in 1..Len(objects)
      /\ r # b1 => Len(stack) >= 2 /\ ChildOf(objects, stack[1], stack[2])
  BY TopFacts
<1>2. Len(stack) \in Nat /\ 1 \in 1..Len(stack)
  BY <1>1, StateTypes
<1>3. CASE r = b1
  <2>1. Progress(kind, table[b1], pipeline, stack[1], ToSet(stack[1].todo), ToSet(stack[1].todo))
    BY <1>3 DEF IInv, Inv, InnermostInv
  <2>2. table[b1] = Null
    BY <1>2, <1>3 DEF AfterInv, ReentryInv
  <2>3. \A s \in Signals : NoExporter(pipeline[s], b1)
    BY <2>1, <2>2 DEF Progress
  <2>. QED
    BY <1>3, <2>3
<1>4. CASE r # b1
  <2> DEFINE g == stack[2]
             X == ToSet(g.todo) \cup UntilExport(objects, stack[1])
             Y == ToSet(g.todo) \cup UntilDefaults(objects, stack[1])
  <2>1. Len(stack) >= 2 /\ r = g.builder /\ objects[r].kind = "any" /\ g.at = "defaults"
    BY <1>1, <1>4 DEF ChildOf
  <2>2. 2 \in 1..Len(stack)
    BY <1>2, <2>1
  <2>3. table[r] = Null
    BY <2>1, <2>2 DEF AfterInv, ReentryInv
  <2>4. Progress("any", table[r], pipeline, g, X, Y)
    BY <1>4, <2>1 DEF IInv, Inv, InnermostInv
  <2>5. kind \in X
    BY DEF UntilExport
  <2>7. kind # "any"
    BY <1>1, <1>4 DEF Types
  <2> HIDE DEF g, X, Y
  <2>6. kind \in Signals => NoExporter(pipeline[kind], r)
    BY <2>1, <2>3, <2>4, <2>5 DEF Progress
  <2>. QED
    BY <2>6, <2>7
<1>. QED
  BY <1>3, <1>4

\* The steps of the innermost call that add to the pipelines.
LEMMA AddsAfter ==
  ASSUME IInv, AfterInv, HandleOtlpExporter \/ ConfigureSignal \/ AddOtlpExporter PROVE AfterInv'
<1> DEFINE b1 == stack[1].builder
           r == objects[b1].root
           kind == objects[b1].kind
<1>1. stack # << >>
  BY DEF HandleOtlpExporter, ConfigureSignal, AddOtlpExporter
<1>2. /\ Top = stack[1] /\ TopObject = objects[b1]
      /\ Types(objects, table, registered, pipeline, stack, refused)
      /\ b1 \in 1..Len(objects) /\ r \in 1..Len(objects) /\ kind \in Signals \cup {"any"}
  BY <1>1, TopFacts
<1>3. stack[1].at = "export" \/ (stack[1].at = "defaults" /\ kind # "any")
  BY <1>2 DEF HandleOtlpExporter, ConfigureSignal, AddOtlpExporter
<1>4. r \in Nat
  BY <1>2 DEF Types
<1>5. objects' = objects /\ table' = table /\ reentered' = reentered
  BY DEF HandleOtlpExporter, ConfigureSignal, AddOtlpExporter
<1>6. PICK step, ss :
        step \in {"defaults", "exporter"} /\ Add(step, ss) /\ (kind # "any" => ss \subseteq {kind})
  <2>1. CASE HandleOtlpExporter
    BY <1>2, <2>1 DEF HandleOtlpExporter
  <2>2. CASE ConfigureSignal
    BY <1>2, <2>2 DEF ConfigureSignal
  <2>3. CASE AddOtlpExporter
    BY <1>2, <2>3 DEF AddOtlpExporter
  <2>. QED
    BY <2>1, <2>2, <2>3
<1>7. PICK a \in Positions : Goto(a)
  BY DEF HandleOtlpExporter, ConfigureSignal, AddOtlpExporter, Positions
<1> DEFINE e == [step |-> step, by |-> r]
<1>8. e \in Entry /\ e.by = r
  BY <1>4, <1>6, EntryType
<1>9. pipeline' = AddTo(pipeline, ss, e)
  BY <1>2, <1>6 DEF Add, AddTo
<1> HIDE DEF e
<1>10. r \notin reentered => \A s \in Signals : s \in ss => NoExporter(pipeline[s], r)
  <2>1. SUFFICES ASSUME r \notin reentered, NEW s \in Signals, s \in ss PROVE NoExporter(pipeline[s], r)
    OBVIOUS
  <2>2. /\ kind \in Signals => NoExporter(pipeline[kind], r)
        /\ kind = "any" => \A t \in Signals : NoExporter(pipeline[t], r)
    BY <1>1, <1>3, <2>1, TopNoExporter
  <2>3. kind # "any" => s = kind
    BY <1>6, <2>1
  <2> HIDE DEF kind, r
  <2>. QED
    BY <2>1, <2>2, <2>3
<1>11. OrderInv(objects, pipeline, reentered)'
  BY <1>2, <1>5, <1>8, <1>9, <1>10, AddedOrder
<1>. QED
  BY <1>1, <1>5, <1>7, <1>11, MovedAfter

\* A callback adds an entry to a builder whose call is under way. Without a state the
\* builder has no exporter yet; with one it has got it inside its callback.
LEMMA CallbackAfter ==
  ASSUME IInv, AfterInv, RunCallback PROVE AfterInv'
<1>1. stack # << >> /\ stack[1].at = "callback"
  BY DEF RunCallback, UserRuns, Top
<1>2. /\ Types(objects, table, registered, pipeline, stack, refused)
      /\ Nesting(objects, stack) /\ IdleInv(objects, table, pipeline, stack, refused)
  BY DEF IInv, Inv
<1>3. \A i \in 1..Len(stack) : stack[i].at = "callback" /\ objects[stack[i].builder].root = stack[i].builder
  BY <1>1, <1>2, AllInCallbacks DEF Types
<1>4. PICK i0 \in 1..Len(stack), s0 \in Signals :
        LET b == stack[i0].builder IN
        /\ objects[b].kind \in {s0, "any"}
        /\ pipeline' = [pipeline EXCEPT ![s0] = Append(@, [step |-> "user", by |-> objects[b].root])]
  BY DEF RunCallback
<1> DEFINE r == stack[i0].builder
           e == [step |-> "user", by |-> r]
<1>5. UNCHANGED <<objects, table, stack, reentered>>
  BY DEF RunCallback
<1>6. r \in 1..Len(objects) /\ objects[r].root = r /\ r \in Nat
  BY <1>2, <1>3, StateTypes DEF Types
<1>7. e \in Entry /\ e.by = r
  BY <1>6, EntryType
<1>8. pipeline' = AddTo(pipeline, {s0}, e)
  <2>1. pipeline = [s \in Signals |-> pipeline[s]]
    BY <1>2 DEF Types
  <2>. QED
    BY <1>4, <1>6, <2>1 DEF AddTo
<1> HIDE DEF e
<1>9. r \notin reentered => \A s \in Signals : NoExporter(pipeline[s], r)
  <2>1. SUFFICES ASSUME r \notin reentered PROVE \A s \in Signals : NoExporter(pipeline[s], r)
    OBVIOUS
  <2>2. table[r] = Null
    BY <2>1 DEF AfterInv, ReentryInv
  <2>3. r \notin refused /\ ~Busy(stack, r)
    BY <1>2, <1>3, <2>2 DEF Types, Busy
  <2>4. Exported(objects[r].kind, table[r], pipeline, r)
    BY <1>2, <1>6, <2>3 DEF IdleInv
  <2>. QED
    BY <2>2, <2>4 DEF Exported
<1>10. OrderInv(objects, pipeline, reentered)'
  BY <1>5, <1>6, <1>7, <1>8, <1>9, AddedOrder
<1>. QED
  BY <1>5, <1>10 DEF AfterInv

\* The innermost call ends. If it stores a state for its builder, the calls around it
\* on the same builder are in their callbacks.
LEMMA EndsAfter ==
  ASSUME IInv, AfterInv, CallbackThrows \/ StoreBuilderState PROVE AfterInv'
<1> DEFINE b1 == stack[1].builder
<1>1. stack # << >> /\ stack' = Tail(stack) /\ objects' = objects /\ pipeline' = pipeline
  BY DEF CallbackThrows, StoreBuilderState
<1>2. Top = stack[1] /\ b1 \in 1..Len(objects) /\ Types(objects, table, registered, pipeline, stack, refused)
  BY <1>1, TopFacts
<1>3. stack \in Seq(Frames) /\ table \in Seq(Settings \cup {Null}) /\ Len(table) = Len(objects)
  BY <1>2 DEF Types
<1>4. \A i \in 1..Len(stack') : i + 1 \in 2..Len(stack) /\ stack'[i] = stack[i + 1]
  BY <1>1, <1>3, Popped
<1>5. Len(stack) \in Nat /\ \A i \in 2..Len(stack) : i \in 1..Len(stack)
  BY <1>3
<1>6. /\ reentered \subseteq reentered' /\ reentered' \subseteq reentered \cup {b1}
      /\ \A i \in 2..Len(stack) : table'[stack[i].builder] # Null => stack[i].builder \in reentered'
  <2>1. \A i \in 2..Len(stack) : table[stack[i].builder] # Null => stack[i].builder \in reentered
    BY <1>5 DEF AfterInv, ReentryInv
  <2>2. CASE table' = table /\ reentered' = reentered
    BY <2>1, <2>2
  <2>3. CASE StoreBuilderState /\ table[b1] = Null
    <3>1. /\ table' = [table EXCEPT ![b1] = stack[1].components]
          /\ reentered' = reentered \cup ({b1} \cap {stack[i].builder : i \in 2..Len(stack)})
      BY <1>2, <2>3 DEF StoreBuilderState
    <3>2. \A c : c # b1 => table'[c] = table[c]
      BY <3>1
    <3>3. ASSUME NEW i \in 2..Len(stack), table'[stack[i].builder] # Null PROVE stack[i].builder \in reentered'
      BY <2>1, <3>1, <3>2, <3>3
    <3>. QED
      BY <3>1, <3>3
  <2>4. CASE StoreBuilderState /\ table[b1] # Null
    BY <1>2, <2>2, <2>4 DEF StoreBuilderState
  <2>5. CASE CallbackThrows
    BY <2>2, <2>5 DEF CallbackThrows
  <2>. QED
    BY <2>3, <2>4, <2>5
<1>7. ReentryInv(table', stack', reentered')
  BY <1>4, <1>6 DEF ReentryInv
<1>8. OrderInv(objects, pipeline, reentered')
  BY <1>2, <1>6 DEF AfterInv, OrderInv
<1>. QED
  BY <1>1, <1>7, <1>8 DEF AfterInv

\* A call on a new builder of the next signal, or none.
LEMMA SignalsAfter ==
  ASSUME IInv, AfterInv, ConfigureSignals PROVE AfterInv'
<1> DEFINE n == Len(objects) + 1
           rest == RestOf(stack)
           c == [builder |-> n, components |-> Top.components, user |-> FALSE,
                 defer |-> Top.user, todo |-> SignalOrder, at |-> "defaults"]
<1>1. Types(objects, table, registered, pipeline, stack, refused)
  BY DEF IInv, Inv
<1>2. /\ stack # << >> /\ stack[1].todo # << >> /\ pipeline' = pipeline /\ reentered' = reentered
      /\ \/ NewObject(Head(Top.todo), Top.builder) /\ stack' = <<c>> \o rest
         \/ objects' = objects /\ table' = table /\ stack' = rest
  <2>1. /\ stack # << >> /\ Top.todo # << >> /\ pipeline' = pipeline /\ reentered' = reentered
    BY DEF ConfigureSignals
  <2>2. CASE Head(Top.todo) \in Top.components.signals
    <3>1. NewObject(Head(Top.todo), Top.builder)
      BY <2>2 DEF ConfigureSignals
    <3>2. stack' = <<c>> \o rest
      BY <2>2 DEF ConfigureSignals, RestOf
    <3>. QED
      BY <2>1, <3>1, <3>2 DEF Top
  <2>3. CASE Head(Top.todo) \notin Top.components.signals
    <3>1. objects' = objects /\ table' = table /\ stack' = rest
      BY <2>3 DEF ConfigureSignals, RestOf
    <3>. QED
      BY <2>1, <3>1 DEF Top
  <2>. QED
    BY <2>2, <2>3
<1>3. /\ stack \in Seq(Frames) /\ Len(stack) \in Nat /\ 1 \in 1..Len(stack)
      /\ \A i \in 1..Len(stack) : stack[i].builder \in 1..Len(objects) /\ IsInjective(stack[i].todo)
  BY <1>1, <1>2, StateTypes DEF Types
<1>4. RestProps(stack, rest)
  BY <1>2, <1>3, RestFacts
<1>5. c.builder = n
  OBVIOUS
<1> HIDE DEF rest, c
<1>6. /\ rest \in Seq(Frames) /\ Len(rest) = Len(stack)
      /\ \A i \in 1..Len(stack) : rest[i].builder = stack[i].builder
  BY <1>3, <1>4 DEF RestProps
<1>7. CASE objects' = objects /\ table' = table /\ stack' = rest
  <2>1. ReentryInv(table, rest, reentered)
    BY <1>6, SameBuilders
  <2>. QED
    BY <1>2, <1>7, <2>1 DEF AfterInv, OrderInv
<1>8. CASE NewObject(Head(Top.todo), Top.builder) /\ stack' = <<c>> \o rest
  <2>1. /\ OrderInv(objects, pipeline, reentered)'
        /\ table'[n] = Null /\ \A b \in 1..Len(objects) : table'[b] = table[b]
    BY <1>2, <1>8, NewOrder
  <2>2. ReentryInv(table', rest, reentered)
    BY <1>3, <1>6, <2>1, SameBuilders
  <2>3. ReentryInv(table', stack', reentered)
    BY <1>5, <1>6, <1>8, <2>1, <2>2, PushReentry
  <2>. QED
    BY <1>2, <2>1, <2>3 DEF AfterInv
<1>. QED
  BY <1>2, <1>7, <1>8

LEMMA AfterStep == IInv /\ AfterInv /\ [Next]_vars => AfterInv'
<1> SUFFICES ASSUME IInv, AfterInv, [Next]_vars PROVE AfterInv'
  OBVIOUS
<1>1. CASE UNCHANGED vars
  BY <1>1 DEF vars, AfterInv, ReentryInv, OrderInv
<1>2. ASSUME NEW b \in 1..Len(objects) + 1, NEW o \in Settings, NEW user \in BOOLEAN,
             WithElasticDefaults(b, o, user)
      PROVE  AfterInv'
  <2>1. /\ IF b > Len(objects) THEN NewObject("any", 0) ELSE UNCHANGED <<objects, table>>
        /\ Skip \/ ((b <= Len(objects) => table[b] = Null) /\ Begin(b, o, TRUE, user, FALSE))
        /\ pipeline' = pipeline /\ reentered' = reentered
    BY <1>2 DEF WithElasticDefaults
  <2>. QED
    BY <2>1, CalledAfter
<1>3. ASSUME NEW b \in 1..Len(objects) + 1, NEW s \in Signals, NEW o \in Settings \cup {Null},
             NEW inServices \in BOOLEAN, NEW user \in BOOLEAN, WithElasticSignal(b, s, o, inServices, user)
      PROVE  AfterInv'
  <2>1. /\ IF b > Len(objects) THEN NewObject(s, 0) ELSE UNCHANGED <<objects, table>>
        /\ Skip \/ ((b <= Len(objects) => table[b] = Null) /\ Begin(b, o, inServices, user, FALSE))
        /\ pipeline' = pipeline /\ reentered' = reentered
    BY <1>3 DEF WithElasticSignal
  <2>. QED
    BY <2>1, CalledAfter
<1>4. CASE ConfigureSignals
  BY <1>4, SignalsAfter
<1>5. CASE SignalsConfigured \/ CallbackReturns
  <2>1. PICK a \in Positions : Goto(a)
    BY <1>5 DEF SignalsConfigured, CallbackReturns, Positions
  <2>2. stack # << >> /\ UNCHANGED <<objects, table, pipeline, reentered>>
    BY <1>5 DEF SignalsConfigured, CallbackReturns
  <2>3. OrderInv(objects, pipeline, reentered)'
    BY <2>2 DEF AfterInv, OrderInv
  <2>. QED
    BY <2>1, <2>2, <2>3, MovedAfter
<1>6. CASE HandleOtlpExporter \/ ConfigureSignal \/ AddOtlpExporter
  BY <1>6, AddsAfter
<1>7. CASE RunCallback
  BY <1>7, CallbackAfter
<1>8. CASE CallbackThrows \/ StoreBuilderState
  BY <1>8, EndsAfter
<1>. QED
  BY <1>1, <1>2, <1>3, <1>4, <1>5, <1>6, <1>7, <1>8 DEF Next

THEOREM AfterInvariance == Spec => []AfterInv
<1>1. Init => AfterInv
  <2> SUFFICES ASSUME Init PROVE AfterInv
    OBVIOUS
  <2>1. Len(stack) = 0 /\ Len(objects) = 0 /\ 1..0 = {} /\ reentered = {}
    BY DEF Init
  <2>. QED
    BY <2>1 DEF AfterInv, ReentryInv, OrderInv
<1>2. IInv /\ AfterInv /\ [Next]_vars => AfterInv'
  BY AfterStep
<1>. QED
  BY <1>1, <1>2, Invariance, PTL DEF Spec

\* The callback runs between the defaults and the exporter: ConfigureBuilder adds the
\* defaults of a signal before the UserProvidedConfigureBuilder and its exporter after.
\* What a callback adds after a call it makes on its own builder is behind the exporter
\* of that call, but the defaults are first even then.
THEOREM CustomisedOrder == Spec => []CustomisedInBetween
<1>1. IInv /\ AfterInv => CustomisedInBetween
  <2> SUFFICES ASSUME IInv, AfterInv, NEW b \in Settled, NEW s \in Covers(b)
               PROVE  /\ \E first \in Entries(b, s) :
                           pipeline[s][first].step = "defaults" /\ \A i \in Entries(b, s) : first <= i
                      /\ b \notin reentered =>
                           \A i, j \in Entries(b, s) : i < j => pipeline[s][i].step # "exporter"
    BY DEF CustomisedInBetween
  <2> DEFINE p == pipeline[s]
  <2>1. /\ s \in Signals /\ DefaultsFirst(p, b) /\ p \in Seq(Entry) /\ b \in Nat /\ b \in 1..Len(objects)
    BY SettledFacts
  <2>2. Entries(b, s) = {i \in 1..Len(p) : p[i].by = b}
    BY DEF Entries
  <2>3. b \notin reentered => Ordered(p, b)
    BY <2>1 DEF AfterInv, OrderInv
  <2> HIDE DEF p
  <2>4. Len(p) \in Nat
    BY <2>1
  <2>5. \E first \in Entries(b, s) : p[first].step = "defaults" /\ \A i \in Entries(b, s) : first <= i
    BY <2>1, <2>2, <2>4 DEF DefaultsFirst
  <2>6. ASSUME b \notin reentered, NEW i \in Entries(b, s), NEW j \in Entries(b, s), i < j
        PROVE  p[i].step # "exporter"
    BY <2>2, <2>3, <2>6 DEF Ordered, IsExporter
  <2>. QED
    BY <2>5, <2>6 DEF p
<1>. QED
  BY <1>1, Invariance, AfterInvariance, PTL

-----------------------------------------------------------------------------
(* Types. What the invariant leaves out: a call has the last of the signals to *)
(* do, in their order, and calls are counted.                                  *)

TodoLists == {SubSeq(SignalOrder, i, Len(SignalOrder)) : i \in 1..Len(SignalOrder) + 1}

TodoListed(st) == \A i \in 1..Len(st) : st[i].todo \in TodoLists

TodoInv == TodoListed(stack) /\ calls \in 0..MaxCalls

LEMMA TodoListTail ==
  ASSUME NEW t \in TodoLists, t # << >>
  PROVE  Tail(t) \in TodoLists
<1> DEFINE n == Len(SignalOrder)
<1>1. SignalOrder \in Seq(Signals) /\ n \in Nat
  BY SignalsAssumption
<1>2. PICK i \in 1..n + 1 : t = SubSeq(SignalOrder, i, n)
  BY DEF TodoLists
<1>3. i # n + 1
  BY <1>1, <1>2, SubSeqEmpty
<1>4. i \in 1..n /\ n \in i..n /\ i + 1 \in 1..n + 1
  BY <1>1, <1>2, <1>3
<1>5. Tail(t) = SubSeq(SignalOrder, i + 1, n)
  BY <1>1, <1>2, <1>4, HeadTailOfSubSeq
<1>. QED
  BY <1>4, <1>5 DEF TodoLists

LEMMA TodoListAll == SignalOrder \in TodoLists
<1>1. SignalOrder \in Seq(Signals) /\ Len(SignalOrder) \in Nat
  BY SignalsAssumption
<1>2. SignalOrder = SubSeq(SignalOrder, 1, Len(SignalOrder)) /\ 1 \in 1..Len(SignalOrder) + 1
  BY <1>1, SubSeqFull
<1>. QED
  BY <1>2 DEF TodoLists

LEMMA TodoGoto ==
  ASSUME NEW st \in Seq(Frames), st # << >>, TodoListed(st), NEW a \in Positions
  PROVE  TodoListed([st EXCEPT ![1].at = a])
<1> DEFINE st2 == [st EXCEPT ![1].at = a]
<1>1. Len(st2) = Len(st) /\ st2[1].todo = st[1].todo /\ \A i \in 2..Len(st) : st2[i] = st[i]
  BY UpdateTop
<1>2. Len(st) \in Nat /\ 1 \in 1..Len(st)
  OBVIOUS
<1> HIDE DEF st2
<1>3. TodoListed(st2)
  BY <1>1, <1>2 DEF TodoListed
<1>. QED
  BY <1>3 DEF st2

LEMMA TodoPush ==
  ASSUME NEW st \in Seq(Frames), TodoListed(st), NEW f, f.todo \in TodoLists
  PROVE  TodoListed(<<f>> \o st)
<1> DEFINE S == Frames \cup {f}
           st2 == <<f>> \o st
<1>1. st \in Seq(S) /\ <<f>> \in Seq(S) /\ Len(<<f>>) = 1 /\ <<f>>[1] = f /\ Len(st) \in Nat
  BY SeqMonotonic
<1>2. Len(st2) = 1 + Len(st) /\ \A i \in 1..1 + Len(st) : st2[i] = IF i <= 1 THEN <<f>>[i] ELSE st[i - 1]
  BY <1>1, ConcatProperties
<1> HIDE DEF st2
<1>3. TodoListed(st2)
  <2>1. SUFFICES ASSUME NEW i \in 1..1 + Len(st) PROVE st2[i].todo \in TodoLists
    BY <1>2 DEF TodoListed
  <2>2. CASE i = 1
    BY <1>1, <1>2, <2>2
  <2>3. CASE i # 1
    <3>1. i - 1 \in 1..Len(st) /\ st2[i] = st[i - 1]
      BY <1>1, <1>2, <2>1, <2>3
    <3>. QED
      BY <3>1 DEF TodoListed
  <2>. QED
    BY <2>2, <2>3
<1>. QED
  BY <1>3 DEF st2

LEMMA TodoPop ==
  ASSUME NEW st \in Seq(Frames), st # << >>, TodoListed(st), NEW st2, st2 = Tail(st)
  PROVE  TodoListed(st2)
<1>1. \A i \in 1..Len(st2) : i + 1 \in 2..Len(st) /\ st2[i] = st[i + 1]
  BY Popped
<1>2. \A i \in 2..Len(st) : i \in 1..Len(st)
  BY LenProperties
<1>. QED
  BY <1>1, <1>2 DEF TodoListed

LEMMA TodoStep == IInv /\ TodoInv /\ [Next]_vars => TodoInv'
<1> SUFFICES ASSUME IInv, TodoInv, [Next]_vars PROVE TodoInv'
  OBVIOUS
<1>1. stack \in Seq(Frames) /\ TodoListed(stack) /\ calls \in 0..MaxCalls
  BY DEF IInv, Inv, Types, TodoInv
<1>2. CASE UNCHANGED vars
  BY <1>1, <1>2 DEF vars, TodoInv
\* The steps that only move the innermost call on.
<1>3. ASSUME stack # << >>, calls' = calls, NEW a \in Positions, Goto(a) PROVE TodoInv'
  BY <1>1, <1>3, TodoGoto DEF Goto, TodoInv
<1>4. "store" \in Positions /\ "export" \in Positions /\ "callback" \in Positions
  BY DEF Positions
<1>5. CASE SignalsConfigured \/ ConfigureSignal
  BY <1>3, <1>4, <1>5 DEF SignalsConfigured, ConfigureSignal
<1>6. CASE HandleOtlpExporter \/ AddOtlpExporter \/ CallbackReturns
  BY <1>3, <1>4, <1>6 DEF HandleOtlpExporter, AddOtlpExporter, CallbackReturns
<1>13. CASE RunCallback
  BY <1>1, <1>13 DEF RunCallback, TodoInv
<1>7. CASE CallbackThrows \/ StoreBuilderState
  BY <1>1, <1>7, TodoPop DEF CallbackThrows, StoreBuilderState, TodoInv
\* The steps that begin a call of the application.
<1>8. ASSUME NEW b, NEW o, NEW inServices, NEW user, Skip \/ Begin(b, o, inServices, user, FALSE)
      PROVE  TodoListed(stack')
  <2>1. CASE Skip
    BY <1>1, <2>1 DEF Skip
  <2>2. CASE Begin(b, o, inServices, user, FALSE)
    <3> DEFINE f == [builder |-> b, components |-> Bootstrap(IF o = Null THEN Default ELSE o, inServices),
                     user |-> user, defer |-> FALSE, todo |-> SignalOrder, at |-> "defaults"]
    <3>1. stack' = <<f>> \o stack
      BY <2>2 DEF Begin
    <3>2. f.todo \in TodoLists
      BY TodoListAll
    <3> HIDE DEF f
    <3>. QED
      BY <1>1, <3>1, <3>2, TodoPush
  <2>. QED
    BY <1>8, <2>1, <2>2
<1>9. ASSUME calls < MaxCalls, calls' = calls + 1 PROVE calls' \in 0..MaxCalls
  BY <1>1, <1>9, BuildersAssumption
<1>10. ASSUME NEW b \in 1..Len(objects) + 1, NEW o \in Settings, NEW user \in BOOLEAN,
              WithElasticDefaults(b, o, user)
       PROVE  TodoInv'
  <2>1. Skip \/ Begin(b, o, TRUE, user, FALSE)
    BY <1>10 DEF WithElasticDefaults
  <2>2. calls < MaxCalls /\ calls' = calls + 1
    BY <1>10 DEF WithElasticDefaults
  <2>. QED
    BY <1>8, <1>9, <2>1, <2>2 DEF TodoInv
<1>11. ASSUME NEW b \in 1..Len(objects) + 1, NEW s \in Signals, NEW o \in Settings \cup {Null},
              NEW inServices \in BOOLEAN, NEW user \in BOOLEAN, WithElasticSignal(b, s, o, inServices, user)
       PROVE  TodoInv'
  <2>1. Skip \/ Begin(b, o, inServices, user, FALSE)
    BY <1>11 DEF WithElasticSignal
  <2>2. calls < MaxCalls /\ calls' = calls + 1
    BY <1>11 DEF WithElasticSignal
  <2>. QED
    BY <1>8, <1>9, <2>1, <2>2 DEF TodoInv
<1>12. CASE ConfigureSignals
  <2> DEFINE rest == RestOf(stack)
             c == [builder |-> Len(objects) + 1, components |-> Top.components, user |-> FALSE,
                   defer |-> Top.user, todo |-> SignalOrder, at |-> "defaults"]
  <2>1. stack # << >> /\ stack[1].todo # << >> /\ calls' = calls
    BY <1>12 DEF ConfigureSignals, Top
  <2>2. stack' = rest \/ stack' = <<c>> \o rest
    BY <1>12 DEF ConfigureSignals, RestOf
  <2>3. c.todo \in TodoLists
    BY TodoListAll
  <2>4. Len(stack) \in Nat /\ 1 \in 1..Len(stack)
    BY <1>1, <2>1
  <2>5. IsInjective(stack[1].todo)
    BY <2>4 DEF IInv, Inv, Types
  <2>6. RestProps(stack, rest)
    BY <1>1, <2>1, <2>5, RestFacts
  <2> HIDE DEF rest, c
  <2>7. /\ rest \in Seq(Frames) /\ Len(rest) = Len(stack) /\ rest[1].todo = Tail(stack[1].todo)
        /\ \A i \in 2..Len(stack) : rest[i] = stack[i]
    BY <2>6 DEF RestProps
  <2>8. rest[1].todo \in TodoLists
    BY <1>1, <2>1, <2>4, <2>7, TodoListTail DEF TodoListed
  <2>9. TodoListed(rest)
    BY <1>1, <2>4, <2>7, <2>8 DEF TodoListed
  <2>10. TodoListed(<<c>> \o rest)
    BY <2>3, <2>7, <2>9, TodoPush
  <2>. QED
    BY <1>1, <2>1, <2>2, <2>9, <2>10 DEF TodoInv
<1>. QED
  BY <1>2, <1>5, <1>6, <1>7, <1>10, <1>11, <1>12, <1>13 DEF Next

\* The references of the code are to builders that exist, a call in ConfigureBuilder has
\* the last signals of its list left to do, and BuilderStateTable has no other keys.
THEOREM TypeCorrect == Spec => []TypeOK
<1>1. Init => TodoInv
  BY BuildersAssumption DEF Init, TodoInv, TodoListed
<1>2. IInv /\ AfterInv /\ TodoInv => TypeOK
  <2> SUFFICES ASSUME IInv, AfterInv, TodoInv PROVE TypeOK
    OBVIOUS
  <2> DEFINE n == Len(objects)
             Obj == [kind : Signals \cup {"any"}, root : 1..n]
             Put == [step : {"defaults", "user", "exporter"}, by : 1..n]
  <2>1. Types(objects, table, registered, pipeline, stack, refused)
    BY DEF IInv, Inv
  <2>2. objects \in Seq(Obj)
    <3>1. objects \in Seq([kind : Signals \cup {"any"}, root : Nat])
      BY <2>1 DEF Types
    <3>2. ASSUME NEW i \in 1..Len(objects) PROVE objects[i] \in Obj
      <4>1. objects[i] \in [kind : Signals \cup {"any"}, root : Nat] /\ objects[i].root \in 1..n
        BY <2>1, <3>1, <3>2, ElementOfSeq DEF Types
      <4> HIDE DEF n
      <4>. QED
        BY <4>1
    <3> HIDE DEF Obj
    <3>3. \A i \in 1..Len(objects) : objects[i] \in Obj
      BY <3>2
    <3>4. objects \in [1..Len(objects) -> Obj] /\ Len(objects) \in Nat
      <4>1. objects \in [1..Len(objects) -> [kind : Signals \cup {"any"}, root : Nat]] /\ Len(objects) \in Nat
        BY <3>1, LenProperties
      <4>. QED
        BY <3>3, <4>1
    <3>. QED
      BY <3>4
  <2>3. pipeline \in [Signals -> Seq(Put)]
    <3>1. pipeline \in [Signals -> Seq(Entry)]
      BY <2>1 DEF Types
    <3>2. ASSUME NEW s \in Signals PROVE pipeline[s] \in Seq(Put)
      <4>1. pipeline[s] \in Seq(Entry)
        BY <3>1, <3>2
      <4>2. ASSUME NEW i \in 1..Len(pipeline[s]) PROVE pipeline[s][i] \in Put
        <5>1. pipeline[s][i] \in Entry /\ pipeline[s][i].by \in 1..n
          BY <2>1, <4>1, <4>2, ElementOfSeq DEF Types
        <5> HIDE DEF n
        <5>. QED
          BY <5>1 DEF Entry
      <4> HIDE DEF Put
      <4>3. \A i \in 1..Len(pipeline[s]) : pipeline[s][i] \in Put
        BY <4>2
      <4>4. pipeline[s] \in [1..Len(pipeline[s]) -> Put] /\ Len(pipeline[s]) \in Nat
        <5>1. pipeline[s] \in [1..Len(pipeline[s]) -> Entry] /\ Len(pipeline[s]) \in Nat
          BY <4>1, LenProperties
        <5>. QED
          BY <4>3, <5>1
      <4>. QED
        BY <4>4
    <3> HIDE DEF Put
    <3>. QED
      BY <3>1, <3>2
  <2>4. stack \in Seq(Frame)
    <3>1. stack \in Seq(Frames) /\ \A i \in 1..Len(stack) : stack[i].builder \in 1..n
      BY <2>1 DEF Types
    <3>2. ASSUME NEW i \in 1..Len(stack) PROVE stack[i] \in Frame
      <4>1. stack[i] \in Frames
        BY <3>1, <3>2, ElementOfSeq
      <4>2. stack[i].builder \in 1..n /\ stack[i].todo \in TodoLists
        BY <3>1, <3>2 DEF TodoInv, TodoListed
      <4>3. Frame = [builder : 1..n, components : Settings, user : BOOLEAN, defer : BOOLEAN,
                     todo : TodoLists, at : Positions]
        BY DEF Frame, TodoLists, Positions
      <4> HIDE DEF n
      <4>. QED
        BY <4>1, <4>2, <4>3 DEF Frames
    <3>3. \A i \in 1..Len(stack) : stack[i] \in Frame
      BY <3>2
    <3>4. stack \in [1..Len(stack) -> Frame] /\ Len(stack) \in Nat
      <4>1. stack \in [1..Len(stack) -> Frames] /\ Len(stack) \in Nat
        BY <3>1, LenProperties
      <4>. QED
        BY <3>3, <4>1
    <3>. QED
      BY <3>4
  <2>. QED
    BY <2>1, <2>2, <2>3, <2>4 DEF TypeOK, Types, TodoInv, AfterInv, OrderInv
<1>3. IInv /\ TodoInv /\ [Next]_vars => TodoInv'
  BY TodoStep
<1>. QED
  BY <1>1, <1>2, <1>3, Invariance, AfterInvariance, PTL DEF Spec
=============================================================================
