-------------------------- MODULE FieldReportProofs --------------------------
(***************************************************************************)
(* Proofs about FieldReport, for every revision and for every drive that   *)
(* is consistent: any set of fields may be other than 0.  A line of a      *)
(* report fits its structure if it can be judged by itself; the properties *)
(* of a report follow from its lines and from the invariant that a report  *)
(* shows the lines of the sections behind it and nothing else.             *)
(***************************************************************************)
EXTENDS FieldReport, TLAPS

-----------------------------------------------------------------------------
(* Revisions.                                                              *)

LEMMA Revisions ==
  /\ V10 = 65536 /\ V13 = 66304 /\ V14 = 66560 /\ V20 = 131072
BY DEF V10, V13, V14, V20, Version

LEMMA OrLaterFacts ==
  ASSUME NEW v \in Int, NEW older \in Int, NEW newer \in Int,
         older <= newer, IsOrLater(newer, v)
  PROVE  IsOrLater(older, v)
<1>1. v % 256 \in Int
  BY SMT
<1>. QED  BY <1>1 DEF IsOrLater

\* No field of a structure has two revisions.
Apart(s) ==
  /\ s.v10 \cap (s.v13 \cup s.v14 \cup s.v20) = {}
  /\ s.v13 \cap (s.v14 \cup s.v20) = {}
  /\ s.v14 \cap s.v20 = {}

\* The fields of revision v.
Of(s, v) == {f \in Fields(s) : Since(s)[f] = v}

LEMMA FieldsOf ==
  ASSUME NEW s, Apart(s)
  PROVE  /\ s.v10 \subseteq Of(s, V10) /\ s.v13 \subseteq Of(s, V13)
         /\ s.v14 \subseteq Of(s, V14) /\ s.v20 \subseteq Of(s, V20)
         /\ DOMAIN Since(s) = Fields(s)
         /\ \A f \in Fields(s) : Since(s)[f] \in Int
<1>1. DOMAIN Since(s) = Fields(s)
  BY DEF Since
<1>2. ASSUME NEW f \in s.v10 PROVE f \in Fields(s) /\ Since(s)[f] = V10
  BY <1>2 DEF Apart, Fields, Since
<1>3. ASSUME NEW f \in s.v13 PROVE f \in Fields(s) /\ Since(s)[f] = V13
  BY <1>3 DEF Apart, Fields, Since
<1>4. ASSUME NEW f \in s.v14 PROVE f \in Fields(s) /\ Since(s)[f] = V14
  BY <1>4 DEF Apart, Fields, Since
<1>5. ASSUME NEW f \in s.v20 PROVE f \in Fields(s) /\ Since(s)[f] = V20
  BY <1>5 DEF Apart, Fields, Since
<1>6. \A f \in Fields(s) : Since(s)[f] \in Int
  BY <1>2, <1>3, <1>4, <1>5, Revisions DEF Fields
<1>. QED  BY <1>1, <1>2, <1>3, <1>4, <1>5, <1>6 DEF Of

-----------------------------------------------------------------------------
(* Lines that fit.                                                         *)

IsLine(l) ==
  l = [since |-> l.since, needs |-> l.needs, label |-> l.label, tests |-> l.tests,
       reads |-> l.reads, otherwise |-> l.otherwise]

\* A line of a section printed from revision v on names a field of the
\* structure.  It is printed from the revision of the field on: not earlier,
\* and not later.
OnTime(s, v, l) ==
  /\ l.since \in Int
  /\ l.label \notin ShownEarly => Since(s)[l.label] <= v \/ Since(s)[l.label] <= l.since
  /\ l.label \notin ShownLate \cup Misread => v <= Since(s)[l.label] /\ l.since <= Since(s)[l.label]

\* It shows the field it names; what it tests, and what it needs to be printed,
\* is the field itself or a capability the field depends on.  It has no text, or
\* a wrong one, for the rare values of the fields named for that only.
Truthful(l) ==
  l.label \notin Misread =>
    /\ l.reads = l.label
    /\ l.otherwise = "another" => l.label \in RarelyMistold
    /\ l.otherwise = "nothing" => l.label \in RarelyUntold
    /\ \A t \in l.tests : t = l.label \/ Depends(l.label) = {t}
    /\ \/ l.needs = {} \/ l.label \in l.needs
       \/ Depends(l.label) # {} /\ Depends(l.label) \subseteq l.needs

Fits(s, v, lines) ==
  \A l \in lines :
    /\ IsLine(l) /\ l.label \in Fields(s) /\ l.reads \in Fields(s)
    /\ OnTime(s, v, l) /\ Truthful(l)

Names(lines) == {l.label : l \in lines}

LEMMA FitsUnion ==
  ASSUME NEW s, NEW v, NEW a, NEW b, Fits(s, v, a), Fits(s, v, b)
  PROVE  Fits(s, v, a \cup b)
BY DEF Fits

\* Lines of fields whose revision is that of the section or that of the line.
LEMMA FitsShows ==
  ASSUME NEW s, Apart(s), NEW v \in Int, NEW w \in Int, NEW x \in {v, w}, v <= x, w <= x,
         NEW fields, fields \subseteq Of(s, x)
  PROVE  Fits(s, v, Shows(w, fields))
<1>. SUFFICES ASSUME NEW f \in fields
              PROVE  LET l == Line(w, f, {}, f)
                     IN  /\ IsLine(l) /\ l.label \in Fields(s) /\ l.reads \in Fields(s)
                         /\ OnTime(s, v, l) /\ Truthful(l)
  BY DEF Fits, Shows
<1>1. f \in Fields(s) /\ Since(s)[f] = x
  BY DEF Of
<1>. QED  BY <1>1 DEF Line, IsLine, OnTime, Truthful

LEMMA FitsTested ==
  ASSUME NEW s, Apart(s), NEW v \in Int, NEW w \in Int, NEW x \in {v, w}, v <= x, w <= x,
         NEW fields, fields \subseteq Of(s, x),
         NEW c, \A f \in fields : Depends(f) = {c}
  PROVE  Fits(s, v, Tested(w, c, fields))
<1>. SUFFICES ASSUME NEW f \in fields
              PROVE  LET l == Line(w, f, {c}, f)
                     IN  /\ IsLine(l) /\ l.label \in Fields(s) /\ l.reads \in Fields(s)
                         /\ OnTime(s, v, l) /\ Truthful(l)
  BY DEF Fits, Tested
<1>1. f \in Fields(s) /\ Since(s)[f] = x
  BY DEF Of
<1>. QED  BY <1>1 DEF Line, IsLine, OnTime, Truthful

\* The fields named by the lines.
LEMMA NamesFacts ==
  /\ \A w, fields : Names(Shows(w, fields)) = fields
  /\ \A w, c, fields : Names(Tested(w, c, fields)) = fields
  /\ \A a, b : Names(a \cup b) = Names(a) \cup Names(b)
<1>1. ASSUME NEW w, NEW fields PROVE Names(Shows(w, fields)) = fields
  <2>1. Names(Shows(w, fields)) \subseteq fields
    BY DEF Names, Shows, Line
  <2>2. ASSUME NEW f \in fields PROVE f \in Names(Shows(w, fields))
    <3>1. Line(w, f, {}, f) \in Shows(w, fields) /\ Line(w, f, {}, f).label = f
      BY DEF Shows, Line
    <3>. QED  BY <3>1 DEF Names
  <2>. QED  BY <2>1, <2>2
<1>2. ASSUME NEW w, NEW c, NEW fields PROVE Names(Tested(w, c, fields)) = fields
  <2>1. Names(Tested(w, c, fields)) \subseteq fields
    BY DEF Names, Tested, Line
  <2>2. ASSUME NEW f \in fields PROVE f \in Names(Tested(w, c, fields))
    <3>1. Line(w, f, {c}, f) \in Tested(w, c, fields) /\ Line(w, f, {c}, f).label = f
      BY DEF Tested, Line
    <3>. QED  BY <3>1 DEF Names
  <2>. QED  BY <2>1, <2>2
<1>3. ASSUME NEW a, NEW b PROVE Names(a \cup b) = Names(a) \cup Names(b)
  BY DEF Names
<1>. QED  BY <1>1, <1>2, <1>3

LEMMA IfFacts ==
  /\ \A c, w, fields :
       Names(If(c, Shows(w, fields))) = fields
  /\ \A c, a, b : If(c, a \cup b) = If(c, a) \cup If(c, b)
  /\ \A c, w, F, x, G : Names(If(c, Shows(w, F) \cup Shows(x, G))) = F \cup G
  /\ \A c, w, F, x, G, y, H :
       Names(If(c, Shows(w, F) \cup Shows(x, G) \cup Shows(y, H))) = F \cup G \cup H
<1>1. ASSUME NEW c, NEW w, NEW fields PROVE Names(If(c, Shows(w, fields))) = fields
  <2>1. ASSUME NEW f PROVE [Line(w, f, {}, f) EXCEPT !.needs = c].label = f
    BY DEF Line
  <2>2. Names(If(c, Shows(w, fields))) \subseteq fields
    BY <2>1 DEF Names, If, Shows
  <2>3. ASSUME NEW f \in fields PROVE f \in Names(If(c, Shows(w, fields)))
    <3>1. [Line(w, f, {}, f) EXCEPT !.needs = c] \in If(c, Shows(w, fields))
      BY DEF If, Shows
    <3>. QED  BY <2>1, <3>1 DEF Names
  <2>. QED  BY <2>2, <2>3
<1>2. ASSUME NEW c, NEW a, NEW b PROVE If(c, a \cup b) = If(c, a) \cup If(c, b)
  BY DEF If
<1>3. ASSUME NEW c, NEW w, NEW F, NEW x, NEW G
      PROVE  Names(If(c, Shows(w, F) \cup Shows(x, G))) = F \cup G
  <2>1. If(c, Shows(w, F) \cup Shows(x, G)) = If(c, Shows(w, F)) \cup If(c, Shows(x, G))
    BY <1>2
  <2>2. Names(If(c, Shows(w, F)) \cup If(c, Shows(x, G)))
          = Names(If(c, Shows(w, F))) \cup Names(If(c, Shows(x, G)))
    BY NamesFacts
  <2>3. Names(If(c, Shows(w, F))) = F /\ Names(If(c, Shows(x, G))) = G
    BY <1>1
  <2>. QED  BY <2>1, <2>2, <2>3, Zenon
<1>4. ASSUME NEW c, NEW w, NEW F, NEW x, NEW G, NEW y, NEW H
      PROVE  Names(If(c, Shows(w, F) \cup Shows(x, G) \cup Shows(y, H))) = F \cup G \cup H
  <2>1. If(c, Shows(w, F) \cup Shows(x, G) \cup Shows(y, H))
          = If(c, Shows(w, F) \cup Shows(x, G)) \cup If(c, Shows(y, H))
    BY <1>2
  <2>2. Names(If(c, Shows(w, F) \cup Shows(x, G)) \cup If(c, Shows(y, H)))
          = Names(If(c, Shows(w, F) \cup Shows(x, G))) \cup Names(If(c, Shows(y, H)))
    BY NamesFacts
  <2>3. Names(If(c, Shows(y, H))) = H
    BY <1>1
  <2>4. Names(If(c, Shows(w, F) \cup Shows(x, G))) = F \cup G
    BY <1>3
  <2>. QED  BY <2>1, <2>2, <2>3, <2>4, Zenon
<1>. QED  BY <1>1, <1>2, <1>3, <1>4

\* Lines that are left out with the capability their fields depend on.
LEMMA FitsIf ==
  ASSUME NEW s, NEW v, NEW w, NEW fields, Fits(s, v, Shows(w, fields)), NEW c,
         \A f \in fields : f \in c \/ (Depends(f) # {} /\ Depends(f) \subseteq c)
  PROVE  Fits(s, v, If(c, Shows(w, fields)))
<1>. DEFINE kept(f) == [Line(w, f, {}, f) EXCEPT !.needs = c]
<1>. SUFFICES ASSUME NEW f \in fields
              PROVE  /\ IsLine(kept(f)) /\ kept(f).label \in Fields(s)
                     /\ kept(f).reads \in Fields(s)
                     /\ OnTime(s, v, kept(f)) /\ Truthful(kept(f))
  <2>1. If(c, Shows(w, fields)) = {kept(f) : f \in fields}
    BY DEF If, Shows
  <2>. HIDE DEF kept
  <2>. QED  BY <2>1 DEF Fits
<1>. DEFINE k == kept(f)
<1>1. Line(w, f, {}, f) \in Shows(w, fields)
  BY DEF Shows
<1>2. f \in Fields(s) /\ OnTime(s, v, Line(w, f, {}, f))
  BY <1>1 DEF Fits, Line
<1>3. k = [since |-> w, needs |-> c, label |-> f, tests |-> {}, reads |-> f,
           otherwise |-> "own"]
  BY DEF Line
<1>4. IsLine(k) /\ OnTime(s, v, k) /\ Truthful(k)
  BY <1>2, <1>3 DEF IsLine, OnTime, Truthful, Line
<1>. QED  BY <1>2, <1>3, <1>4

LEMMA FitsIfUnion ==
  ASSUME NEW s, NEW v, NEW c, NEW a, NEW b, Fits(s, v, If(c, a)), Fits(s, v, If(c, b))
  PROVE  Fits(s, v, If(c, a \cup b))
<1>1. If(c, a \cup b) = If(c, a) \cup If(c, b)
  BY DEF If
<1>. QED  BY <1>1, FitsUnion

\* Lines without a text for a rare value, of fields that are named for it.
LEMMA FitsRarely ==
  ASSUME NEW s, NEW v, NEW lines, Fits(s, v, lines), NEW what,
         what = "another" => Names(lines) \subseteq RarelyMistold,
         what = "nothing" => Names(lines) \subseteq RarelyUntold
  PROVE  Fits(s, v, Rarely(what, lines))
<1>. DEFINE changed(l) == [l EXCEPT !.otherwise = what]
<1>. SUFFICES ASSUME NEW l \in lines
              PROVE  /\ IsLine(changed(l)) /\ changed(l).label \in Fields(s)
                     /\ changed(l).reads \in Fields(s)
                     /\ OnTime(s, v, changed(l)) /\ Truthful(changed(l))
  <2>1. Rarely(what, lines) = {changed(l) : l \in lines}
    BY DEF Rarely
  <2>. HIDE DEF changed
  <2>. QED  BY <2>1 DEF Fits
<1>. DEFINE k == changed(l)
<1>1. /\ IsLine(l) /\ l.label \in Fields(s) /\ l.reads \in Fields(s)
      /\ OnTime(s, v, l) /\ Truthful(l)
  BY DEF Fits
<1>2. /\ k.since = l.since /\ k.needs = l.needs /\ k.label = l.label /\ k.tests = l.tests
      /\ k.reads = l.reads /\ k.otherwise = what /\ IsLine(k)
  BY <1>1 DEF IsLine
<1>3. l.label \in Names(lines)
  BY DEF Names
<1>. HIDE DEF k
<1>4. OnTime(s, v, k)
  BY <1>1, <1>2 DEF OnTime
<1>5. Truthful(k)
  BY <1>1, <1>2, <1>3 DEF Truthful
<1>. QED  BY <1>1, <1>2, <1>4, <1>5 DEF k

LEMMA RarelyNames ==
  ASSUME NEW lines, \A l \in lines : IsLine(l), NEW what
  PROVE  Names(Rarely(what, lines)) = Names(lines)
<1>1. ASSUME NEW l \in lines PROVE [l EXCEPT !.otherwise = what].label = l.label
  BY DEF IsLine
<1>. QED  BY <1>1 DEF Names, Rarely

LEMMA RarelyFacts ==
  /\ \A what, w, fields : Names(Rarely(what, Shows(w, fields))) = fields
  /\ \A what, w, c, fields : Names(Rarely(what, Tested(w, c, fields))) = fields
  /\ \A what, w, c, fields : Names(Rarely(what, If(c, Shows(w, fields)))) = fields
<1>1. ASSUME NEW w, NEW fields PROVE \A l \in Shows(w, fields) : IsLine(l)
  BY DEF Shows, Line, IsLine
<1>2. ASSUME NEW w, NEW c, NEW fields PROVE \A l \in Tested(w, c, fields) : IsLine(l)
  BY DEF Tested, Line, IsLine
<1>3. ASSUME NEW w, NEW c, NEW fields PROVE \A l \in If(c, Shows(w, fields)) : IsLine(l)
  BY <1>1 DEF If, IsLine
<1>. QED  BY <1>1, <1>2, <1>3, RarelyNames, NamesFacts, IfFacts

\* The lines of the fields of a revision, in the sections they may stand in.
LEMMA LinesFit ==
  ASSUME NEW s, Apart(s)
  PROVE  /\ \A F \in SUBSET s.v10 : Fits(s, V10, Shows(V10, F))
         /\ \A F \in SUBSET s.v13 : Fits(s, V10, Shows(V13, F)) /\ Fits(s, V13, Shows(V10, F))
         /\ \A F \in SUBSET s.v14 :
              /\ Fits(s, V10, Shows(V14, F)) /\ Fits(s, V13, Shows(V14, F))
              /\ Fits(s, V14, Shows(V10, F))
         /\ \A F \in SUBSET s.v20 : Fits(s, V10, Shows(V20, F)) /\ Fits(s, V20, Shows(V10, F))
<1>1. /\ s.v10 \subseteq Of(s, V10) /\ s.v13 \subseteq Of(s, V13)
      /\ s.v14 \subseteq Of(s, V14) /\ s.v20 \subseteq Of(s, V20)
  BY FieldsOf
<1>2. \A F \in SUBSET s.v10 : Fits(s, V10, Shows(V10, F))
  BY <1>1, FitsShows, Revisions
<1>3. \A F \in SUBSET s.v13 : Fits(s, V10, Shows(V13, F)) /\ Fits(s, V13, Shows(V10, F))
  BY <1>1, FitsShows, Revisions
<1>4. \A F \in SUBSET s.v14 :
        /\ Fits(s, V10, Shows(V14, F)) /\ Fits(s, V13, Shows(V14, F))
        /\ Fits(s, V14, Shows(V10, F))
  BY <1>1, FitsShows, Revisions
<1>5. \A F \in SUBSET s.v20 : Fits(s, V10, Shows(V20, F)) /\ Fits(s, V20, Shows(V10, F))
  BY <1>1, FitsShows, Revisions
<1>. QED  BY <1>2, <1>3, <1>4, <1>5

-----------------------------------------------------------------------------
(* The tables.                                                             *)

\* Every line of a report fits the structure, and nothing of it is left out.
Good(s, sections) ==
  /\ Apart(s) /\ Len(sections) \in Nat
  /\ \A i \in 1 .. Len(sections) :
       sections[i].since \in Int /\ Fits(s, sections[i].since, sections[i].lines)
  /\ \A f \in Fields(s) \ (ShownLate \cup Misread) :
       \E i \in 1 .. Len(sections) : f \in Names(sections[i].lines)

LEMMA SMARTGood == Good(SMARTFields, SMARTReport)
<1>. DEFINE s == SMARTFields
<1>1. Apart(s)
  BY DEF Apart, SMARTFields
<1>2. \A F \in SUBSET s.v10 : Fits(s, V10, Shows(V10, F))
  BY <1>1, LinesFit
<1>3. \A F \in SUBSET s.v14 : Fits(s, V10, Shows(V14, F))
  BY <1>1, LinesFit
<1>4. Fits(s, V10, CriticalWarning)
  BY <1>2, <1>3, FitsUnion DEF CriticalWarning, SMARTFields
<1>5. Fits(s, V10, GroupSummary)
  BY <1>3, FitsUnion DEF GroupSummary, SMARTFields
<1>6. Fits(s, V10, Counters)
  BY <1>2, FitsUnion DEF Counters, SMARTFields
<1>7. Fits(s, V10, Sensors)
  BY <1>2, FitsUnion DEF Sensors, SMARTFields
<1>8. s.v10 \cup s.v14 \subseteq
        Names(CriticalWarning) \cup Names(GroupSummary) \cup Names(Counters) \cup Names(Sensors)
  BY NamesFacts DEF CriticalWarning, GroupSummary, Counters, Sensors, SMARTFields
<1>9. Fits(s, V10, ThermalManagement)
  BY Revisions DEF Fits, ThermalManagement, Shows, Line, IsLine, OnTime, Truthful, SMARTFields,
     Fields, Since, ShownEarly, ShownLate, Misread
<1>10. s.v13 \subseteq Names(ThermalManagement)
  BY NamesFacts DEF ThermalManagement, SMARTFields
<1>. DEFINE r == SMARTReport
<1>11. /\ Len(r) = 5 /\ \A i \in 1 .. 5 : r[i].since = V10
       /\ r[1].lines = CriticalWarning /\ r[2].lines = GroupSummary /\ r[3].lines = Counters
       /\ r[4].lines = Sensors /\ r[5].lines = ThermalManagement
  BY DEF SMARTReport, Section
<1>12. Fields(s) = s.v10 \cup s.v13 \cup s.v14
  BY DEF SMARTFields, Fields
<1>. HIDE DEF r, s
<1>13. \A i \in 1 .. 5 : r[i].since \in Int /\ Fits(s, r[i].since, r[i].lines)
  BY <1>4, <1>5, <1>6, <1>7, <1>9, <1>11, Revisions
<1>14. \A f \in Fields(s) : \E i \in 1 .. 5 : f \in Names(r[i].lines)
  BY <1>8, <1>10, <1>11, <1>12
<1>15. Good(s, r)
  BY <1>1, <1>11, <1>13, <1>14 DEF Good
<1>. QED  BY <1>15 DEF r, s

LEMMA NamespaceGood == Good(NamespaceFields, NamespaceReport)
<1>. DEFINE s == NamespaceFields
<1>1. Apart(s)
  BY DEF Apart, NamespaceFields
<1>2. s.v14 \subseteq Of(s, V14)
  BY <1>1, FieldsOf
<1>3. \A F \in SUBSET s.v10 : Fits(s, V10, Shows(V10, F))
  BY <1>1, LinesFit
<1>4. \A F \in SUBSET s.v14 : Fits(s, V10, Shows(V14, F))
  BY <1>1, LinesFit
<1>5. \A F \in SUBSET s.v20 : Fits(s, V10, Shows(V20, F))
  BY <1>1, LinesFit
<1>6. ASSUME NEW c, NEW F \in SUBSET s.v14, \A f \in F : Depends(f) = {c}
      PROVE  Fits(s, V10, Tested(V14, c, F))
  BY <1>1, <1>2, <1>6, FitsTested, Revisions
<1>7. Fits(s, V10, NSFEAT)
  <2>1. /\ Fits(s, V10, Shows(V10, {"NSZE", "NCAP", "NUSE"})) /\ Fits(s, V10, Shows(V14, {"OptPerf"}))
        /\ Fits(s, V10, Shows(V10, {"SkipReuseUI", "DeallocatedOrUnwrittenError",
             "NameSpaceAtomicWriteUnit", "ThinProvisioning"}))
    BY <1>3, <1>4 DEF NamespaceFields
  <2>. QED  BY <2>1, FitsUnion DEF NSFEAT
<1>8. Fits(s, V10, Formatted)
  BY <1>3, <1>5, FitsUnion DEF Formatted, NamespaceFields
<1>9. Fits(s, V10, Protection)
  <2>. DEFINE b == Shows(V10, {"ProtectionInfoTypeEnabled"})
  <2>1. /\ Fits(s, V10, b)
        /\ Fits(s, V10, Shows(V10, {"MetadataInSeparateBuffer", "MC.MetadataInExtendedDataLBA",
             "InfoAtEndOfMetadata", "DPC.InfoAtBeginningOfMetadata", "ProtectionInfoType3",
             "ProtectionInfoType2", "ProtectionInfoType1", "DPS.InfoAtBeginningOfMetadata"}))
    BY <1>3 DEF NamespaceFields
  <2>2. Names(b) \subseteq RarelyMistold
    BY NamesFacts DEF RarelyMistold
  <2>3. Fits(s, V10, Rarely("another", b))
    BY <2>1, <2>2, FitsRarely
  <2>. QED  BY <2>1, <2>3, FitsUnion DEF Protection
<1>10. Fits(s, V10, Sharing)
  <2>. DEFINE F == {"IgnoreExistingKey", "ExclusiveAccessAllRegistrantsReservation",
                    "WriteExclusiveAllRegistrantsReservation",
                    "ExclusiveAccessRegistrantsOnlyReservation",
                    "WriteExclusiveRegistrantsOnlyReservation", "ExclusiveAccessReservation",
                    "WriteExclusiveReservation", "PersistThroughPowerLoss"}
  <2>1. Fits(s, V10, Shows(V10, {"SharedNameSpace"})) /\ Fits(s, V10, Shows(V10, F))
    BY <1>3 DEF NamespaceFields
  <2>2. Fits(s, V10, If({"Reservations"}, Shows(V10, F)))
    BY <2>1, FitsIf DEF Depends
  <2>. QED  BY <2>1, <2>2, FitsUnion DEF Sharing
<1>11. Fits(s, V10, Deallocation)
  <2>1. /\ Fits(s, V10, Shows(V10, {"FPI.Supported"}))
        /\ Fits(s, V10, Shows(V10, {"PercentageRemained"}))
        /\ Fits(s, V10, Shows(V10, {"IsGuardFieldCRC", "DeallocateInWriteZero"}))
        /\ Fits(s, V10, Shows(V10, {"ReadBehavior"}))
    BY <1>3 DEF NamespaceFields
  <2>2. Fits(s, V10, If({"FPI.Supported"}, Shows(V10, {"PercentageRemained"})))
    BY <2>1, FitsIf DEF Depends
  <2>3. Names(Shows(V10, {"ReadBehavior"})) \subseteq RarelyUntold
    BY NamesFacts DEF RarelyUntold
  <2>4. Fits(s, V10, Rarely("nothing", Shows(V10, {"ReadBehavior"})))
    BY <2>1, <2>3, FitsRarely
  <2>. QED  BY <2>1, <2>2, <2>4, FitsUnion DEF Deallocation
<1>12. Fits(s, V10, Atomicity)
  BY <1>3 DEF Atomicity, NamespaceFields
<1>13. Fits(s, V10, Identifiers)
  BY <1>3 DEF Identifiers, NamespaceFields
<1>14. Fits(s, V10, Optimal)
  <2>1. Fits(s, V10, Tested(V14, "OptPerf", {"NPWG", "NPWA", "NPDG", "NPDA", "NOWS"}))
    BY <1>6 DEF Depends, NamespaceFields
  <2>2. Fits(s, V10, Shows(V20, {"MSSRL", "MCL", "MSRC"}))
    BY <1>5 DEF NamespaceFields
  <2>3. Fits(s, V10, Shows(V10, {"NVMCAP_L", "NVMCAP_H"}))
    BY <1>3 DEF NamespaceFields
  <2>. QED  BY <2>1, <2>2, <2>3, FitsUnion DEF Optimal
<1>15. Fits(s, V10, Groups)
  <2>1. /\ Fits(s, V10, Tested(V14, "ANAReport", {"ANAGRPID"}))
        /\ Fits(s, V10, Tested(V14, "NVMSet", {"NVMSETID"}))
        /\ Fits(s, V10, Tested(V14, "EnduranceGroups", {"ENDGID"}))
    BY <1>6 DEF Depends, NamespaceFields
  <2>2. Fits(s, V10, {Line(V14, "WriteProtect", {}, "OptPerf")})
    BY Revisions DEF Fits, Line, IsLine, OnTime, Truthful, NamespaceFields,
       Fields, Since, ShownEarly, ShownLate, Misread
  <2>. QED  BY <2>1, <2>2, FitsUnion DEF Groups
<1>. DEFINE r == NamespaceReport
<1>16. /\ Len(r) = 9 /\ \A i \in 1 .. 9 : r[i].since = V10
       /\ r[1].lines = NSFEAT /\ r[2].lines = Formatted /\ r[3].lines = Protection
       /\ r[4].lines = Sharing /\ r[5].lines = Deallocation /\ r[6].lines = Atomicity
       /\ r[7].lines = Optimal /\ r[8].lines = Groups /\ r[9].lines = Identifiers
  BY DEF NamespaceReport, Section
<1>17. s.v10 \subseteq Names(NSFEAT) \cup Names(Formatted) \cup Names(Protection) \cup
         Names(Sharing) \cup Names(Deallocation) \cup Names(Atomicity) \cup Names(Optimal)
         \cup Names(Identifiers)
  <2>1. {"NSZE", "NCAP", "NUSE", "ThinProvisioning", "NameSpaceAtomicWriteUnit",
         "DeallocatedOrUnwrittenError", "SkipReuseUI"} \subseteq Names(NSFEAT)
    BY NamesFacts, IfFacts DEF NSFEAT
  <2>2. {"NLBAF", "LbaFormatIndex", "FLBAS.MetadataInExtendedDataLBA"} \subseteq Names(Formatted)
    BY NamesFacts, IfFacts DEF Formatted
  <2>3. {"MC.MetadataInExtendedDataLBA", "MetadataInSeparateBuffer", "ProtectionInfoType1",
         "ProtectionInfoType2", "ProtectionInfoType3", "DPC.InfoAtBeginningOfMetadata",
         "InfoAtEndOfMetadata", "ProtectionInfoTypeEnabled", "DPS.InfoAtBeginningOfMetadata"}
           \subseteq Names(Protection)
    BY NamesFacts, RarelyFacts DEF Protection
  <2>4. {"SharedNameSpace", "PersistThroughPowerLoss", "WriteExclusiveReservation",
         "ExclusiveAccessReservation", "WriteExclusiveRegistrantsOnlyReservation",
         "ExclusiveAccessRegistrantsOnlyReservation", "WriteExclusiveAllRegistrantsReservation",
         "ExclusiveAccessAllRegistrantsReservation", "IgnoreExistingKey"} \subseteq Names(Sharing)
    BY NamesFacts, IfFacts DEF Sharing
  <2>5. {"PercentageRemained", "FPI.Supported", "ReadBehavior", "DeallocateInWriteZero",
         "IsGuardFieldCRC"} \subseteq Names(Deallocation)
    <3>. DEFINE supported == Shows(V10, {"FPI.Supported"})
                remained == If({"FPI.Supported"}, Shows(V10, {"PercentageRemained"}))
                bits == Shows(V10, {"IsGuardFieldCRC", "DeallocateInWriteZero"})
                behavior == Rarely("nothing", Shows(V10, {"ReadBehavior"}))
    <3>1. /\ Names(supported) = {"FPI.Supported"}
          /\ Names(bits) = {"IsGuardFieldCRC", "DeallocateInWriteZero"}
      BY NamesFacts
    <3>2. Names(remained) = {"PercentageRemained"}
      BY IfFacts
    <3>3. Names(behavior) = {"ReadBehavior"}
      BY RarelyFacts
    <3>4. Deallocation = supported \cup remained \cup bits \cup behavior
      BY DEF Deallocation
    <3>. HIDE DEF supported, remained, bits, behavior
    <3>5. Names(Deallocation) = Names(supported) \cup Names(remained) \cup Names(bits)
                                  \cup Names(behavior)
      <4>1. Names(Deallocation) = Names(supported \cup remained \cup bits) \cup Names(behavior)
        BY <3>4, NamesFacts
      <4>2. Names(supported \cup remained \cup bits) = Names(supported \cup remained) \cup Names(bits)
        BY NamesFacts
      <4>3. Names(supported \cup remained) = Names(supported) \cup Names(remained)
        BY NamesFacts
      <4>. QED  BY <4>1, <4>2, <4>3
    <3>. QED  BY <3>1, <3>2, <3>3, <3>5
  <2>6. /\ {"NAWUN", "NAWUPF", "NACWU", "NABSN", "NABO", "NABSPF", "NOIOB"} \subseteq Names(Atomicity)
        /\ {"NVMCAP_L", "NVMCAP_H"} \subseteq Names(Optimal)
        /\ {"NGUID", "EUI64", "LBAF"} \subseteq Names(Identifiers)
    BY NamesFacts, IfFacts DEF Atomicity, Optimal, Identifiers
  <2>. QED  BY <2>1, <2>2, <2>3, <2>4, <2>5, <2>6 DEF NamespaceFields
<1>18. (s.v14 \cup s.v20) \ Misread \subseteq
         Names(NSFEAT) \cup Names(Formatted) \cup Names(Optimal) \cup Names(Groups)
  <2>1. /\ {"OptPerf"} \subseteq Names(NSFEAT)
        /\ {"NPWG", "NPWA", "NPDG", "NPDA", "NOWS"} \subseteq Names(Optimal)
    BY NamesFacts DEF NSFEAT, Optimal
  <2>2. "ANAGRPID" \in Names(Groups) /\ "NVMSETID" \in Names(Groups) /\ "ENDGID" \in Names(Groups)
    BY NamesFacts DEF Groups
  <2>3. {"NlbafMsb"} \subseteq Names(Formatted) /\ {"MSSRL", "MCL", "MSRC"} \subseteq Names(Optimal)
    BY NamesFacts DEF Formatted, Optimal
  <2>. QED  BY <2>1, <2>2, <2>3 DEF NamespaceFields, Misread
<1>19. Fields(s) = s.v10 \cup s.v14 \cup s.v20
  BY DEF NamespaceFields, Fields
<1>. HIDE DEF r, s
<1>20. \A i \in 1 .. 9 : r[i].since \in Int /\ Fits(s, r[i].since, r[i].lines)
  BY <1>7, <1>8, <1>9, <1>10, <1>11, <1>12, <1>13, <1>14, <1>15, <1>16, Revisions
<1>21. \A f \in Fields(s) \ Misread : \E i \in 1 .. 9 : f \in Names(r[i].lines)
  BY <1>16, <1>17, <1>18, <1>19
<1>22. Good(s, r)
  BY <1>1, <1>16, <1>20, <1>21 DEF Good
<1>. QED  BY <1>22 DEF r, s

\* The three parts of the Identify Controller data.
LEMMA ControllerParts ==
  /\ Apart(ControllerFields)
  /\ ControllerFields.v10 = CapabilityFields.v10 \cup AdminFields.v10 \cup CommandSetFields.v10
  /\ ControllerFields.v13 = CapabilityFields.v13 \cup AdminFields.v13 \cup CommandSetFields.v13
  /\ ControllerFields.v14 = CapabilityFields.v14 \cup AdminFields.v14 \cup CommandSetFields.v14
  /\ ControllerFields.v20 = CapabilityFields.v20 \cup AdminFields.v20 \cup CommandSetFields.v20
<1>1. /\ ControllerFields.v10 = CapabilityFields.v10 \cup AdminFields.v10 \cup CommandSetFields.v10
      /\ ControllerFields.v13 = CapabilityFields.v13 \cup AdminFields.v13 \cup CommandSetFields.v13
      /\ ControllerFields.v14 = CapabilityFields.v14 \cup AdminFields.v14 \cup CommandSetFields.v14
      /\ ControllerFields.v20 = CapabilityFields.v20 \cup AdminFields.v20 \cup CommandSetFields.v20
  BY DEF ControllerFields, Joined
<1>2. Apart(ControllerFields)
  <2>. DEFINE s == ControllerFields
  <2>1. s.v10 \cap (s.v13 \cup s.v14 \cup s.v20) = {}
    BY <1>1 DEF CapabilityFields, AdminFields, CommandSetFields
  <2>2. s.v13 \cap (s.v14 \cup s.v20) = {}
    BY <1>1 DEF CapabilityFields, AdminFields, CommandSetFields
  <2>3. s.v14 \cap s.v20 = {}
    BY <1>1 DEF CapabilityFields, AdminFields, CommandSetFields
  <2>. QED  BY <2>1, <2>2, <2>3 DEF Apart
<1>. QED  BY <1>1, <1>2

\* LinesFit for the fields of a part.
LEMMA ControllerLines ==
  ASSUME NEW p \in {CapabilityFields, AdminFields, CommandSetFields}
  PROVE  LET s == ControllerFields
         IN  /\ \A F \in SUBSET p.v10 : Fits(s, V10, Shows(V10, F))
             /\ \A F \in SUBSET p.v13 : Fits(s, V10, Shows(V13, F)) /\ Fits(s, V13, Shows(V10, F))
             /\ \A F \in SUBSET p.v14 :
                  /\ Fits(s, V10, Shows(V14, F)) /\ Fits(s, V13, Shows(V14, F))
                  /\ Fits(s, V14, Shows(V10, F))
             /\ \A F \in SUBSET p.v20 : Fits(s, V10, Shows(V20, F)) /\ Fits(s, V20, Shows(V10, F))
<1>. DEFINE s == ControllerFields
<1>1. Apart(s) /\ p.v10 \subseteq s.v10 /\ p.v13 \subseteq s.v13 /\ p.v14 \subseteq s.v14
      /\ p.v20 \subseteq s.v20
  BY ControllerParts
<1>. HIDE DEF s
<1>2. /\ SUBSET p.v10 \subseteq SUBSET s.v10 /\ SUBSET p.v13 \subseteq SUBSET s.v13
      /\ SUBSET p.v14 \subseteq SUBSET s.v14 /\ SUBSET p.v20 \subseteq SUBSET s.v20
  BY <1>1
<1>. QED  BY <1>1, <1>2, LinesFit DEF s

LEMMA CapabilityFits ==
  LET s == ControllerFields
  IN  /\ Fits(s, V10, Shows(V10, {"VID", "SSVID", "SN", "MN", "FR", "RAB", "IEEE"}) \cup CMIC)
      /\ Fits(s, V10, Shows(V10, {"MDTS", "CNTLID", "VER", "RTD3R", "RTD3E"}) \cup OAES \cup CTRATT)
      /\ Fits(s, V14, ControllerType) /\ Fits(s, V13, FGUID) /\ Fits(s, V14, CRDT)
      /\ Fits(s, V20, Management)
<1>. DEFINE s == ControllerFields
            p == CapabilityFields
<1>1. /\ \A F \in SUBSET p.v10 : Fits(s, V10, Shows(V10, F))
      /\ \A F \in SUBSET p.v14 : Fits(s, V10, Shows(V14, F)) /\ Fits(s, V14, Shows(V10, F))
      /\ \A F \in SUBSET p.v20 : Fits(s, V10, Shows(V20, F)) /\ Fits(s, V20, Shows(V10, F))
  BY ControllerLines
<1>. HIDE DEF s
<1>2. /\ Fits(s, V10, Shows(V10, {"VID", "SSVID", "SN", "MN", "FR", "RAB", "IEEE"}))
      /\ Fits(s, V10, Shows(V10, {"MDTS", "CNTLID", "VER", "RTD3R", "RTD3E"}))
  BY <1>1 DEF CapabilityFields
<1>3. Fits(s, V10, CMIC)
  BY <1>1, FitsUnion DEF CMIC, CapabilityFields
<1>4. Fits(s, V10, OAES)
  BY <1>1, FitsUnion DEF OAES, CapabilityFields
<1>5. Fits(s, V10, CTRATT)
  <2>. DEFINE N == {"UUIDList", "SQAssociation", "NamespaceGranularity", "TrafficBasedKeepAlive",
                    "PredictableLatencyMode", "EnduranceGroups", "ReadRecoveryLevel", "NVMSet"}
              L == Shows(V14, {"NoopPSPermissiveModeEn"})
  <2>1. Fits(s, V10, L)
    <3>1. Since(s)["NoopPSPermissiveModeEn"] = V13 /\ "NoopPSPermissiveModeEn" \in Fields(s)
      <4>1. "NoopPSPermissiveModeEn" \in s.v13
        BY ControllerParts DEF s, CapabilityFields
      <4>. QED  BY <4>1, ControllerParts, FieldsOf DEF s, Of
    <3>. QED  BY <3>1, Revisions DEF Fits, Shows, Line, IsLine, OnTime, Truthful, ShownLate, Misread
  <2>2. Fits(s, V10, Shows(V14, N))
    BY <1>1 DEF CapabilityFields
  <2>3. Shows(V14, N \cup {"NoopPSPermissiveModeEn"}) = Shows(V14, N) \cup L
    BY DEF Shows
  <2>4. Fits(s, V10, Shows(V14, N \cup {"NoopPSPermissiveModeEn"}))
    BY <2>1, <2>2, <2>3, FitsUnion
  <2>5. N \cup {"NoopPSPermissiveModeEn"} = {"UUIDList", "SQAssociation", "NamespaceGranularity",
          "TrafficBasedKeepAlive", "PredictableLatencyMode", "EnduranceGroups",
          "ReadRecoveryLevel", "NVMSet", "NoopPSPermissiveModeEn"}
    OBVIOUS
  <2>6. /\ Fits(s, V10, Shows(V20, {"ExtLBAFmt", "DelNVMSet", "DelEndGrp", "VariableCapMgmt",
             "FixedCapMgmt", "MDS"}))
        /\ Fits(s, V10, Shows(V10, {"HostIdEn"}))
    BY <1>1 DEF CapabilityFields
  <2>. HIDE DEF N
  <2>. QED  BY <2>4, <2>5, <2>6, FitsUnion DEF CTRATT
<1>6. Fits(s, V14, ControllerType) /\ Fits(s, V14, CRDT)
  BY <1>1 DEF ControllerType, CRDT, CapabilityFields
<1>7. Fits(s, V13, FGUID)
  <2>1. {"FGUID[0..14]", "FGUID[15]"} \subseteq s.v13
    BY ControllerParts DEF s, CapabilityFields
  <2>2. \A f \in {"FGUID[0..14]", "FGUID[15]"} : f \in Fields(s) /\ Since(s)[f] = V13
    BY <2>1, ControllerParts, FieldsOf DEF s, Of
  <2>. QED  BY <2>2, Revisions DEF FGUID, Fits, Tested, Line, IsLine, OnTime, Truthful, Misread
<1>8. Fits(s, V20, Management)
  <2>1. Fits(s, V20, Shows(V10, {"VMCR"}))
    BY <1>1 DEF CapabilityFields
  <2>2. Fits(s, V20, If({"VMCRV"}, Shows(V10, {"VMCR"})))
    BY <2>1, FitsIf DEF Depends
  <2>. QED  BY <1>1, <2>2, FitsUnion DEF Management, CapabilityFields
<1>. QED  BY <1>2, <1>3, <1>4, <1>5, <1>6, <1>7, <1>8, FitsUnion DEF s

LEMMA AdminFits ==
  LET s == ControllerFields
  IN  /\ Fits(s, V10, OACS \cup Shows(V10, {"ACL", "AERL"}) \cup FRMW \cup LPA)
      /\ Fits(s, V10, Shows(V10, {"ELPE", "NPSS"}) \cup VendorPowerHeat \cup NVMCAP \cup RPMBS)
      /\ Fits(s, V13, SelfTest) /\ Fits(s, V10, KAS) /\ Fits(s, V13, HCTMA \cup SANICAP)
      /\ Fits(s, V14, HostMemory \cup IdentifierLimits \cup AsymmetricAccess)
      /\ Fits(s, V20, Domains)
<1>. DEFINE s == ControllerFields
            p == AdminFields
<1>1. /\ \A F \in SUBSET p.v10 : Fits(s, V10, Shows(V10, F))
      /\ \A F \in SUBSET p.v13 : Fits(s, V10, Shows(V13, F)) /\ Fits(s, V13, Shows(V10, F))
      /\ \A F \in SUBSET p.v14 :
           /\ Fits(s, V10, Shows(V14, F)) /\ Fits(s, V13, Shows(V14, F))
           /\ Fits(s, V14, Shows(V10, F))
      /\ \A F \in SUBSET p.v20 : Fits(s, V10, Shows(V20, F)) /\ Fits(s, V20, Shows(V10, F))
  BY ControllerLines
<1>2. /\ p.v10 \subseteq Of(s, V10) /\ p.v13 \subseteq Of(s, V13)
      /\ p.v14 \subseteq Of(s, V14) /\ p.v20 \subseteq Of(s, V20)
  BY ControllerParts, FieldsOf
<1>. HIDE DEF s
<1>3. Fits(s, V10, OACS \cup Shows(V10, {"ACL", "AERL"}) \cup FRMW \cup LPA)
  <2>1. Fits(s, V10, OACS)
    BY <1>1, FitsUnion DEF OACS, AdminFields
  <2>2. Fits(s, V10, FRMW) /\ Fits(s, V10, Shows(V10, {"ACL", "AERL"}))
    BY <1>1, FitsUnion DEF FRMW, AdminFields
  <2>3. Fits(s, V10, LPA)
    BY <1>1, FitsUnion DEF LPA, AdminFields
  <2>. QED  BY <2>1, <2>2, <2>3, FitsUnion
<1>4. Fits(s, V10, Shows(V10, {"ELPE", "NPSS"}) \cup VendorPowerHeat \cup NVMCAP \cup RPMBS)
  <2>1. Fits(s, V10, Shows(V10, {"ELPE", "NPSS"})) /\ Fits(s, V10, VendorPowerHeat)
    BY <1>1 DEF VendorPowerHeat, AdminFields
  <2>2. Fits(s, V10, NVMCAP)
    <3>1. Fits(s, V10, Shows(V10, {"TNVMCAP_L", "TNVMCAP_H", "UNVMCAP_L", "UNVMCAP_H"}))
      BY <1>1 DEF AdminFields
    <3>2. \A f \in {"TNVMCAP_H", "UNVMCAP_H"} : f \in Fields(s) /\ Since(s)[f] = V10
      BY <1>2 DEF Of, AdminFields
    <3>3. Fits(s, V10, If({"TNVMCAP_H"}, {Line(V10, "TNVMCAP_H", {}, "UNVMCAP_H")}))
      BY <3>2, Revisions DEF If, Line, Fits, IsLine, OnTime, Truthful, Misread
    <3>. QED  BY <3>1, <3>3, FitsUnion DEF NVMCAP
  <2>3. Fits(s, V10, RPMBS)
    <3>1. Fits(s, V10, Shows(V10, {"AccessSize", "TotalSize"}))
      BY <1>1 DEF AdminFields
    <3>2. Fits(s, V10, If({"RPMBUnitCount"}, Shows(V10, {"AccessSize", "TotalSize"})))
      BY <3>1, FitsIf DEF Depends
    <3>. QED  BY <1>1, <3>2, FitsUnion DEF RPMBS, AdminFields
  <2>. QED  BY <2>1, <2>2, <2>3, FitsUnion
<1>5. Fits(s, V13, SelfTest)
  <2>1. {"EDSTT", "DSTO"} \subseteq Of(s, V13) /\ Fits(s, V13, Shows(V10, {"FWUG"}))
    BY <1>1, <1>2 DEF AdminFields
  <2>2. /\ Fits(s, V13, Tested(V10, "DeviceSelfTest", {"EDSTT"}))
        /\ Fits(s, V13, Tested(V10, "DeviceSelfTest", {"DSTO"}))
    BY <2>1, FitsTested, ControllerParts, Revisions DEF Depends, s
  <2>3. Names(Tested(V10, "DeviceSelfTest", {"DSTO"})) \subseteq RarelyUntold
    BY NamesFacts DEF RarelyUntold
  <2>4. Fits(s, V13, Rarely("nothing", Tested(V10, "DeviceSelfTest", {"DSTO"})))
    BY <2>2, <2>3, FitsRarely
  <2>. QED  BY <2>1, <2>2, <2>4, FitsUnion DEF SelfTest
<1>6. Fits(s, V10, KAS)
  BY <1>1 DEF KAS, AdminFields
<1>7. Fits(s, V13, HCTMA \cup SANICAP)
  <2>1. Fits(s, V13, HCTMA)
    <3>1. \A t \in {"MNTMT", "MXTMT"} : t \in Fields(s) /\ Since(s)[t] = V13
      BY <1>2 DEF Of, AdminFields
    <3>2. Fits(s, V13, {Line(V10, t, {"HCTMA", "MNTMT"}, t) : t \in {"MNTMT", "MXTMT"}})
      BY <3>1, Revisions DEF Line, Fits, IsLine, OnTime, Truthful, Misread, Depends
    <3>3. Fits(s, V13, Shows(V10, {"HCTMA"}))
      BY <1>1 DEF AdminFields
    <3>. QED  BY <3>2, <3>3, FitsUnion DEF HCTMA
  <2>2. Fits(s, V13, SANICAP)
    <3>. DEFINE c == {"Overwrite", "CryptoErase", "BlockErase"}
                a == Shows(V14, {"NODMMAS", "NoDeallocateInhibited"})
                b == Shows(V10, {"Overwrite", "BlockErase", "CryptoErase"})
    <3>1. Fits(s, V13, a) /\ Fits(s, V13, b)
      BY <1>1 DEF AdminFields
    <3>2. Fits(s, V13, If(c, a))
      BY <3>1, FitsIf DEF Depends
    <3>3. Fits(s, V13, If(c, b))
      BY <3>1, FitsIf DEF Depends
    <3>. QED  BY <3>2, <3>3, FitsIfUnion DEF SANICAP
  <2>. QED  BY <2>1, <2>2, FitsUnion
<1>8. Fits(s, V14, HostMemory \cup IdentifierLimits \cup AsymmetricAccess)
  <2>1. Fits(s, V14, IdentifierLimits) /\ Fits(s, V14, AsymmetricAccess)
    BY <1>1 DEF IdentifierLimits, AsymmetricAccess, AdminFields
  <2>2. Fits(s, V14, Shows(V10, {"HMMINDS"}))
    BY <1>1 DEF AdminFields
  <2>3. \A f \in {"HMMINDS", "HMMAXD"} : f \in Fields(s) /\ Since(s)[f] = V14
    BY <1>2 DEF Of, AdminFields
  <2>4. Fits(s, V14, {Line(V10, "HMMAXD", {"HMMAXD"}, "HMMINDS")})
    BY <2>3, Revisions DEF Line, Fits, IsLine, OnTime, Truthful, Misread
  <2>. QED  BY <2>1, <2>2, <2>4, FitsUnion DEF HostMemory
<1>9. Fits(s, V20, Domains)
  <2>1. {"DomainId"} \subseteq Of(s, V20) /\ {"MEGCAP"} \subseteq Of(s, V20)
    BY <1>2 DEF AdminFields
  <2>2. /\ Fits(s, V20, Tested(V10, "MDS", {"DomainId"}))
        /\ Fits(s, V20, Tested(V10, "EnduranceGroups", {"MEGCAP"}))
    BY <2>1, FitsTested, ControllerParts, Revisions DEF Depends, s
  <2>. QED  BY <2>2, FitsUnion DEF Domains
<1>. QED  BY <1>3, <1>4, <1>5, <1>6, <1>7, <1>8, <1>9 DEF s

LEMMA CommandSetFits ==
  LET s == ControllerFields
  IN  /\ Fits(s, V10, Queues \cup Shows(V10, {"NN"}) \cup ONCS \cup FUSES \cup FNA \cup VWC
                        \cup AtomicUnits)
      /\ Fits(s, V14, NWPC) /\ Fits(s, V10, ACWU) /\ Fits(s, V20, OCFS) /\ Fits(s, V10, SGLS)
      /\ Fits(s, V14, MNAN) /\ Fits(s, V20, Attachments)
      /\ Fits(s, V10, Shows(V10, {"SUBNQN"})) /\ Fits(s, V20, Capsules) /\ Fits(s, V10, PSDs)
<1>. DEFINE s == ControllerFields
            p == CommandSetFields
<1>1. /\ \A F \in SUBSET p.v10 : Fits(s, V10, Shows(V10, F))
      /\ \A F \in SUBSET p.v13 : Fits(s, V10, Shows(V13, F))
      /\ \A F \in SUBSET p.v14 : Fits(s, V10, Shows(V14, F)) /\ Fits(s, V14, Shows(V10, F))
      /\ \A F \in SUBSET p.v20 : Fits(s, V10, Shows(V20, F)) /\ Fits(s, V20, Shows(V10, F))
  BY ControllerLines
<1>. HIDE DEF s
<1>2. Fits(s, V10, Queues \cup Shows(V10, {"NN"}) \cup ONCS \cup FUSES \cup FNA \cup VWC \cup AtomicUnits)
  <2>1. /\ Fits(s, V10, Queues) /\ Fits(s, V10, Shows(V10, {"NN"})) /\ Fits(s, V10, FUSES)
        /\ Fits(s, V10, AtomicUnits)
    BY <1>1 DEF Queues, FUSES, AtomicUnits, CommandSetFields
  <2>2. Fits(s, V10, ONCS)
    BY <1>1, FitsUnion DEF ONCS, CommandSetFields
  <2>3. Fits(s, V10, FNA)
    BY <1>1, FitsUnion DEF FNA, CommandSetFields
  <2>4. Fits(s, V10, VWC)
    <3>1. Fits(s, V10, Shows(V14, {"FlushBehavior"})) /\ Fits(s, V10, Shows(V10, {"Present"}))
      BY <1>1 DEF CommandSetFields
    <3>2. Fits(s, V10, If({"Present"}, Shows(V14, {"FlushBehavior"})))
      BY <3>1, FitsIf DEF Depends
    <3>3. Names(If({"Present"}, Shows(V14, {"FlushBehavior"}))) \subseteq RarelyMistold
      BY IfFacts DEF RarelyMistold
    <3>4. Fits(s, V10, Rarely("another", If({"Present"}, Shows(V14, {"FlushBehavior"}))))
      BY <3>2, <3>3, FitsRarely
    <3>. QED  BY <3>1, <3>4, FitsUnion DEF VWC
  <2>. QED  BY <2>1, <2>2, <2>3, <2>4, FitsUnion
<1>3. /\ Fits(s, V14, NWPC) /\ Fits(s, V10, ACWU) /\ Fits(s, V20, OCFS) /\ Fits(s, V14, MNAN)
      /\ Fits(s, V20, Attachments) /\ Fits(s, V10, Shows(V10, {"SUBNQN"}))
      /\ Fits(s, V20, Capsules) /\ Fits(s, V10, PSDs)
  BY <1>1 DEF NWPC, ACWU, OCFS, MNAN, Attachments, Capsules, PSDs, CommandSetFields
<1>4. Fits(s, V10, SGLS)
  <2>. DEFINE c == {"SGLSupported"}
              a == Shows(V14, {"TransactionalSGLDataBlockDescSupported"})
              b == Shows(V10, {"OffsetByAddrFieldSupported", "MPTRContainingSGLDescSupported",
                     "SGLLengthLargerThanDataLength", "ByteAlignedContiguousPhysicalBuffer",
                     "BitBucketDescrSupported", "KeyedDBDescSupported"})
              d == Shows(V20, {"SDT"})
  <2>1. Fits(s, V10, a) /\ Fits(s, V10, b) /\ Fits(s, V10, d)
    BY <1>1 DEF CommandSetFields
  <2>2. Fits(s, V10, If(c, a)) /\ Fits(s, V10, If(c, d))
    BY <2>1, FitsIf DEF Depends
  <2>3. Fits(s, V10, If(c, b))
    BY <2>1, FitsIf DEF Depends
  <2>4. Fits(s, V10, If(c, a \cup b))
    BY <2>2, <2>3, FitsIfUnion
  <2>5. Fits(s, V10, If(c, a \cup b \cup d))
    BY <2>2, <2>4, FitsIfUnion
  <2>6. Fits(s, V10, Shows(V10, {"SGLSupported"}))
    <3>1. "SGLSupported" \in Fields(s) /\ Since(s)["SGLSupported"] = V13
      <4>1. "SGLSupported" \in s.v13
        BY ControllerParts DEF s, CommandSetFields
      <4>. QED  BY <4>1, ControllerParts, FieldsOf DEF s, Of
    <3>. QED  BY <3>1, Revisions DEF Fits, Shows, Line, IsLine, OnTime, Truthful, ShownEarly, Misread
  <2>7. Names(Shows(V10, {"SGLSupported"})) \subseteq RarelyUntold
    BY NamesFacts DEF RarelyUntold
  <2>8. Fits(s, V10, Rarely("nothing", Shows(V10, {"SGLSupported"})))
    BY <2>6, <2>7, FitsRarely
  <2>. QED  BY <2>5, <2>8, FitsUnion DEF SGLS
<1>. QED  BY <1>2, <1>3, <1>4 DEF s

\* What the lines of a part name.
LEMMA CapabilityNames ==
  Fields(CapabilityFields) \ (ShownLate \cup Misread) \subseteq
    {"VID", "SSVID", "SN", "MN", "FR", "RAB", "IEEE"} \cup Names(CMIC) \cup
    {"MDTS", "CNTLID", "VER", "RTD3R", "RTD3E"} \cup Names(OAES) \cup Names(CTRATT) \cup
    Names(ControllerType) \cup Names(FGUID) \cup Names(CRDT) \cup Names(Management)
<1>1. {"ANAReport", "SRIOV", "MultiControllers", "MultiPCIePorts"} \subseteq Names(CMIC)
  BY NamesFacts DEF CMIC
<1>2. {"DiscoveryLogChanged", "ZoneDesciptorChanged", "NVMSubsystemShutdown",
       "EnduranceGroupEventAggregateLogChange", "LBAStatusInfo",
       "PredictableLatencyEventAggregateLogChange", "ANAChange", "FirmwareActivation",
       "NamespaceAttributeChanged"} \subseteq Names(OAES)
  BY NamesFacts DEF OAES
<1>3. {"ExtLBAFmt", "DelNVMSet", "DelEndGrp", "VariableCapMgmt", "FixedCapMgmt", "MDS", "UUIDList",
       "SQAssociation", "NamespaceGranularity", "TrafficBasedKeepAlive", "PredictableLatencyMode",
       "EnduranceGroups", "ReadRecoveryLevel", "NVMSet", "HostIdEn"} \subseteq Names(CTRATT)
  BY NamesFacts DEF CTRATT
<1>4. /\ {"RRLS", "CNTRLTYPE"} \subseteq Names(ControllerType)
      /\ {"FGUID[15]"} \subseteq Names(FGUID) /\ {"CRDT1", "CRDT2", "CRDT3"} \subseteq Names(CRDT)
  BY NamesFacts DEF ControllerType, FGUID, CRDT
<1>5. {"NVMEE", "NVMESD", "VMCRV", "PCIEME", "SMBUSME", "VMCR"} \subseteq Names(Management)
  BY NamesFacts, IfFacts DEF Management
<1>. QED  BY <1>1, <1>2, <1>3, <1>4, <1>5 DEF Fields, CapabilityFields, ShownLate, Misread

LEMMA AdminNames ==
  Fields(AdminFields) \ Misread \subseteq
    Names(OACS) \cup {"ACL", "AERL"} \cup Names(FRMW) \cup Names(LPA) \cup {"ELPE", "NPSS"} \cup
    Names(VendorPowerHeat) \cup Names(NVMCAP) \cup Names(RPMBS) \cup Names(SelfTest) \cup
    Names(KAS) \cup Names(HCTMA) \cup Names(SANICAP) \cup Names(HostMemory) \cup
    Names(IdentifierLimits) \cup Names(AsymmetricAccess) \cup Names(Domains)
<1>1. {"Lockdown", "GetLBAStatusCommand", "DBConfigCommand", "VirtMgmtCommands", "NVMeMICommands",
       "Directives", "DeviceSelfTest", "NamespaceCommands", "FirmwareCommands", "FormatNVM",
       "SecurityCommands"} \subseteq Names(OACS)
  BY NamesFacts DEF OACS
<1>2. {"MultipleUpdateDetect", "ActivationWithoutReset", "SlotCount", "Slot1ReadOnly"}
        \subseteq Names(FRMW)
  BY NamesFacts DEF FRMW
<1>3. {"TelemetryArea4", "CommandScope", "PersistentEventLog", "TelemetrySupport",
       "LogPageExtendedData", "CommandEffectsLog", "SmartPagePerNamespace"} \subseteq Names(LPA)
  BY NamesFacts DEF LPA
<1>4. {"AVSCC", "APSTA", "WCTEMP", "CCTEMP", "MTFA", "HMPRE", "HMMIN"}
        \subseteq Names(VendorPowerHeat)
  BY NamesFacts DEF VendorPowerHeat
<1>5. {"TNVMCAP_L", "UNVMCAP_L", "UNVMCAP_H"} \subseteq Names(NVMCAP)
  BY NamesFacts DEF NVMCAP
<1>6. {"AccessSize", "TotalSize", "RPMBUnitCount"} \subseteq Names(RPMBS)
  BY NamesFacts, IfFacts DEF RPMBS
<1>7. {"EDSTT", "DSTO", "FWUG"} \subseteq Names(SelfTest) /\ {"KAS"} \subseteq Names(KAS)
  BY NamesFacts, RarelyFacts DEF SelfTest, KAS
<1>8. {"HCTMA", "MNTMT"} \subseteq Names(HCTMA)
  <2>. DEFINE ts == {Line(V10, t, {"HCTMA", "MNTMT"}, t) : t \in {"MNTMT", "MXTMT"}}
  <2>1. Line(V10, "MNTMT", {"HCTMA", "MNTMT"}, "MNTMT") \in ts
    OBVIOUS
  <2>2. Line(V10, "MNTMT", {"HCTMA", "MNTMT"}, "MNTMT").label = "MNTMT"
    BY DEF Line
  <2>3. HCTMA = Shows(V10, {"HCTMA"}) \cup ts
    BY DEF HCTMA
  <2>. HIDE DEF ts
  <2>4. "MNTMT" \in Names(ts)
    BY <2>1, <2>2 DEF Names
  <2>. QED  BY <2>3, <2>4, NamesFacts
<1>9. {"Overwrite", "CryptoErase", "BlockErase", "NODMMAS", "NoDeallocateInhibited"}
        \subseteq Names(SANICAP)
  BY NamesFacts, IfFacts DEF SANICAP
<1>10. /\ {"HMMINDS"} \subseteq Names(HostMemory)
       /\ {"NSETIDMAX", "ENDGIDMAX"} \subseteq Names(IdentifierLimits)
       /\ {"DomainId", "MEGCAP"} \subseteq Names(Domains)
  BY NamesFacts DEF HostMemory, IdentifierLimits, Domains
<1>11. {"ANATT", "NonZeroGRPIDSupport", "NoGRPIDChangeDuringAttached", "ReportChangeState",
        "ReportPersistentLossState", "ReportInaccessibleState", "ReportNonOptimizedState",
        "ReportOptimizedState", "ANAGRPMAX", "NANAGRPID", "PELS"} \subseteq Names(AsymmetricAccess)
  BY NamesFacts DEF AsymmetricAccess
<1>. QED  BY <1>1, <1>2, <1>3, <1>4, <1>5, <1>6, <1>7, <1>8, <1>9, <1>10, <1>11
          DEF Fields, AdminFields, Misread

LEMMA CommandSetNames ==
  Fields(CommandSetFields) \subseteq
    Names(Queues) \cup {"NN"} \cup Names(ONCS) \cup Names(FUSES) \cup Names(FNA) \cup Names(VWC)
    \cup Names(AtomicUnits) \cup Names(NWPC) \cup Names(ACWU) \cup Names(OCFS) \cup Names(SGLS)
    \cup Names(MNAN) \cup Names(Attachments) \cup {"SUBNQN"} \cup Names(Capsules) \cup Names(PSDs)
<1>1. {"SQES.MaxEntrySize", "SQES.RequiredEntrySize", "CQES.MaxEntrySize",
       "CQES.RequiredEntrySize", "MAXCMD"} \subseteq Names(Queues)
  BY NamesFacts DEF Queues
<1>2. {"Copy", "Verify", "Timestamp", "Reservations", "FeatureField", "WriteZeroes",
       "DatasetManagement", "WriteUncorrectable", "Compare"} \subseteq Names(ONCS)
  BY NamesFacts DEF ONCS
<1>3. {"NotAcceptNAIDIsAllF", "CryptographicEraseSupported", "SecureEraseApplyToAll",
       "FormatApplyToAll"} \subseteq Names(FNA)
  BY NamesFacts DEF FNA
<1>4. {"Present", "FlushBehavior"} \subseteq Names(VWC)
  BY NamesFacts, RarelyFacts DEF VWC
<1>5. /\ {"CompareAndWrite"} \subseteq Names(FUSES)
      /\ {"AWUN", "AWUPF", "ICSVSCC"} \subseteq Names(AtomicUnits)
      /\ {"ACWU"} \subseteq Names(ACWU) /\ {"OCFS"} \subseteq Names(OCFS)
      /\ {"MNAN"} \subseteq Names(MNAN) /\ {"PDS"} \subseteq Names(PSDs)
      /\ {"MAXDNA", "MAXCNA"} \subseteq Names(Attachments)
  BY NamesFacts DEF FUSES, AtomicUnits, ACWU, OCFS, MNAN, PSDs, Attachments
<1>6. /\ {"PermanentWriteProtectSupport", "WriteProtectUntilPowerCycleSupport",
          "NoWriteProtectSupport"} \subseteq Names(NWPC)
      /\ {"IOCCSZ", "IORCSZ", "ICDOFF", "FCATT", "MSDBD", "OFCS"} \subseteq Names(Capsules)
  BY NamesFacts DEF NWPC, Capsules
<1>7. {"TransactionalSGLDataBlockDescSupported", "OffsetByAddrFieldSupported",
       "MPTRContainingSGLDescSupported", "SGLLengthLargerThanDataLength",
       "ByteAlignedContiguousPhysicalBuffer", "BitBucketDescrSupported", "KeyedDBDescSupported",
       "SDT", "SGLSupported"} \subseteq Names(SGLS)
  <2>. DEFINE F == {"TransactionalSGLDataBlockDescSupported"}
              G == {"OffsetByAddrFieldSupported", "MPTRContainingSGLDescSupported",
                    "SGLLengthLargerThanDataLength", "ByteAlignedContiguousPhysicalBuffer",
                    "BitBucketDescrSupported", "KeyedDBDescSupported"}
              H == {"SDT"}
              lines == If({"SGLSupported"}, Shows(V14, F) \cup Shows(V10, G) \cup Shows(V20, H))
              last == Rarely("nothing", Shows(V10, {"SGLSupported"}))
  <2>1. SGLS = lines \cup last
    BY DEF SGLS
  <2>2. Names(lines) = F \cup G \cup H
    BY IfFacts
  <2>3. Names(last) = {"SGLSupported"}
    BY RarelyFacts
  <2>. HIDE DEF lines, last
  <2>4. Names(SGLS) = Names(lines) \cup Names(last)
    BY <2>1, NamesFacts
  <2>. QED  BY <2>2, <2>3, <2>4
<1>. QED  BY <1>1, <1>2, <1>3, <1>4, <1>5, <1>6, <1>7 DEF Fields, CommandSetFields

LEMMA ControllerGood == Good(ControllerFields, ControllerReport)
<1>. DEFINE s == ControllerFields
            r == ControllerReport
<1>1. Len(r) = 23
  BY DEF ControllerReport
<1>2. /\ r[1] = Section(V10, Shows(V10, {"VID", "SSVID", "SN", "MN", "FR", "RAB", "IEEE"}) \cup CMIC)
      /\ r[2] = Section(V10, Shows(V10, {"MDTS", "CNTLID", "VER", "RTD3R", "RTD3E"})
                               \cup OAES \cup CTRATT)
      /\ r[3] = Section(V14, ControllerType) /\ r[4] = Section(V13, FGUID)
      /\ r[5] = Section(V14, CRDT) /\ r[6] = Section(V20, Management)
  BY DEF ControllerReport
<1>3. /\ r[7] = Section(V10, OACS \cup Shows(V10, {"ACL", "AERL"}) \cup FRMW \cup LPA)
      /\ r[8] = Section(V10, Shows(V10, {"ELPE", "NPSS"}) \cup VendorPowerHeat \cup NVMCAP
                               \cup RPMBS)
      /\ r[9] = Section(V13, SelfTest) /\ r[10] = Section(V10, KAS)
      /\ r[11] = Section(V13, HCTMA \cup SANICAP)
      /\ r[12] = Section(V14, HostMemory \cup IdentifierLimits \cup AsymmetricAccess)
      /\ r[13] = Section(V20, Domains)
  BY DEF ControllerReport
<1>4. /\ r[14] = Section(V10, Queues \cup Shows(V10, {"NN"}) \cup ONCS \cup FUSES \cup FNA \cup VWC
                                \cup AtomicUnits)
      /\ r[15] = Section(V14, NWPC) /\ r[16] = Section(V10, ACWU) /\ r[17] = Section(V20, OCFS)
      /\ r[18] = Section(V10, SGLS) /\ r[19] = Section(V14, MNAN)
      /\ r[20] = Section(V20, Attachments) /\ r[21] = Section(V10, Shows(V10, {"SUBNQN"}))
      /\ r[22] = Section(V20, Capsules) /\ r[23] = Section(V10, PSDs)
  BY DEF ControllerReport
<1>. HIDE DEF r
<1>5. \A v, lines : Section(v, lines).since = v /\ Section(v, lines).lines = lines
  BY DEF Section
<1>6. \A i \in 1 .. 6 : r[i].since \in Int /\ Fits(s, r[i].since, r[i].lines)
  BY <1>2, <1>5, CapabilityFits, Revisions
<1>7. \A i \in 7 .. 13 : r[i].since \in Int /\ Fits(s, r[i].since, r[i].lines)
  BY <1>3, <1>5, AdminFits, Revisions
<1>8. \A i \in 14 .. 23 : r[i].since \in Int /\ Fits(s, r[i].since, r[i].lines)
  BY <1>4, <1>5, CommandSetFits, Revisions
<1>9. \A f \in Fields(CapabilityFields) \ (ShownLate \cup Misread) :
        \E i \in 1 .. 6 : f \in Names(r[i].lines)
  <2>1. {"VID", "SSVID", "SN", "MN", "FR", "RAB", "IEEE"} \cup Names(CMIC) \subseteq Names(r[1].lines)
    BY <1>2, <1>5, NamesFacts
  <2>2. {"MDTS", "CNTLID", "VER", "RTD3R", "RTD3E"} \cup Names(OAES) \cup Names(CTRATT)
          \subseteq Names(r[2].lines)
    BY <1>2, <1>5, NamesFacts
  <2>3. /\ Names(ControllerType) \subseteq Names(r[3].lines) /\ Names(FGUID) \subseteq Names(r[4].lines)
        /\ Names(CRDT) \subseteq Names(r[5].lines) /\ Names(Management) \subseteq Names(r[6].lines)
    BY <1>2, <1>5, NamesFacts
  <2>. QED  BY <2>1, <2>2, <2>3, CapabilityNames
<1>10. \A f \in Fields(AdminFields) \ Misread : \E i \in 7 .. 13 : f \in Names(r[i].lines)
  <2>1. Names(OACS) \cup {"ACL", "AERL"} \cup Names(FRMW) \cup Names(LPA) \subseteq Names(r[7].lines)
    BY <1>3, <1>5, NamesFacts
  <2>2. {"ELPE", "NPSS"} \cup Names(VendorPowerHeat) \cup Names(NVMCAP) \cup Names(RPMBS)
          \subseteq Names(r[8].lines)
    BY <1>3, <1>5, NamesFacts
  <2>3. /\ Names(SelfTest) \subseteq Names(r[9].lines) /\ Names(KAS) \subseteq Names(r[10].lines)
        /\ Names(HCTMA) \cup Names(SANICAP) \subseteq Names(r[11].lines)
        /\ Names(Domains) \subseteq Names(r[13].lines)
    BY <1>3, <1>5, NamesFacts
  <2>4. Names(HostMemory) \cup Names(IdentifierLimits) \cup Names(AsymmetricAccess)
          \subseteq Names(r[12].lines)
    BY <1>3, <1>5, NamesFacts
  <2>. QED  BY <2>1, <2>2, <2>3, <2>4, AdminNames
<1>11. \A f \in Fields(CommandSetFields) : \E i \in 14 .. 23 : f \in Names(r[i].lines)
  <2>1. Names(Queues) \cup {"NN"} \cup Names(ONCS) \cup Names(FUSES) \cup Names(FNA) \cup Names(VWC)
          \cup Names(AtomicUnits) \subseteq Names(r[14].lines)
    BY <1>4, <1>5, NamesFacts
  <2>2. /\ Names(NWPC) \subseteq Names(r[15].lines) /\ Names(ACWU) \subseteq Names(r[16].lines)
        /\ Names(OCFS) \subseteq Names(r[17].lines) /\ Names(SGLS) \subseteq Names(r[18].lines)
        /\ Names(MNAN) \subseteq Names(r[19].lines)
        /\ Names(Attachments) \subseteq Names(r[20].lines)
        /\ {"SUBNQN"} \subseteq Names(r[21].lines)
        /\ Names(Capsules) \subseteq Names(r[22].lines) /\ Names(PSDs) \subseteq Names(r[23].lines)
    BY <1>4, <1>5, NamesFacts
  <2>. QED  BY <2>1, <2>2, CommandSetNames
<1>12. Fields(s) = Fields(CapabilityFields) \cup Fields(AdminFields) \cup Fields(CommandSetFields)
  BY ControllerParts DEF Fields
<1>13. Apart(s)
  BY ControllerParts
<1>. HIDE DEF s
<1>14. \A i \in 1 .. 23 : r[i].since \in Int /\ Fits(s, r[i].since, r[i].lines)
  BY <1>6, <1>7, <1>8
<1>15. \A f \in Fields(s) \ (ShownLate \cup Misread) : \E i \in 1 .. 23 : f \in Names(r[i].lines)
  BY <1>9, <1>10, <1>11, <1>12
<1>16. Good(s, r)
  BY <1>13, <1>1, <1>14, <1>15 DEF Good
<1>. QED  BY <1>16 DEF r, s

-----------------------------------------------------------------------------
(* A report is its lines.                                                  *)

\* The structure a report is about.
Structure ==
  [controller |-> ControllerFields, namespace |-> NamespaceFields, SMART |-> SMARTFields][report]

LEMMA ReportGood ==
  ASSUME report \in Reports
  PROVE  Good(Structure, Sections) /\ Known = Since(Structure)
<1>1. CASE report = "controller"
  BY <1>1, ControllerGood DEF Structure, Sections, Known, Documented
<1>2. CASE report = "namespace"
  BY <1>2, NamespaceGood DEF Structure, Sections, Known, Documented
<1>3. CASE report = "SMART"
  BY <1>3, SMARTGood DEF Structure, Sections, Known, Documented
<1>. QED  BY <1>1, <1>2, <1>3 DEF Reports

\* The fields the code tells wrongly: always, or with a rare value.
Mistold == Misread \cup (rare \cap RarelyMistold)

\* What a line that is printed says of its field.
LEMMA LineFacts ==
  ASSUME NEW s, Apart(s), NEW v \in Int, NEW lines, Fits(s, v, lines), ver \in Int,
         IsOrLater(v, ver), NEW l \in lines, l \in Printed(lines), Consistent(drive)
  PROVE  /\ l.label \in Fields(s) /\ Says(l) \in Fields(s) \cup {"0", "another"}
         /\ l.label \notin ShownEarly => IsOrLater(Since(s)[l.label], ver)
         /\ l.label \notin Mistold => Says(l) = IF l.label \in drive THEN l.label ELSE "0"
<1>1. /\ l.label \in Fields(s) /\ l.reads \in Fields(s)
      /\ OnTime(s, v, l) /\ Truthful(l)
  BY DEF Fits
<1>2. Since(s)[l.label] \in Int
  BY <1>1, FieldsOf
<1>3. l.label \notin ShownEarly => IsOrLater(Since(s)[l.label], ver)
  <2>1. IsOrLater(l.since, ver)
    BY DEF Printed
  <2>. QED  BY <1>1, <1>2, <2>1, OrLaterFacts DEF OnTime
<1>4. l.label \notin Mistold => Says(l) = IF l.label \in drive THEN l.label ELSE "0"
  <2>. SUFFICES ASSUME l.label \notin Mistold
                PROVE  Says(l) = IF l.label \in drive THEN l.label ELSE "0"
    OBVIOUS
  <2>1. /\ l.reads = l.label /\ \A t \in l.tests : t = l.label \/ Depends(l.label) = {t}
        /\ l.otherwise = "another" => l.label \in RarelyMistold
    BY <1>1 DEF Truthful, Mistold
  <2>2. ASSUME l.label \in drive, NEW t \in l.tests
        PROVE  t \in drive
    BY <2>1, <2>2 DEF Consistent
  <2>3. HasValue(l) <=> l.label \in drive
    BY <2>1, <2>2 DEF HasValue
  <2>4. ~Otherwise(l, "another")
    BY <2>1 DEF Otherwise, Mistold
  <2>. QED  BY <2>1, <2>3, <2>4 DEF Says
<1>. QED  BY <1>1, <1>3, <1>4 DEF Says

\* A field that is not 0 is printed, in the section and by the line that name it.
LEMMA FieldIsPrinted ==
  ASSUME NEW s, Apart(s), NEW v \in Int, NEW lines, Fits(s, v, lines), ver \in Int,
         Consistent(drive), NEW f \in drive, f \notin ShownLate \cup Mistold,
         f \notin rare \cap RarelyUntold, f \in Names(lines), IsOrLater(Since(s)[f], ver)
  PROVE  IsOrLater(v, ver) /\ \E l \in Printed(lines) : l.label = f /\ Says(l) = f
<1>1. PICK l \in lines : l.label = f
  BY DEF Names
<1>2. f \in Fields(s) /\ OnTime(s, v, l) /\ Truthful(l)
  BY <1>1 DEF Fits
<1>3. Since(s)[f] \in Int /\ l.since \in Int /\ v <= Since(s)[f] /\ l.since <= Since(s)[f]
  BY <1>1, <1>2, FieldsOf DEF OnTime, Mistold
<1>4. IsOrLater(v, ver) /\ IsOrLater(l.since, ver)
  BY <1>3, OrLaterFacts
<1>5. Depends(f) = {} \/ Depends(f) \cap drive # {}
  BY DEF Consistent
<1>6. l.needs = {} \/ l.needs \cap drive # {}
  BY <1>1, <1>2, <1>5 DEF Truthful, Mistold
<1>9. ~Otherwise(l, "nothing")
  BY <1>1, <1>2 DEF Truthful, Mistold, Otherwise
<1>7. l \in Printed(lines)
  BY <1>4, <1>6, <1>9 DEF Printed
<1>8. Says(l) = f
  BY <1>1, <1>4, <1>7, LineFacts
<1>. QED  BY <1>1, <1>4, <1>7, <1>8

-----------------------------------------------------------------------------
(* The invariant.                                                          *)

Entry(l) == [label |-> l.label, says |-> Says(l)]

\* What section i adds to the report.
Added(i) ==
  IF IsOrLater(Sections[i].since, ver) THEN {Entry(l) : l \in Printed(Sections[i].lines)} ELSE {}

\* A report shows what the sections behind it have added, and nothing else.
IInv ==
  /\ report \in Reports /\ ver \in Versions
  /\ \E d \in Drives[report] : drive = d.fields /\ rare = d.rare
  /\ at \in 1 .. Len(Sections) + 1
  /\ \A x : x \in shown <=> \E i \in 1 .. at - 1 : x \in Added(i)

LEMMA InitIInv == Init => IInv
<1>. SUFFICES ASSUME Init PROVE IInv
  OBVIOUS
<1>1. Len(Sections) \in Nat
  BY ReportGood DEF Init, Good
<1>. QED  BY <1>1 DEF Init, IInv

LEMMA StepIInv == IInv /\ [PrintSection]_vars => IInv'
<1>. SUFFICES ASSUME IInv, [PrintSection]_vars PROVE IInv'
  OBVIOUS
<1>1. CASE PrintSection
  <2>1. UNCHANGED <<report, ver, drive, rare>> /\ at' = at + 1 /\ at <= Len(Sections)
    BY <1>1 DEF PrintSection
  <2>2. Sections' = Sections
    BY <2>1 DEF Sections
  <2>3. Len(Sections) \in Nat
    BY ReportGood DEF IInv, Good
  <2>4. \A i : Added(i)' = Added(i)
    BY <2>1, <2>2 DEF Added, Entry, Says, Printed, HasValue, Otherwise
  <2>5. shown' = shown \cup Added(at)
    BY <1>1 DEF PrintSection, Added, Entry
  <2>6. at \in Nat /\ at >= 1 /\ 1 .. at' - 1 = 1 .. at - 1 \cup {at}
    BY <2>1, <2>3 DEF IInv
  <2>7. \A x : x \in shown' <=> \E i \in 1 .. at' - 1 : x \in Added(i)'
    BY <2>4, <2>5, <2>6 DEF IInv
  <2>8. at' \in 1 .. Len(Sections)' + 1
    BY <2>1, <2>2, <2>3, <2>6
  <2>. QED  BY <2>1, <2>7, <2>8 DEF IInv
<1>2. CASE UNCHANGED vars
  <2>1. UNCHANGED <<report, ver, drive, rare, at, shown>>
    BY <1>2 DEF vars
  <2>2. Sections' = Sections
    BY <2>1 DEF Sections
  <2>3. \A i : Added(i)' = Added(i)
    BY <2>1, <2>2 DEF Added, Entry, Says, Printed, HasValue, Otherwise
  <2>. QED  BY <2>1, <2>2, <2>3 DEF IInv
<1>. QED  BY <1>1, <1>2

\* What the tool prints, whatever the revision and the drive, is what the
\* sections printed so far add.
THEOREM InductiveInvariant == Spec => []IInv
BY InitIInv, StepIInv, PTL DEF Spec

LEMMA EntryFacts ==
  ASSUME IInv, NEW x \in shown
  PROVE  /\ x.label \in DOMAIN Known /\ x.says \in DOMAIN Known \cup {"0", "another"}
         /\ x.label \notin ShownEarly => IsOrLater(Known[x.label], ver)
         /\ x.label \notin Mistold => x.says = IF x.label \in drive THEN x.label ELSE "0"
<1>. DEFINE s == Structure
<1>1. Good(s, Sections) /\ Known = Since(s) /\ ver \in Int /\ Consistent(drive)
  BY ReportGood, VersionsAssumption, DrivesAssumption DEF IInv
<1>2. Apart(s) /\ Len(Sections) \in Nat /\ DOMAIN Since(s) = Fields(s)
  BY <1>1, FieldsOf DEF Good
<1>3. PICK i \in 1 .. Len(Sections) : x \in Added(i)
  BY <1>2 DEF IInv
<1>. DEFINE lines == Sections[i].lines
            v == Sections[i].since
<1>4. IsOrLater(v, ver) /\ \E l \in Printed(lines) : x = Entry(l)
  BY <1>3 DEF Added
<1>5. PICK l \in Printed(lines) : x = Entry(l)
  BY <1>4
<1>6. v \in Int /\ Fits(s, v, lines)
  BY <1>1, <1>3 DEF Good
<1>7. l \in lines /\ x.label = l.label /\ x.says = Says(l)
  BY <1>5 DEF Printed, Entry
<1>. HIDE DEF s, v, lines
<1>8. /\ l.label \in Fields(s) /\ Says(l) \in Fields(s) \cup {"0", "another"}
      /\ l.label \notin ShownEarly => IsOrLater(Since(s)[l.label], ver)
      /\ l.label \notin Mistold => Says(l) = IF l.label \in drive THEN l.label ELSE "0"
  BY <1>1, <1>2, <1>4, <1>5, <1>6, <1>7, LineFacts
<1>. QED  BY <1>1, <1>2, <1>7, <1>8

\* Every line of a report names a field of its structure and prints one.
THEOREM TypeCorrect == Spec => []TypeOK
<1>1. IInv => TypeOK
  BY EntryFacts DEF IInv, TypeOK
<1>. QED  BY <1>1, InductiveInvariant, PTL

\* No report interprets a field the revision of the drive does not have.
THEOREM ReportsAreNotTooNew == Spec => []NothingTooNew
<1>1. IInv => NothingTooNew
  BY EntryFacts DEF NothingTooNew, Labels
<1>. QED  BY <1>1, InductiveInvariant, PTL

\* Beside the name of a field stands its own value, but for the fields of
\* Misread and the rare values of those of RarelyMistold.
THEOREM ValuesAreOwn == Spec => []OwnValue
<1>1. IInv => OwnValue
  BY EntryFacts DEF OwnValue, Mistold
<1>. QED  BY <1>1, InductiveInvariant, PTL

\* A finished report leaves out no field that the drive reports and its
\* revision has, but for the fields named in FieldReport.
THEOREM ReportsAreComplete == Spec => []NothingMissing
<1>1. ASSUME IInv PROVE NothingMissing
  <2>. SUFFICES ASSUME Finished, NEW f \in drive, f \in DOMAIN Known,
                       f \notin ShownLate \cup Mistold, f \notin rare \cap RarelyUntold,
                       IsOrLater(Known[f], ver)
                PROVE  [label |-> f, says |-> f] \in shown
    BY DEF NothingMissing, Told, Mistold
  <2>. DEFINE s == Structure
  <2>1. Good(s, Sections) /\ Known = Since(s) /\ ver \in Int /\ Consistent(drive)
    BY <1>1, ReportGood, VersionsAssumption, DrivesAssumption DEF IInv
  <2>2. Apart(s) /\ Len(Sections) \in Nat /\ f \in Fields(s)
    BY <2>1, FieldsOf DEF Good
  <2>3. PICK i \in 1 .. Len(Sections) : f \in Names(Sections[i].lines)
    BY <2>1, <2>2 DEF Good, Mistold
  <2>. DEFINE lines == Sections[i].lines
              v == Sections[i].since
  <2>4. v \in Int /\ Fits(s, v, lines) /\ f \in Names(lines)
    BY <2>1, <2>3 DEF Good
  <2>. HIDE DEF s, v, lines
  <2>5. IsOrLater(v, ver) /\ \E l \in Printed(lines) : l.label = f /\ Says(l) = f
    BY <2>1, <2>2, <2>4, FieldIsPrinted
  <2>6. [label |-> f, says |-> f] \in Added(i)
    BY <2>5 DEF Added, Entry, v, lines
  <2>7. i \in 1 .. at - 1
    BY <2>2, <2>3 DEF Finished
  <2>. QED  BY <1>1, <2>6, <2>7 DEF IInv
<1>. QED  BY <1>1, InductiveInvariant, PTL
=============================================================================
