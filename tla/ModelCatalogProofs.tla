------------------------- MODULE ModelCatalogProofs -------------------------
(***************************************************************************)
(* Proofs about ModelCatalog for any models, fields, preset contents,      *)
(* upstream answers and requests in flight.                                *)
(***************************************************************************)
EXTENDS ModelCatalog, WellFoundedInduction, TLAPS

Lists == UNION {[d -> Metadata] : d \in SUBSET Models}

Meta == [val : UNION {[d -> Values \cup {Unknown}] : d \in SUBSET Fields},
         src : UNION {[d -> Sources] : d \in SUBSET Fields}]

CallRecords ==
  [kind : {"none", "discover", "waiting", "test", "probe"},
   phase : {"idle", "sent", "fetched", "queued", "recorded"},
   list : Lists, row : Nat, left : Nat]

Diffs == [added : SUBSET Models, changed : SUBSET Models, missing : SUBSET Models]

RunRecords ==
  [status : {"succeeded", "failed", "unsupported"}, list : Lists,
   match : UNION {[d -> 0..MaxVersion] : d \in SUBSET Models}, diff : Diffs]

TypeOK ==
  /\ DOMAIN presets \subseteq 1..MaxVersion
  /\ \A v \in DOMAIN presets : presets[v] \in PresetRows
  /\ DOMAIN models \subseteq Models
  /\ \A id \in DOMAIN models : models[id] \in Rows
  /\ enabled \in BOOLEAN
  /\ calls \in [Calls -> CallRecords]
  /\ runs \in Seq(RunRecords)
  /\ tests \in Nat /\ reported \in Nat

\* What a field of a row claims about its value, for one state of the presets.
FieldTruthful(p, id, row, f) ==
  /\ row.md.src[f] = "preset" =>
       /\ row.match \in DOMAIN p
       /\ p[row.match][id] # NoPreset
       /\ row.md.val[f] = p[row.match][id][f]
       /\ row.md.val[f] # Unknown
  /\ row.md.src[f] = "upstream" =>
       /\ row.md.val[f] # Unknown
       /\ row.conf = "pending" => row.md.val[f] = row.raw[f]
  /\ row.md.src[f] = "unknown" => row.md.val[f] = Unknown

RowTruthful(p, id, row) ==
  /\ DOMAIN row.md.val = DOMAIN row.md.src
  /\ \A f \in DOMAIN row.md.src : FieldTruthful(p, id, row, f)

ProvenanceInv == \A id \in DOMAIN models : RowTruthful(presets, id, models[id])

\* Where the probe lock keeps the order: one probe at a time, and the row it
\* recorded is newer than the last one reported.
ProbeInv ==
  /\ reported <= tests
  /\ \A c \in Calls : calls[c].phase = "recorded" =>
       /\ calls[c].row <= tests
       /\ calls[c].kind \in {"test", "probe"}
  /\ \A c, d \in Calls : calls[c].kind = "probe" /\ calls[d].kind = "probe" => c = d
  /\ ~unlocked =>
       \A c \in Calls : /\ calls[c].kind # "test"
                        /\ calls[c].phase = "recorded" => calls[c].row > reported

IInv == TypeOK /\ ProvenanceInv /\ AvailableIsOneListing /\ ProbeInv

-----------------------------------------------------------------------------
(* Numbers, lists and metadata. *)

LEMMA SmallestExists ==
  ASSUME NEW T \in SUBSET Nat, T # {}
  PROVE  \E x \in T : \A y \in T : x <= y
<1>1. \E x \in T : \A y \in T : ~(<<y, x>> \in OpToRel(<, Nat))
  BY NatLessThanWellFounded, WFMin, Zenon
<1>2. PICK x \in T : \A y \in T : ~(<<y, x>> \in OpToRel(<, Nat))
  BY <1>1
<1>3. ASSUME NEW y \in T, y < x
      PROVE  FALSE
  <2>1. <<y, x>> \in {ss \in Nat \X Nat : ss[1] < ss[2]}
    BY <1>3
  <2> QED
    BY <1>2, <2>1, Zenon DEF OpToRel
<1> QED
  BY <1>3

LEMMA LargestExists ==
  ASSUME NEW n \in Nat, NEW T \in SUBSET (0..n), T # {}
  PROVE  \E x \in T : \A y \in T : y <= x
<1> DEFINE U == {n - x : x \in T}
<1>1. U \in SUBSET Nat /\ U # {}
  <2>1. \A x \in T : n - x \in Nat
    OBVIOUS
  <2> QED
    BY <2>1
<1>2. PICK u \in U : \A w \in U : u <= w
  <2> HIDE DEF U
  <2> QED
    BY <1>1, SmallestExists
<1>3. PICK x \in T : u = n - x
  BY <1>2
<1>4. \A y \in T : n - x <= n - y
  BY <1>2, <1>3
<1> QED
  BY <1>3, <1>4

LEMMA SeqFacts ==
  ASSUME NEW S, NEW s \in Seq(S)
  PROVE  /\ Len(s) \in Nat /\ DOMAIN s = 1..Len(s)
         /\ \A n \in DOMAIN s : s[n] \in S
  OBVIOUS

LEMMA AppendFacts ==
  ASSUME NEW S, NEW s \in Seq(S), NEW x \in S
  PROVE  /\ Append(s, x) \in Seq(S)
         /\ DOMAIN Append(s, x) = DOMAIN s \cup {Len(s) + 1}
         /\ \A n \in DOMAIN s : Append(s, x)[n] = s[n]
         /\ Append(s, x)[Len(s) + 1] = x
  OBVIOUS

LEMMA ListFacts ==
  ASSUME NEW list \in Lists
  PROVE  /\ DOMAIN list \subseteq Models
         /\ \A id \in DOMAIN list : list[id] \in Metadata
         /\ list = [id \in DOMAIN list |-> list[id]]
  BY DEF Lists

LEMMA EmptyFacts ==
  /\ DOMAIN <<>> = {}
  /\ <<>> \in Lists
  /\ <<>> \in UNION {[d -> 0..MaxVersion] : d \in SUBSET Models}
  /\ <<>> \in UNION {[d -> Values \cup {Unknown}] : d \in SUBSET Fields}
  /\ <<>> \in UNION {[d -> Sources] : d \in SUBSET Fields}
<1>1. DOMAIN <<>> = {}
  OBVIOUS
<1>2. \A S : <<>> \in [{} -> S]
  OBVIOUS
<1> QED
  BY <1>1, <1>2 DEF Lists

LEMMA MetaFacts ==
  ASSUME NEW md \in Meta
  PROVE  /\ md = [val |-> md.val, src |-> md.src]
         /\ DOMAIN md.val \subseteq Fields /\ DOMAIN md.src \subseteq Fields
         /\ \A f \in DOMAIN md.val : md.val[f] \in Values \cup {Unknown}
         /\ \A f \in DOMAIN md.src : md.src[f] \in Sources
  BY DEF Meta

\* A pair of functions over sets of fields is metadata.
LEMMA MetaIntro ==
  ASSUME NEW D \in SUBSET Fields, NEW E \in SUBSET Fields,
         NEW val \in [D -> Values \cup {Unknown}], NEW src \in [E -> Sources]
  PROVE  [val |-> val, src |-> src] \in Meta
  BY DEF Meta

\* What apply_values does with what a user states: every field named becomes
\* the user's, the others stay.
LEMMA UserValues ==
  ASSUME NEW md \in Meta, NEW o \in Overrides
  PROVE  LET m == ApplyValues(md, o, "user")
         IN  /\ m \in Meta
             /\ DOMAIN m.val = DOMAIN md.val \cup DOMAIN o
             /\ DOMAIN m.src = DOMAIN md.src \cup DOMAIN o
             /\ \A f \in DOMAIN o : m.src[f] = "user"
             /\ \A f \in DOMAIN md.val \ DOMAIN o : m.val[f] = md.val[f]
             /\ \A f \in DOMAIN md.src \ DOMAIN o : m.src[f] = md.src[f]
<1> DEFINE val == [f \in DOMAIN md.val \cup DOMAIN o |->
                     IF f \in DOMAIN o THEN o[f] ELSE md.val[f]]
           src == [f \in DOMAIN md.src \cup DOMAIN o |->
                     IF f \notin DOMAIN o THEN md.src[f] ELSE "user"]
<1>1. ApplyValues(md, o, "user") = [val |-> val, src |-> src]
  BY DEF ApplyValues
<1>2. DOMAIN o \subseteq Fields /\ \A f \in DOMAIN o : o[f] \in Values \cup {Unknown}
  BY OverridesAssumption
<1>3. /\ val \in [DOMAIN md.val \cup DOMAIN o -> Values \cup {Unknown}]
      /\ src \in [DOMAIN md.src \cup DOMAIN o -> Sources]
  BY <1>2, MetaFacts DEF Sources
<1>4. [val |-> val, src |-> src] \in Meta
  <2> HIDE DEF val, src
  <2> QED
    BY <1>2, <1>3, MetaFacts, MetaIntro
<1> QED
  BY <1>1, <1>4

\* What discovery knows of a model: a field is the preset's where it says
\* something, else the upstream's where it does, else unknown.
LEMMA ResolveFacts ==
  ASSUME NEW up \in Metadata, NEW preset \in Metadata \cup {NoPreset}
  PROVE  LET m == Resolve(up, preset)
         IN  /\ m \in Meta
             /\ DOMAIN m.val = Fields /\ DOMAIN m.src = Fields
             /\ \A f \in Fields :
                  \/ /\ m.src[f] = "preset" /\ preset # NoPreset
                     /\ m.val[f] = preset[f] /\ m.val[f] # Unknown
                  \/ m.src[f] = "upstream" /\ m.val[f] = up[f] /\ m.val[f] # Unknown
                  \/ m.src[f] = "unknown" /\ m.val[f] = Unknown
<1> DEFINE val1 == [f \in Fields |-> up[f]]
           src1 == [f \in Fields |-> IF up[f] = Unknown THEN "unknown" ELSE "upstream"]
           first == [val |-> val1, src |-> src1]
<1>1. ApplyValues(UnknownMetadata, up, "upstream") = first
  BY DEF ApplyValues, UnknownMetadata, Metadata
<1>2. /\ val1 \in [Fields -> Values \cup {Unknown}]
      /\ src1 \in [Fields -> Sources]
  BY DEF Metadata, Sources
<1>3. CASE preset = NoPreset
  <2>1. Resolve(up, preset) = first
    BY <1>1, <1>3 DEF Resolve
  <2>2. first \in Meta
    <3> HIDE DEF val1, src1
    <3> QED
      BY <1>2, MetaIntro
  <2> QED
    BY <2>1, <2>2
<1>4. CASE preset # NoPreset
  <2> DEFINE val2 == [f \in Fields |-> IF preset[f] # Unknown THEN preset[f] ELSE up[f]]
             src2 == [f \in Fields |-> IF preset[f] # Unknown THEN "preset"
                                       ELSE IF up[f] = Unknown THEN "unknown" ELSE "upstream"]
  <2>0. preset \in Metadata /\ DOMAIN preset = Fields /\ DOMAIN up = Fields
    BY <1>4 DEF Metadata
  <2>1. ApplyValues(first, preset, "preset") = [val |-> val2, src |-> src2]
    BY <2>0 DEF ApplyValues
  <2>2. Resolve(up, preset) = [val |-> val2, src |-> src2]
    BY <1>1, <1>4, <2>1 DEF Resolve
  <2>3. /\ val2 \in [Fields -> Values \cup {Unknown}]
        /\ src2 \in [Fields -> Sources]
    BY <2>0 DEF Metadata, Sources
  <2>4. [val |-> val2, src |-> src2] \in Meta
    <3> HIDE DEF val2, src2
    <3> QED
      BY <2>3, MetaIntro
  <2> QED
    BY <1>4, <2>2, <2>4
<1> QED
  BY <1>3, <1>4

\* The preset that describes a model names it.
LEMMA MatchFacts ==
  ASSUME TypeOK, NEW id \in Models
  PROVE  LET v == MatchModelPreset(id)
         IN  /\ v \in 0..MaxVersion
             /\ v # 0 => /\ v \in DOMAIN presets /\ presets[v][id] # NoPreset
                         /\ presets[v][id] \in Metadata
             /\ PresetMetadata(id, v) \in Metadata \cup {NoPreset}
             /\ v = 0 => PresetMetadata(id, v) = NoPreset
             /\ v # 0 => PresetMetadata(id, v) = presets[v][id]
<1> DEFINE v == MatchModelPreset(id)
<1>1. v = 0 \/ v \in Naming(id)
  <2>1. CASE Naming(id) = {}
    BY <2>1 DEF MatchModelPreset
  <2>2. CASE Naming(id) # {}
    <3>1. Naming(id) \in SUBSET (0..MaxVersion) /\ MaxVersion \in Nat
      BY BoundsAssumption DEF Naming, TypeOK
    <3>2. \E x \in Naming(id) : \A y \in Naming(id) : y <= x
      BY <2>2, <3>1, LargestExists
    <3> QED
      BY <2>2, <3>2 DEF MatchModelPreset
  <2> QED
    BY <2>1, <2>2
<1>2. ASSUME v \in Naming(id)
      PROVE  /\ v \in DOMAIN presets /\ v \in 1..MaxVersion /\ presets[v][id] # NoPreset
             /\ presets[v][id] \in Metadata
  <2>1. v \in DOMAIN presets /\ v \in 1..MaxVersion /\ presets[v][id] # NoPreset
    BY <1>2 DEF Naming, TypeOK
  <2>2. presets[v] \in [Models -> Metadata \cup {NoPreset}]
    BY <2>1, PresetsAssumption DEF TypeOK
  <2> QED
    BY <2>1, <2>2
<1>3. MaxVersion \in Nat
  BY BoundsAssumption
<1> HIDE DEF v
<1>4. /\ v \in 0..MaxVersion
      /\ v # 0 => v \in DOMAIN presets /\ presets[v][id] # NoPreset /\ presets[v][id] \in Metadata
  BY <1>1, <1>2, <1>3
<1> QED
  BY <1>4 DEF PresetMetadata, v

-----------------------------------------------------------------------------
(* Rows and lists. *)

LEMMA RowFacts ==
  ASSUME NEW row \in Rows
  PROVE  /\ row.conf \in {"pending", "confirmed"}
         /\ row.avail \in {"available", "unavailable"}
         /\ row.raw \in Metadata \cup {Imported}
         /\ row.match \in 0..MaxVersion /\ row.md \in Meta
         /\ row = [conf |-> row.conf, avail |-> row.avail, raw |-> row.raw,
                   match |-> row.match, md |-> row.md]
  BY DEF Rows, Meta

LEMMA RowIntro ==
  ASSUME NEW conf \in {"pending", "confirmed"}, NEW avail \in {"available", "unavailable"},
         NEW raw \in Metadata \cup {Imported}, NEW match \in 0..MaxVersion, NEW md \in Meta
  PROVE  [conf |-> conf, avail |-> avail, raw |-> raw, match |-> match, md |-> md] \in Rows
  BY DEF Rows, Meta

\* The metadata of a refreshed row: its own when it is confirmed, and its user
\* fields over what discovery knows otherwise.
LEMMA RefreshedFacts ==
  ASSUME NEW row \in Rows, NEW up \in Metadata, NEW preset \in Metadata \cup {NoPreset},
         DOMAIN row.md.val = DOMAIN row.md.src
  PROVE  LET m == RefreshedPreservingUserFields(row, up, preset)
             fresh == Resolve(up, preset)
         IN  /\ m \in Meta
             /\ row.conf = "confirmed" => m = row.md
             /\ row.conf # "confirmed" =>
                  /\ DOMAIN m.val = Fields /\ DOMAIN m.src = Fields
                  /\ \A f \in UserFields(row.md) :
                       f \in Fields /\ m.src[f] = "user" /\ m.val[f] = row.md.val[f]
                  /\ \A f \in Fields \ UserFields(row.md) :
                       m.src[f] = fresh.src[f] /\ m.val[f] = fresh.val[f]
<1> DEFINE fresh == Resolve(up, preset)
           val == [f \in Fields |-> IF f \in UserFields(row.md)
                                    THEN row.md.val[f] ELSE fresh.val[f]]
           src == [f \in Fields |-> IF f \in UserFields(row.md)
                                    THEN "user" ELSE fresh.src[f]]
<1>0. row.md \in Meta
  BY RowFacts
<1>1. CASE row.conf = "confirmed"
  BY <1>0, <1>1 DEF RefreshedPreservingUserFields
<1>2. CASE row.conf # "confirmed"
  <2>1. RefreshedPreservingUserFields(row, up, preset) = [val |-> val, src |-> src]
    BY <1>2 DEF RefreshedPreservingUserFields
  <2>2. \A f \in UserFields(row.md) : f \in Fields /\ f \in DOMAIN row.md.val
    BY <1>0, MetaFacts DEF UserFields
  <2>3. fresh \in Meta /\ DOMAIN fresh.val = Fields /\ DOMAIN fresh.src = Fields
    BY ResolveFacts
  <2> HIDE DEF fresh
  <2>4. \A f \in Fields : fresh.val[f] \in Values \cup {Unknown} /\ fresh.src[f] \in Sources
    BY <2>3, MetaFacts
  <2>5. \A f \in UserFields(row.md) : row.md.val[f] \in Values \cup {Unknown}
    BY <1>0, <2>2, MetaFacts
  <2>6. val \in [Fields -> Values \cup {Unknown}] /\ src \in [Fields -> Sources]
    BY <2>4, <2>5 DEF Sources
  <2>7. [val |-> val, src |-> src] \in Meta
    <3> HIDE DEF val, src
    <3> QED
      BY <2>6, MetaIntro
  <2> QED
    BY <1>2, <2>1, <2>2, <2>7 DEF fresh
<1> QED
  BY <1>1, <1>2

\* The row of a listed model: available, with the list's snapshot, and its
\* status as it was.
LEMMA RefreshFacts ==
  ASSUME TypeOK, ProvenanceInv, NEW id \in Models, NEW up \in Metadata
  PROVE  LET v == MatchModelPreset(id)
             preset == PresetMetadata(id, v)
             r == RefreshSourceModel(id, up, v)
         IN  /\ r \in Rows /\ r.avail = "available" /\ r.raw = up
             /\ id \notin DOMAIN models =>
                  r.conf = "pending" /\ r.match = v /\ r.md = Resolve(up, preset)
             /\ id \in DOMAIN models =>
                  /\ r.conf = models[id].conf
                  /\ r.match = IF models[id].conf = "confirmed" THEN models[id].match ELSE v
                  /\ r.md = RefreshedPreservingUserFields(models[id], up, preset)
<1> DEFINE v == MatchModelPreset(id)
           preset == PresetMetadata(id, v)
<1>1. v \in 0..MaxVersion /\ preset \in Metadata \cup {NoPreset}
  BY MatchFacts
<1>2. CASE id \notin DOMAIN models
  <2>1. RefreshSourceModel(id, up, v) =
          [conf |-> "pending", avail |-> "available", raw |-> up, match |-> v,
           md |-> Resolve(up, preset)]
    BY <1>2 DEF RefreshSourceModel
  <2>2. Resolve(up, preset) \in Meta
    BY <1>1, ResolveFacts
  <2> HIDE DEF v, preset
  <2>3. RefreshSourceModel(id, up, v) \in Rows
    BY <1>1, <2>1, <2>2, RowIntro
  <2> QED
    BY <1>2, <2>1, <2>3 DEF v, preset
<1>3. CASE id \in DOMAIN models
  <2> DEFINE old == models[id]
             match == IF old.conf = "confirmed" THEN old.match ELSE v
             md == RefreshedPreservingUserFields(old, up, preset)
  <2>1. old \in Rows /\ DOMAIN old.md.val = DOMAIN old.md.src
    BY <1>3 DEF TypeOK, ProvenanceInv, RowTruthful
  <2>2. RefreshSourceModel(id, up, v) =
          [old EXCEPT !.avail = "available", !.raw = up, !.match = match, !.md = md]
    BY <1>3 DEF RefreshSourceModel
  <2>3. md \in Meta
    BY <1>1, <2>1, RefreshedFacts
  <2>4. match \in 0..MaxVersion
    BY <1>1, <2>1, RowFacts
  <2> HIDE DEF v, preset, old, match, md
  <2>5. RefreshSourceModel(id, up, v) =
          [conf |-> old.conf, avail |-> "available", raw |-> up, match |-> match, md |-> md]
    BY <2>1, <2>2 DEF Rows
  <2>6. RefreshSourceModel(id, up, v) \in Rows
    BY <2>1, <2>3, <2>4, <2>5, RowFacts, RowIntro
  <2> QED
    BY <1>3, <2>5, <2>6 DEF v, preset, old, match, md
<1> QED
  BY <1>2, <1>3

\* A list the parser accepts is a function from models to their metadata.
LEMMA ParseFacts ==
  ASSUME NEW answer \in Answers, ParseDiscoveredModels(answer) # Invalid
  PROVE  ParseDiscoveredModels(answer) \in Lists
<1> DEFINE parsed == [id \in Ids(answer) |->
                        answer[CHOOSE n \in DOMAIN answer : answer[n].id = id].md]
<1>1. /\ ParseDiscoveredModels(answer) = parsed
      /\ \A n \in DOMAIN answer : answer[n].md # Malformed
  <2> DEFINE spoilt == \/ \E n \in DOMAIN answer : answer[n].md = Malformed
                       \/ Cardinality(Ids(answer)) # Len(answer)
  <2>1. ParseDiscoveredModels(answer) = IF spoilt THEN Invalid ELSE parsed
    BY Zenon DEF ParseDiscoveredModels
  <2>2. ~spoilt
    <3> HIDE DEF spoilt, parsed
    <3> QED
      BY <2>1
  <2> QED
    BY <2>1, <2>2
<1>2. answer \in Seq([id : Models, md : Metadata \cup {Malformed}])
  BY AnswersAssumption
<1>3. \A n \in DOMAIN answer : answer[n].id \in Models /\ answer[n].md \in Metadata
  <2>1. \A n \in DOMAIN answer : answer[n] \in [id : Models, md : Metadata \cup {Malformed}]
    BY <1>2, SeqFacts, Zenon
  <2>2. \A n \in DOMAIN answer : answer[n].id \in Models /\ answer[n].md \in Metadata \cup {Malformed}
    BY <2>1
  <2> QED
    BY <1>1, <2>2
<1>4. Ids(answer) \in SUBSET Models
  BY <1>3 DEF Ids
<1>5. ASSUME NEW id \in Ids(answer) PROVE parsed[id] \in Metadata
  <2>1. (CHOOSE n \in DOMAIN answer : answer[n].id = id) \in DOMAIN answer
    BY DEF Ids
  <2> QED
    BY <1>3, <2>1
<1>6. parsed \in [Ids(answer) -> Metadata]
  BY <1>5
<1> QED
  BY <1>1, <1>4, <1>6 DEF Lists

\* The catalogue after a list, model by model.
LEMMA AfterFacts ==
  ASSUME TypeOK, ProvenanceInv, NEW list \in Lists
  PROVE  /\ DOMAIN AfterDiscovery(list) = DOMAIN models \cup DOMAIN list
         /\ \A id \in DOMAIN list : AfterDiscovery(list)[id] =
               RefreshSourceModel(id, list[id], MatchModelPreset(id))
         /\ \A id \in DOMAIN models \ DOMAIN list : LET r == AfterDiscovery(list)[id] IN
               /\ r \in Rows /\ r.avail = "unavailable" /\ r.conf = models[id].conf
               /\ r.raw = models[id].raw /\ r.match = models[id].match
               /\ r.md = models[id].md
         /\ \A id \in DOMAIN AfterDiscovery(list) : AfterDiscovery(list)[id] \in Rows
<1>1. /\ DOMAIN AfterDiscovery(list) = DOMAIN models \cup DOMAIN list
      /\ \A id \in DOMAIN list : AfterDiscovery(list)[id] =
            RefreshSourceModel(id, list[id], MatchModelPreset(id))
      /\ \A id \in DOMAIN models \ DOMAIN list :
            AfterDiscovery(list)[id] = [models[id] EXCEPT !.avail = "unavailable"]
  BY DEF AfterDiscovery
<1>2. ASSUME NEW id \in DOMAIN models \ DOMAIN list
      PROVE  LET r == AfterDiscovery(list)[id] IN
               /\ r \in Rows /\ r.avail = "unavailable" /\ r.conf = models[id].conf
               /\ r.raw = models[id].raw /\ r.match = models[id].match
               /\ r.md = models[id].md
  <2>1. models[id] \in Rows
    BY <1>2 DEF TypeOK
  <2> QED
    BY <1>1, <2>1 DEF Rows
<1>3. ASSUME NEW id \in DOMAIN list PROVE AfterDiscovery(list)[id] \in Rows
  <2>1. id \in Models /\ list[id] \in Metadata
    BY ListFacts
  <2> QED
    BY <1>1, <2>1, RefreshFacts
<1> QED
  BY <1>1, <1>2, <1>3

-----------------------------------------------------------------------------
(* Steps that leave parts of the state alone. *)

LEMMA SameCatalogue ==
  ASSUME ProvenanceInv, AvailableIsOneListing, UNCHANGED <<presets, models, runs>>
  PROVE  ProvenanceInv' /\ AvailableIsOneListing'
<1>1. ProvenanceInv'
  BY DEF ProvenanceInv
<1>2. AvailableIsOneListing'
  BY DEF AvailableIsOneListing, Succeeded, LastSucceeded
<1> QED
  BY <1>1, <1>2

\* Requests as they may become.
LEMMA CallFacts ==
  /\ Idle \in CallRecords /\ Idle.kind = "none" /\ Idle.phase = "idle"
  /\ Started("discover") \in CallRecords /\ Started("discover").kind = "discover"
  /\ Started("discover").phase = "sent"
  /\ \A n \in Nat : /\ Queued(n) \in CallRecords /\ Queued(n).kind = "waiting"
                    /\ Queued(n).phase = "queued"
<1>1. Idle \in CallRecords
  BY EmptyFacts DEF Idle, CallRecords
<1>2. Started("discover") \in CallRecords
  BY EmptyFacts DEF Started, Idle, CallRecords
<1>3. \A n \in Nat : Queued(n) \in CallRecords
  BY EmptyFacts DEF Queued, Idle, CallRecords
<1> QED
  BY <1>1, <1>2, <1>3 DEF Idle, Started, Queued

LEMMA AfterTestFacts ==
  ASSUME TypeOK, NEW c \in Calls
  PROVE  /\ AfterTest(c) \in CallRecords /\ AfterTest(c).kind \in {"none", "waiting"}
         /\ AfterTest(c).phase \in {"idle", "queued"}
<1>1. calls[c].left \in Nat
  BY DEF TypeOK, CallRecords
<1>2. calls[c].left > 0 => calls[c].left - 1 \in Nat
  BY <1>1
<1> QED
  BY <1>2, CallFacts DEF AfterTest

\* A request that is not, and does not become, a test under way.
LEMMA QuietCall ==
  ASSUME IInv, NEW c \in Calls, NEW r \in CallRecords,
         r.kind \notin {"test", "probe"}, r.phase # "recorded",
         calls' = [calls EXCEPT ![c] = r], UNCHANGED <<tests, reported>>,
         ~unlocked' => ~unlocked
  PROVE  ProbeInv' /\ calls' \in [Calls -> CallRecords]
<1>1. calls \in [Calls -> CallRecords] /\ ProbeInv
  BY DEF IInv, TypeOK
<1>2. calls' \in [Calls -> CallRecords]
  BY <1>1
<1>3. \A d \in Calls : calls'[d] = IF d = c THEN r ELSE calls[d]
  BY <1>1
<1> QED
  BY <1>1, <1>2, <1>3 DEF ProbeInv

\* Administrators switching the account, and steps of nobody.
LEMMA QuietStep ==
  ASSUME IInv, enabled' \in BOOLEAN,
         UNCHANGED <<presets, models, calls, runs, tests, reported, unlocked>>
  PROVE  IInv'
<1>1. TypeOK' /\ ProbeInv'
  BY DEF IInv, TypeOK, ProbeInv
<1> QED
  BY <1>1, SameCatalogue DEF IInv

-----------------------------------------------------------------------------
(* Discovery. *)

\* A failed run is recorded beside the catalogue.
LEMMA FailureStep ==
  ASSUME IInv, NEW c \in Calls, NEW status \in {"failed", "unsupported"},
         RecordDiscoveryFailure(c, status)
  PROVE  IInv'
<1>0. TypeOK /\ ProvenanceInv /\ AvailableIsOneListing
      /\ calls' = [calls EXCEPT ![c] = Idle]
      /\ UNCHANGED <<presets, models, enabled, tests, reported, unlocked>>
  BY DEF IInv, RecordDiscoveryFailure
<1>1. ProbeInv' /\ calls' \in [Calls -> CallRecords]
  BY <1>0, CallFacts, QuietCall
<1>2. FailedRun(status) \in RunRecords /\ FailedRun(status).status # "succeeded"
  <2>1. NoDiff \in Diffs
    BY DEF NoDiff, Diffs
  <2> QED
    BY <2>1, EmptyFacts DEF FailedRun, RunRecords
<1>3. /\ runs' \in Seq(RunRecords)
      /\ Succeeded' = Succeeded
      /\ \A i \in Succeeded : runs'[i] = runs[i]
  <2>1. CASE enabled
    <3>1. runs' = Append(runs, FailedRun(status)) /\ runs \in Seq(RunRecords)
      BY <1>0, <2>1 DEF RecordDiscoveryFailure, TypeOK
    <3>2. Len(runs) \in Nat /\ DOMAIN runs = 1..Len(runs)
      BY <3>1, SeqFacts
    <3>3. /\ runs' \in Seq(RunRecords) /\ DOMAIN runs' = DOMAIN runs \cup {Len(runs) + 1}
          /\ \A n \in DOMAIN runs : runs'[n] = runs[n]
          /\ runs'[Len(runs) + 1] = FailedRun(status)
      BY <1>2, <3>1, AppendFacts
    <3> QED
      BY <1>2, <3>2, <3>3 DEF Succeeded
  <2>2. CASE ~enabled
    BY <1>0, <2>2 DEF RecordDiscoveryFailure, TypeOK, Succeeded
  <2> QED
    BY <2>1, <2>2
<1>4. AvailableIsOneListing'
  <2>1. LastSucceeded' = LastSucceeded
    BY <1>3 DEF LastSucceeded
  <2>2. CASE Succeeded = {}
    BY <1>3, <2>2 DEF AvailableIsOneListing
  <2>3. CASE Succeeded # {}
    <3>1. LastSucceeded \in Succeeded
      <4>1. Succeeded \in SUBSET (0..Len(runs)) /\ Len(runs) \in Nat
        BY <1>0, SeqFacts DEF TypeOK, Succeeded
      <4>2. \E x \in Succeeded : \A y \in Succeeded : y <= x
        BY <2>3, <4>1, LargestExists
      <4> QED
        BY <4>2 DEF LastSucceeded
    <3> QED
      BY <1>0, <1>3, <2>1, <2>3, <3>1 DEF AvailableIsOneListing
  <2> QED
    BY <2>2, <2>3
<1>5. ProvenanceInv'
  BY <1>0 DEF ProvenanceInv
<1>6. TypeOK'
  BY <1>0, <1>1, <1>3 DEF TypeOK
<1> QED
  BY <1>1, <1>4, <1>5, <1>6 DEF IInv

\* A request that only moves on.
LEMMA MoveStep ==
  ASSUME IInv, NEW c \in Calls, NEW r \in CallRecords,
         r.kind \notin {"test", "probe"}, r.phase # "recorded",
         calls' = [calls EXCEPT ![c] = r],
         UNCHANGED <<presets, models, enabled, runs, tests, reported>>,
         ~unlocked' => ~unlocked
  PROVE  IInv'
<1>1. ProbeInv' /\ calls' \in [Calls -> CallRecords]
  BY QuietCall
<1>2. TypeOK'
  BY <1>1 DEF IInv, TypeOK
<1> QED
  BY <1>1, <1>2, SameCatalogue DEF IInv

LEMMA DiscoverStep ==
  ASSUME IInv, NEW c \in Calls, DiscoverModels(c)
  PROVE  IInv'
<1>1. ASSUME NEW status \in {"failed", "unsupported"}, RecordDiscoveryFailure(c, status)
      PROVE  IInv'
  BY <1>1, FailureStep
<1>2. ASSUME calls' = [calls EXCEPT ![c] = Started("discover")],
             UNCHANGED <<presets, models, supported, enabled, runs, tests, reported, unlocked>>
      PROVE  IInv'
  BY <1>2, CallFacts, MoveStep
<1> QED
  BY <1>1, <1>2 DEF DiscoverModels, Discover

LEMMA ReceiveStep ==
  ASSUME IInv, NEW c \in Calls, NEW answer \in Answers, Receive(c, answer)
  PROVE  IInv'
<1> DEFINE list == ParseDiscoveredModels(answer)
<1>1. CASE list = Invalid
  <2>1. RecordDiscoveryFailure(c, "failed")
    BY <1>1 DEF Receive
  <2> QED
    BY <2>1, FailureStep
<1>2. CASE list # Invalid
  <2> DEFINE r == [calls[c] EXCEPT !.phase = "fetched", !.list = list]
  <2>1. /\ calls' = [calls EXCEPT ![c].phase = "fetched", ![c].list = list]
        /\ UNCHANGED <<presets, models, supported, enabled, runs, tests, reported, unlocked>>
        /\ calls[c].kind = "discover"
    BY <1>2, Zenon DEF Receive
  <2>2. list \in Lists
    BY <1>2, ParseFacts
  <2> HIDE DEF list
  <2>3. calls \in [Calls -> CallRecords] /\ calls[c] \in CallRecords
    BY DEF IInv, TypeOK
  <2>4. calls' = [calls EXCEPT ![c] = r]
    BY <2>1, <2>3
  <2>5. r \in CallRecords /\ r.kind = "discover" /\ r.phase = "fetched"
    BY <2>1, <2>2, <2>3 DEF CallRecords
  <2> HIDE DEF r
  <2> QED
    BY <2>1, <2>4, <2>5, MoveStep
<1> QED
  BY <1>1, <1>2

\* A listed row tells the truth about its fields.
LEMMA RefreshTruthful ==
  ASSUME TypeOK, ProvenanceInv, NEW id \in Models, NEW up \in Metadata
  PROVE  RowTruthful(presets, id, RefreshSourceModel(id, up, MatchModelPreset(id)))
<1> DEFINE v == MatchModelPreset(id)
           preset == PresetMetadata(id, v)
           r == RefreshSourceModel(id, up, v)
           fresh == Resolve(up, preset)
<1>1. /\ preset \in Metadata \cup {NoPreset}
      /\ preset # NoPreset => /\ v \in DOMAIN presets /\ presets[v][id] # NoPreset
                              /\ preset = presets[v][id]
  BY MatchFacts
<1>2. /\ DOMAIN fresh.val = Fields /\ DOMAIN fresh.src = Fields
      /\ \A f \in Fields :
           \/ /\ fresh.src[f] = "preset" /\ preset # NoPreset
              /\ fresh.val[f] = preset[f] /\ fresh.val[f] # Unknown
           \/ fresh.src[f] = "upstream" /\ fresh.val[f] = up[f] /\ fresh.val[f] # Unknown
           \/ fresh.src[f] = "unknown" /\ fresh.val[f] = Unknown
  BY <1>1, ResolveFacts
<1>3. CASE id \notin DOMAIN models
  <2>1. r.raw = up /\ r.conf = "pending" /\ r.match = v /\ r.md = fresh
    BY <1>3, RefreshFacts
  <2> HIDE DEF v, preset, r, fresh
  <2>2. RowTruthful(presets, id, r)
    BY <1>1, <1>2, <2>1 DEF RowTruthful, FieldTruthful
  <2> QED
    BY <2>2 DEF r, v
<1>4. CASE id \in DOMAIN models
  <2> DEFINE old == models[id]
             md == RefreshedPreservingUserFields(old, up, preset)
  <2>1. /\ r.raw = up /\ r.conf = old.conf /\ r.md = md
        /\ r.match = IF old.conf = "confirmed" THEN old.match ELSE v
    BY <1>4, RefreshFacts
  <2>2. old \in Rows /\ RowTruthful(presets, id, old)
    BY <1>4 DEF TypeOK, ProvenanceInv
  <2>3. /\ old.conf = "confirmed" => md = old.md
        /\ old.conf # "confirmed" =>
             /\ DOMAIN md.val = Fields /\ DOMAIN md.src = Fields
             /\ \A f \in UserFields(old.md) : md.src[f] = "user"
             /\ \A f \in Fields \ UserFields(old.md) :
                  md.src[f] = fresh.src[f] /\ md.val[f] = fresh.val[f]
    BY <1>1, <2>2, RefreshedFacts DEF RowTruthful
  <2>4. old.conf \in {"pending", "confirmed"}
    BY <2>2, RowFacts
  <2> HIDE DEF v, preset, r, fresh, old, md
  <2>5. ASSUME old.conf = "confirmed" PROVE RowTruthful(presets, id, r)
    BY <2>1, <2>2, <2>3, <2>5 DEF RowTruthful, FieldTruthful
  <2>6. ASSUME old.conf = "pending" PROVE RowTruthful(presets, id, r)
    <3>1. ASSUME NEW f \in Fields PROVE FieldTruthful(presets, id, r, f)
      <4>1. CASE f \in UserFields(old.md)
        BY <2>1, <2>3, <2>6, <4>1 DEF FieldTruthful
      <4>2. CASE f \notin UserFields(old.md)
        BY <1>1, <1>2, <2>1, <2>3, <2>6, <4>2 DEF FieldTruthful
      <4> QED
        BY <4>1, <4>2
    <3> QED
      BY <2>1, <2>3, <2>6, <3>1 DEF RowTruthful
  <2>7. RowTruthful(presets, id, r)
    BY <2>4, <2>5, <2>6
  <2> QED
    BY <2>7 DEF r, v
<1> QED
  BY <1>3, <1>4

LEMMA ApplyStep ==
  ASSUME IInv, NEW c \in Calls, ApplyDiscovery(c)
  PROVE  IInv'
<1> DEFINE list == calls[c].list
           after == AfterDiscovery(list)
           run == [status |-> "succeeded", list |-> list,
                   match |-> [id \in DOMAIN list |-> MatchModelPreset(id)],
                   diff |-> Diff(list, after)]
<1>0. /\ TypeOK /\ ProvenanceInv /\ AvailableIsOneListing
      /\ calls' = [calls EXCEPT ![c] = Idle]
      /\ UNCHANGED <<presets, supported, enabled, tests, reported, unlocked>>
  BY DEF IInv, ApplyDiscovery
<1>1. CASE ~enabled
  <2>1. UNCHANGED <<models, runs>>
    BY <1>1 DEF ApplyDiscovery
  <2> QED
    BY <1>0, <2>1, CallFacts, MoveStep
<1>2. CASE enabled
  <2>0. models' = after /\ runs' = Append(runs, run)
    BY <1>2 DEF ApplyDiscovery
  <2>1. list \in Lists
    BY <1>0 DEF TypeOK, CallRecords
  <2>2. DOMAIN list \subseteq Models /\ \A id \in DOMAIN list : list[id] \in Metadata
    BY <2>1, ListFacts
  <2>3. list = [id \in DOMAIN list |-> list[id]]
    BY <2>1, ListFacts
  <2>4. /\ DOMAIN after = DOMAIN models \cup DOMAIN list
        /\ \A id \in DOMAIN list : after[id] = RefreshSourceModel(id, list[id], MatchModelPreset(id))
        /\ \A id \in DOMAIN models \ DOMAIN list :
             /\ after[id].avail = "unavailable" /\ after[id].conf = models[id].conf
             /\ after[id].raw = models[id].raw /\ after[id].match = models[id].match
             /\ after[id].md = models[id].md
        /\ \A id \in DOMAIN after : after[id] \in Rows
    BY <1>0, <2>1, AfterFacts
  <2>5. \A id \in DOMAIN list : after[id].avail = "available" /\ after[id].raw = list[id]
    BY <1>0, <2>2, <2>4, RefreshFacts
  <2>6. run \in RunRecords /\ run.status = "succeeded" /\ run.list = list
    <3>1. [id \in DOMAIN list |-> MatchModelPreset(id)]
            \in UNION {[d -> 0..MaxVersion] : d \in SUBSET Models}
      <4>1. \A id \in DOMAIN list : MatchModelPreset(id) \in 0..MaxVersion
        BY <1>0, <2>2, MatchFacts
      <4> QED
        BY <2>2, <4>1
    <3>2. Diff(list, after) \in Diffs
      BY <1>0, <2>2 DEF Diff, Diffs, TypeOK
    <3> HIDE DEF list, after
    <3> QED
      BY <2>1, <3>1, <3>2 DEF RunRecords
  <2> HIDE DEF list, after, run
  <2>7. ProbeInv' /\ calls' \in [Calls -> CallRecords]
    BY <1>0, CallFacts, QuietCall
  <2>8. ProvenanceInv'
    <3> SUFFICES ASSUME NEW id \in DOMAIN after
                 PROVE  RowTruthful(presets, id, after[id])
      BY <1>0, <2>0 DEF ProvenanceInv
    <3>1. CASE id \in DOMAIN list
      BY <1>0, <2>2, <2>4, <3>1, RefreshTruthful
    <3>2. CASE id \in DOMAIN models \ DOMAIN list
      <4>1. RowTruthful(presets, id, models[id])
        BY <1>0, <3>2 DEF ProvenanceInv
      <4> QED
        BY <2>4, <3>2, <4>1 DEF RowTruthful, FieldTruthful
    <3> QED
      BY <2>4, <3>1, <3>2
  <2>9. AvailableIsOneListing'
    <3>1. /\ Len(runs) \in Nat /\ DOMAIN runs = 1..Len(runs)
          /\ DOMAIN runs' = DOMAIN runs \cup {Len(runs) + 1}
          /\ runs'[Len(runs) + 1] = run
      BY <1>0, <2>0, <2>6, SeqFacts, AppendFacts DEF TypeOK
    <3>2. /\ Len(runs) + 1 \in Succeeded'
          /\ \A j \in Succeeded' : j <= Len(runs) + 1 /\ j \in Nat
      BY <2>6, <3>1 DEF Succeeded
    <3>3. LastSucceeded' = Len(runs) + 1
      <4>1. /\ LastSucceeded' \in Succeeded'
            /\ \A j \in Succeeded' : j <= LastSucceeded'
        BY <3>2 DEF LastSucceeded
      <4> QED
        BY <3>1, <3>2, <4>1
    <3>4. runs'[LastSucceeded'].list = list
      BY <2>6, <3>1, <3>3
    <3>5. {x \in DOMAIN after : after[x].avail = "available"} = DOMAIN list
      BY <2>4, <2>5
    <3>6. [id \in {x \in DOMAIN after : after[x].avail = "available"} |-> after[id].raw]
            = [id \in DOMAIN list |-> list[id]]
      BY <2>5, <3>5
    <3> QED
      BY <2>0, <2>3, <3>4, <3>6 DEF AvailableIsOneListing
  <2>10. TypeOK'
    <3>1. runs' \in Seq(RunRecords)
      BY <1>0, <2>0, <2>6, AppendFacts DEF TypeOK
    <3> QED
      BY <1>0, <2>0, <2>2, <2>4, <2>7, <3>1 DEF TypeOK
  <2> QED
    BY <2>7, <2>8, <2>9, <2>10 DEF IInv
<1> QED
  BY <1>1, <1>2 DEF IInv, TypeOK

-----------------------------------------------------------------------------
(* Review. *)

\* A row with a user's values, confirmed or not.
LEMMA UserRow ==
  ASSUME NEW id \in Models, NEW row \in Rows, RowTruthful(presets, id, row),
         NEW o \in Overrides, NEW r, r.conf \in {row.conf, "confirmed"},
         r.raw = row.raw, r.match = row.match, r.md = ApplyValues(row.md, o, "user")
  PROVE  RowTruthful(presets, id, r)
<1> DEFINE md == ApplyValues(row.md, o, "user")
<1>1. /\ DOMAIN md.val = DOMAIN row.md.val \cup DOMAIN o
      /\ DOMAIN md.src = DOMAIN row.md.src \cup DOMAIN o
      /\ \A f \in DOMAIN o : md.src[f] = "user"
      /\ \A f \in DOMAIN row.md.val \ DOMAIN o : md.val[f] = row.md.val[f]
      /\ \A f \in DOMAIN row.md.src \ DOMAIN o : md.src[f] = row.md.src[f]
  BY RowFacts, UserValues
<1>2. r.md = md
  OBVIOUS
<1> HIDE DEF md
<1>3. DOMAIN md.val = DOMAIN md.src
  BY <1>1 DEF RowTruthful
<1>4. ASSUME NEW f \in DOMAIN md.src PROVE FieldTruthful(presets, id, r, f)
  <2>1. CASE f \in DOMAIN o
    BY <1>1, <1>2, <2>1 DEF FieldTruthful
  <2>2. CASE f \notin DOMAIN o
    <3>1. FieldTruthful(presets, id, row, f) /\ md.val[f] = row.md.val[f]
          /\ md.src[f] = row.md.src[f]
      BY <1>1, <2>2 DEF RowTruthful
    <3>2. r.conf = "pending" => row.conf = "pending"
      OBVIOUS
    <3> QED
      BY <1>2, <3>1, <3>2 DEF FieldTruthful
  <2> QED
    BY <2>1, <2>2
<1> QED
  BY <1>2, <1>3, <1>4 DEF RowTruthful

\* Reviewing changes neither which models are available nor their snapshots.
LEMMA ReviewStep ==
  ASSUME IInv, DOMAIN models' = DOMAIN models,
         \A id \in DOMAIN models : /\ models'[id] \in Rows
                                   /\ RowTruthful(presets, id, models'[id])
                                   /\ models'[id].avail = models[id].avail
                                   /\ models'[id].raw = models[id].raw,
         UNCHANGED <<presets, enabled, calls, runs, tests, reported, unlocked>>
  PROVE  IInv'
<1>1. TypeOK' /\ ProbeInv'
  BY DEF IInv, TypeOK, ProbeInv
<1>2. ProvenanceInv'
  BY DEF IInv, ProvenanceInv
<1>3. AvailableIsOneListing'
  <2>1. Succeeded' = Succeeded /\ LastSucceeded' = LastSucceeded
    BY DEF Succeeded, LastSucceeded
  <2>2. {x \in DOMAIN models' : models'[x].avail = "available"}
          = {x \in DOMAIN models : models[x].avail = "available"}
    OBVIOUS
  <2>3. [id \in {x \in DOMAIN models' : models'[x].avail = "available"} |-> models'[id].raw]
          = [id \in {x \in DOMAIN models : models[x].avail = "available"} |-> models[id].raw]
    BY <2>2
  <2> QED
    BY <2>1, <2>3 DEF IInv, AvailableIsOneListing
<1> QED
  BY <1>1, <1>2, <1>3 DEF IInv

LEMMA EditStep ==
  ASSUME IInv, NEW id \in Models, NEW o \in Overrides, EditSourceModel(id, o)
  PROVE  IInv'
<1>0. /\ TypeOK /\ ProvenanceInv /\ id \in DOMAIN models
      /\ UNCHANGED <<presets, enabled, calls, runs, tests, reported, unlocked>>
  BY DEF IInv, EditSourceModel
<1> DEFINE md == ApplyValues(models[id].md, o, "user")
<1>1. models' = [models EXCEPT ![id].md = md]
  BY DEF EditSourceModel, WithUserOverrides
<1>2. models[id] \in Rows /\ RowTruthful(presets, id, models[id])
  BY <1>0 DEF TypeOK, ProvenanceInv
<1>3. md \in Meta
  BY <1>2, RowFacts, UserValues
<1>4. /\ DOMAIN models' = DOMAIN models
      /\ \A x \in DOMAIN models : x # id => models'[x] = models[x]
      /\ models'[id] = [models[id] EXCEPT !.md = md]
  <2> HIDE DEF md
  <2> QED
    BY <1>0, <1>1
<1>5. /\ models'[id] \in Rows /\ models'[id].avail = models[id].avail
      /\ models'[id].raw = models[id].raw /\ models'[id].conf = models[id].conf
      /\ models'[id].match = models[id].match /\ models'[id].md = md
  <2> HIDE DEF md
  <2> QED
    BY <1>2, <1>3, <1>4 DEF Rows, Meta
<1>6. RowTruthful(presets, id, models'[id])
  BY <1>2, <1>5, UserRow
<1>7. ASSUME NEW x \in DOMAIN models
      PROVE  /\ models'[x] \in Rows /\ RowTruthful(presets, x, models'[x])
             /\ models'[x].avail = models[x].avail /\ models'[x].raw = models[x].raw
  BY <1>0, <1>4, <1>5, <1>6 DEF TypeOK, ProvenanceInv
<1> QED
  BY <1>0, <1>4, <1>7, ReviewStep

LEMMA ConfirmStep ==
  ASSUME IInv, NEW batch \in Batches, ConfirmSourceModels(batch)
  PROVE  IInv'
<1>0. /\ TypeOK /\ ProvenanceInv
      /\ UNCHANGED <<presets, enabled, calls, runs, tests, reported, unlocked>>
  BY DEF IInv, ConfirmSourceModels
<1>1. /\ DOMAIN models' = DOMAIN models
      /\ \A id \in DOMAIN models :
           models'[id] = IF id \in DOMAIN batch
                         THEN [models[id] EXCEPT !.conf = "confirmed",
                                                 !.md = ApplyValues(models[id].md, batch[id], "user")]
                         ELSE models[id]
  BY DEF ConfirmSourceModels, WithConfirmed
<1>2. ASSUME NEW id \in DOMAIN models
      PROVE  /\ models'[id] \in Rows /\ RowTruthful(presets, id, models'[id])
             /\ models'[id].avail = models[id].avail /\ models'[id].raw = models[id].raw
  <2>1. models[id] \in Rows /\ RowTruthful(presets, id, models[id]) /\ id \in Models
    BY <1>0, <1>2 DEF TypeOK, ProvenanceInv
  <2>2. CASE id \notin DOMAIN batch
    BY <1>1, <2>1, <2>2
  <2>3. CASE id \in DOMAIN batch
    <3> DEFINE md == ApplyValues(models[id].md, batch[id], "user")
    <3>1. batch[id] \in Overrides
      BY <2>3 DEF Batches
    <3>2. md \in Meta
      BY <2>1, <3>1, RowFacts, UserValues
    <3>3. models'[id] = [models[id] EXCEPT !.conf = "confirmed", !.md = md]
      BY <1>1, <2>3
    <3>4. /\ models'[id] \in Rows /\ models'[id].avail = models[id].avail
          /\ models'[id].raw = models[id].raw /\ models'[id].conf = "confirmed"
          /\ models'[id].match = models[id].match /\ models'[id].md = md
      <4> HIDE DEF md
      <4> QED
        BY <2>1, <3>2, <3>3 DEF Rows, Meta
    <3>5. RowTruthful(presets, id, models'[id])
      BY <2>1, <3>1, <3>4, UserRow
    <3> QED
      BY <3>4, <3>5
  <2> QED
    BY <2>2, <2>3
<1> QED
  BY <1>0, <1>1, <1>2, ReviewStep

-----------------------------------------------------------------------------
(* Connection tests. *)

\* A test moves on: it is sent, recorded or over.
LEMMA TestMove ==
  ASSUME IInv, NEW c \in Calls, NEW kind \in {"test", "probe"}, NEW r \in CallRecords,
         r.kind = kind,
         kind = "test" => unlocked',
         kind = "probe" => \A d \in Calls : calls[d].kind = "probe" => d = c,
         ~unlocked' => ~unlocked,
         \/ r.phase # "recorded" /\ tests' = tests
         \/ r.phase = "recorded" /\ tests' = tests + 1 /\ r.row = tests + 1,
         calls' = [calls EXCEPT ![c] = r],
         UNCHANGED <<presets, models, enabled, runs, reported>>
  PROVE  IInv'
<1>1. calls \in [Calls -> CallRecords] /\ tests \in Nat /\ reported \in Nat /\ ProbeInv
  BY DEF IInv, TypeOK
<1>2. /\ calls' \in [Calls -> CallRecords]
      /\ \A d \in Calls : calls'[d] = IF d = c THEN r ELSE calls[d]
  BY <1>1
<1>3. \A d \in Calls : calls[d].row \in Nat
  BY <1>1 DEF CallRecords
<1>4. reported' <= tests' /\ tests' \in Nat
  BY <1>1 DEF ProbeInv
<1>5. \A d \in Calls : calls'[d].phase = "recorded" =>
        calls'[d].row <= tests' /\ calls'[d].kind \in {"test", "probe"}
  BY <1>1, <1>2, <1>3 DEF ProbeInv
<1>6. \A d, e \in Calls : calls'[d].kind = "probe" /\ calls'[e].kind = "probe" => d = e
  BY <1>1, <1>2 DEF ProbeInv
<1>7. ~unlocked' => \A d \in Calls : /\ calls'[d].kind # "test"
                                     /\ calls'[d].phase = "recorded" => calls'[d].row > reported'
  BY <1>1, <1>2, <1>3 DEF ProbeInv
<1>8. ProbeInv'
  BY <1>4, <1>5, <1>6, <1>7 DEF ProbeInv
<1>9. TypeOK'
  BY <1>2, <1>4 DEF IInv, TypeOK
<1> QED
  BY <1>8, <1>9, SameCatalogue DEF IInv

\* The record of a test, or its end when the account is disabled.
LEMMA RecordStep ==
  ASSUME IInv, NEW c \in Calls, NEW kind \in {"test", "probe"},
         RecordConnectionTest(c, kind),
         kind = "test" /\ enabled => unlocked',
         kind = "probe" => \A d \in Calls : calls[d].kind = "probe" => d = c,
         ~unlocked' => ~unlocked,
         UNCHANGED <<presets, models, enabled, runs, reported>>
  PROVE  IInv'
<1>1. CASE enabled
  <2> DEFINE r == [calls[c] EXCEPT !.kind = kind, !.phase = "recorded", !.row = tests + 1]
  <2>1. calls \in [Calls -> CallRecords] /\ calls[c] \in CallRecords /\ tests \in Nat
    BY DEF IInv, TypeOK
  <2>2. /\ calls' = [calls EXCEPT ![c].kind = kind, ![c].phase = "recorded",
                                  ![c].row = tests + 1]
        /\ tests' = tests + 1
    BY <1>1 DEF RecordConnectionTest
  <2>3. calls' = [calls EXCEPT ![c] = r]
    BY <2>1, <2>2
  <2>4. r \in CallRecords /\ r.kind = kind /\ r.phase = "recorded" /\ r.row = tests + 1
    <3> DEFINE n == tests + 1
    <3>1. n \in Nat
      BY <2>1
    <3>2. r = [calls[c] EXCEPT !.kind = kind, !.phase = "recorded", !.row = n]
      OBVIOUS
    <3> HIDE DEF n, r
    <3>3. r \in CallRecords /\ r.kind = kind /\ r.phase = "recorded" /\ r.row = n
      BY <2>1, <3>1, <3>2 DEF CallRecords
    <3> QED
      BY <3>3 DEF n
  <2> HIDE DEF r
  <2> QED
    BY <1>1, <2>2, <2>3, <2>4, TestMove
<1>2. CASE ~enabled
  <2>1. calls' = [calls EXCEPT ![c] = AfterTest(c)] /\ tests' = tests
    BY <1>2 DEF RecordConnectionTest
  <2>2. /\ AfterTest(c) \in CallRecords /\ AfterTest(c).kind \notin {"test", "probe"}
        /\ AfterTest(c).phase # "recorded"
    BY AfterTestFacts DEF IInv
  <2> QED
    BY <2>1, <2>2, MoveStep
<1> QED
  BY <1>1, <1>2

LEMMA TestConnectionStep ==
  ASSUME IInv, NEW c \in Calls, NEW kind \in {"test", "probe"},
         TestConnection(c, kind),
         kind = "test" /\ enabled => unlocked',
         kind = "probe" => \A d \in Calls : calls[d].kind = "probe" => d = c,
         ~unlocked' => ~unlocked
  PROVE  IInv'
<1>0. UNCHANGED <<presets, models, enabled, runs, reported>>
  BY DEF TestConnection
<1>1. CASE RecordConnectionFailure(c, kind)
  BY <1>0, <1>1, RecordStep DEF RecordConnectionFailure
<1>2. CASE /\ ResolveCredential /\ UNCHANGED tests
           /\ calls' = [calls EXCEPT ![c].kind = kind, ![c].phase = "sent"]
  <2> DEFINE r == [calls[c] EXCEPT !.kind = kind, !.phase = "sent"]
  <2>1. calls \in [Calls -> CallRecords] /\ calls[c] \in CallRecords
    BY DEF IInv, TypeOK
  <2>2. calls' = [calls EXCEPT ![c] = r]
    BY <1>2, <2>1
  <2>3. r \in CallRecords /\ r.kind = kind /\ r.phase = "sent"
    BY <2>1 DEF CallRecords
  <2>4. enabled
    BY <1>2 DEF ResolveCredential
  <2> HIDE DEF r
  <2> QED
    BY <1>0, <1>2, <2>2, <2>3, <2>4, TestMove
<1>3. CASE calls' = [calls EXCEPT ![c] = AfterTest(c)] /\ UNCHANGED tests
  <2>1. /\ AfterTest(c) \in CallRecords /\ AfterTest(c).kind \notin {"test", "probe"}
        /\ AfterTest(c).phase # "recorded"
    BY AfterTestFacts DEF IInv
  <2> QED
    BY <1>0, <1>3, <2>1, MoveStep
<1> QED
  BY <1>1, <1>2, <1>3 DEF TestConnection

LEMMA TestSourceStep ==
  ASSUME IInv, NEW c \in Calls, TestSource(c)
  PROVE  IInv'
<1>1. TestConnection(c, "test") /\ (~unlocked' => ~unlocked) /\ (enabled => unlocked')
  BY DEF TestSource, ResolveCredential
<1> QED
  BY <1>1, TestConnectionStep

LEMMA ProbeAccountStep ==
  ASSUME IInv, NEW c \in Calls, ProbeAccount(c)
  PROVE  IInv'
<1>1. TestConnection(c, "probe") /\ (~unlocked' => ~unlocked)
  BY DEF ProbeAccount
<1>2. \A d \in Calls : calls[d].kind # "probe"
  BY DEF ProbeAccount, ProbeLockFree, Kinds
<1> QED
  BY <1>1, <1>2, TestConnectionStep

LEMMA EnqueueStep ==
  ASSUME IInv, NEW c \in Calls, NEW left \in Nat, Enqueue(c, left)
  PROVE  IInv'
<1>1. /\ calls' = [calls EXCEPT ![c] = Queued(left)]
      /\ UNCHANGED <<presets, models, supported, enabled, runs, tests, reported, unlocked>>
  BY DEF Enqueue
<1> QED
  BY <1>1, CallFacts, MoveStep

LEMMA AnsweredStep ==
  ASSUME IInv, NEW c \in Calls, TestAnswered(c)
  PROVE  IInv'
<1>1. /\ RecordConnectionTest(c, calls[c].kind) /\ calls[c].kind \in {"test", "probe"}
      /\ UNCHANGED <<presets, models, supported, enabled, runs, reported, unlocked>>
  BY DEF TestAnswered
<1>2. ProbeInv
  BY DEF IInv
<1>3. /\ calls[c].kind = "test" => unlocked'
      /\ calls[c].kind = "probe" => \A d \in Calls : calls[d].kind = "probe" => d = c
      /\ ~unlocked' => ~unlocked
  BY <1>1, <1>2 DEF ProbeInv
<1> QED
  BY <1>1, <1>3, RecordStep

LEMMA ReportStep ==
  ASSUME IInv, NEW c \in Calls, ApplyConnectionTest(c)
  PROVE  IInv' /\ (~unlocked => reported' > reported)
<1>0. /\ TypeOK /\ ProbeInv /\ calls[c].phase = "recorded" /\ reported' = calls[c].row
      /\ calls' = [calls EXCEPT ![c] = AfterTest(c)]
      /\ UNCHANGED <<presets, models, supported, enabled, runs, tests, unlocked>>
  BY DEF IInv, ApplyConnectionTest
<1>1. /\ calls \in [Calls -> CallRecords] /\ calls[c].row \in Nat
      /\ tests \in Nat /\ reported \in Nat
  BY <1>0 DEF TypeOK, CallRecords
<1>2. /\ AfterTest(c) \in CallRecords /\ AfterTest(c).kind \notin {"test", "probe"}
      /\ AfterTest(c).phase # "recorded"
  BY <1>0, AfterTestFacts
<1>3. /\ calls' \in [Calls -> CallRecords]
      /\ \A d \in Calls : calls'[d] = IF d = c THEN AfterTest(c) ELSE calls[d]
  BY <1>0, <1>1, <1>2
<1>4. ASSUME ~unlocked, NEW d \in Calls, d # c
      PROVE  calls[d].phase # "recorded"
  BY <1>0, <1>4 DEF ProbeInv
<1>5. ProbeInv'
  <2>1. reported' <= tests'
    BY <1>0 DEF ProbeInv
  <2>2. \A d \in Calls : calls'[d].phase = "recorded" =>
          calls'[d].row <= tests' /\ calls'[d].kind \in {"test", "probe"}
    BY <1>0, <1>2, <1>3 DEF ProbeInv
  <2>3. \A d, e \in Calls : calls'[d].kind = "probe" /\ calls'[e].kind = "probe" => d = e
    BY <1>0, <1>2, <1>3 DEF ProbeInv
  <2>4. ~unlocked' => \A d \in Calls : calls'[d].kind # "test" /\ calls'[d].phase # "recorded"
    BY <1>0, <1>2, <1>3, <1>4 DEF ProbeInv
  <2> QED
    BY <2>1, <2>2, <2>3, <2>4 DEF ProbeInv
<1>6. TypeOK'
  BY <1>0, <1>1, <1>3 DEF TypeOK
<1>7. ~unlocked => reported' > reported
  BY <1>0 DEF ProbeInv
<1> QED
  BY <1>0, <1>5, <1>6, <1>7, SameCatalogue DEF IInv

-----------------------------------------------------------------------------
(* Restarts. *)

LEMMA RestartStep ==
  ASSUME IInv, NEW v \in 1..MaxVersion, NEW content \in PresetRows, Restart(v, content)
  PROVE  IInv'
<1>0. /\ TypeOK /\ ProvenanceInv /\ AvailableIsOneListing /\ ProbeInv
      /\ UNCHANGED <<models, supported, enabled, runs, tests, reported, unlocked>>
      /\ calls' = [c \in Calls |-> Idle]
      /\ DOMAIN presets' = DOMAIN presets \cup {v}
      /\ \A w \in DOMAIN presets \cup {v} : presets'[w] = IF w = v THEN content ELSE presets[w]
  BY DEF IInv, Restart
<1>1. \A w \in DOMAIN presets : presets'[w] = presets[w]
  BY <1>0 DEF Restart, Installs
<1>2. ProvenanceInv'
  BY <1>0, <1>1 DEF ProvenanceInv, RowTruthful, FieldTruthful
<1>3. AvailableIsOneListing'
  BY <1>0 DEF AvailableIsOneListing, Succeeded, LastSucceeded
<1>4. ProbeInv'
  BY <1>0, CallFacts DEF ProbeInv
<1>5. TypeOK'
  BY <1>0, CallFacts DEF TypeOK
<1> QED
  BY <1>2, <1>3, <1>4, <1>5 DEF IInv

-----------------------------------------------------------------------------
(* Results. *)

LEMMA InvInit == Init => IInv
<1> SUFFICES ASSUME Init PROVE IInv
  OBVIOUS
<1>1. PICK content \in PresetRows : presets = [v \in {1} |-> content]
  BY DEF Init
<1>2. PICK ids \in SUBSET Importable : models = [id \in ids |-> ImportedRow]
  BY DEF Init
<1>3. /\ ImportedRow \in Rows /\ DOMAIN ImportedRow.md.src = {}
      /\ DOMAIN ImportedRow.md.val = {}
  <2>1. [val |-> <<>>, src |-> <<>>] \in Meta
    BY EmptyFacts DEF Meta
  <2>2. 0 \in 0..MaxVersion
    BY BoundsAssumption
  <2>3. ImportedRow \in Rows
    BY <2>1, <2>2, RowIntro DEF ImportedRow
  <2>4. ImportedRow.md.src = <<>> /\ ImportedRow.md.val = <<>>
    BY DEF ImportedRow
  <2> QED
    BY <2>3, <2>4, EmptyFacts
<1>4. DOMAIN presets = {1} /\ presets[1] \in PresetRows /\ 1 \in 1..MaxVersion
  BY <1>1, BoundsAssumption
<1>5. /\ DOMAIN models \subseteq Models /\ \A id \in DOMAIN models : models[id] = ImportedRow
  BY <1>2, ImportAssumption
<1>6. calls \in [Calls -> CallRecords] /\ \A c \in Calls : calls[c] = Idle
  BY CallFacts DEF Init
<1>7. runs = <<>> /\ runs \in Seq(RunRecords) /\ DOMAIN runs = {}
  BY DEF Init
<1>8. TypeOK
  BY <1>3, <1>4, <1>5, <1>6, <1>7 DEF Init, TypeOK
<1>9. ProvenanceInv
  BY <1>3, <1>5 DEF ProvenanceInv, RowTruthful
<1>10. AvailableIsOneListing
  BY <1>7 DEF AvailableIsOneListing, Succeeded
<1>11. ProbeInv
  BY <1>6, CallFacts DEF Init, ProbeInv
<1> QED
  BY <1>8, <1>9, <1>10, <1>11 DEF IInv

LEMMA InvStep == IInv /\ [Next]_vars => IInv'
<1> SUFFICES ASSUME IInv, [Next]_vars PROVE IInv'
  OBVIOUS
<1>1. CASE SetAccountEnabled \/ UNCHANGED vars
  <2>1. /\ enabled' \in BOOLEAN
        /\ UNCHANGED <<presets, models, calls, runs, tests, reported, unlocked>>
    BY <1>1 DEF IInv, TypeOK, SetAccountEnabled, vars
  <2> QED
    BY <2>1, QuietStep
<1>2. ASSUME NEW c \in Calls, DiscoverModels(c) PROVE IInv'
  BY <1>2, DiscoverStep
<1>3. ASSUME NEW c \in Calls, ReceiveNothing(c) PROVE IInv'
  BY <1>3, FailureStep DEF ReceiveNothing
<1>4. ASSUME NEW c \in Calls, ApplyDiscovery(c) PROVE IInv'
  BY <1>4, ApplyStep
<1>5. ASSUME NEW c \in Calls, TestSource(c) PROVE IInv'
  BY <1>5, TestSourceStep
<1>6. ASSUME NEW c \in Calls, AdminHealthProbe(c) \/ AdminHealthProbes(c) PROVE IInv'
  BY <1>6, EnqueueStep DEF AdminHealthProbe, AdminHealthProbes
<1>7. ASSUME NEW c \in Calls, ProbeAccount(c) PROVE IInv'
  BY <1>7, ProbeAccountStep
<1>8. ASSUME NEW c \in Calls, TestAnswered(c) PROVE IInv'
  BY <1>8, AnsweredStep
<1>9. ASSUME NEW c \in Calls, ApplyConnectionTest(c) PROVE IInv'
  BY <1>9, ReportStep
<1>10. ASSUME NEW c \in Calls, NEW answer \in Answers, Receive(c, answer) PROVE IInv'
  BY <1>10, ReceiveStep
<1>11. ASSUME NEW id \in Models, NEW o \in Overrides, EditSourceModel(id, o) PROVE IInv'
  BY <1>11, EditStep
<1>12. ASSUME NEW batch \in Batches, ConfirmSourceModels(batch) PROVE IInv'
  BY <1>12, ConfirmStep
<1>13. ASSUME NEW v \in 1..MaxVersion, NEW content \in PresetRows, Restart(v, content)
       PROVE  IInv'
  BY <1>13, RestartStep
<1> QED
  BY <1>1, <1>2, <1>3, <1>4, <1>5, <1>6, <1>7, <1>8, <1>9, <1>10, <1>11, <1>12,
     <1>13 DEF Next

LEMMA Invariance == Spec => []IInv
  BY InvInit, InvStep, PTL DEF Spec

\* However many discoveries of a source overlap, and whatever is edited,
\* confirmed or lost between their requests and their transactions
\* (model_catalog.rs apply_discovery), the available models are exactly one
\* list that an upstream answered.
THEOREM ListingHolds == Spec => []AvailableIsOneListing
<1>1. IInv => AvailableIsOneListing
  BY DEF IInv
<1> QED
  BY Invariance, <1>1, PTL

\* Every metadata field of every model tells where its value came from
\* (domain/catalog.rs apply_values, refreshed_preserving_user_fields), for any
\* presets, lists, overrides and restarts with newer preset versions.
THEOREM ProvenanceHolds == Spec => []ProvenanceTruthful
<1>1. IInv => ProvenanceTruthful
  <2> SUFFICES ASSUME IInv, NEW id \in DOMAIN models, NEW f \in DOMAIN models[id].md.src
               PROVE  LET row == models[id] IN
                      CASE row.md.src[f] = "preset" ->
                             /\ row.match # 0 /\ row.match \in DOMAIN presets
                             /\ presets[row.match][id] # NoPreset
                             /\ row.md.val[f] = presets[row.match][id][f]
                             /\ row.md.val[f] # Unknown
                        [] row.md.src[f] = "upstream" ->
                             /\ row.md.val[f] # Unknown
                             /\ row.conf = "pending" => row.md.val[f] = row.raw[f]
                        [] row.md.src[f] = "unknown" -> row.md.val[f] = Unknown
                        [] OTHER -> TRUE
    BY DEF ProvenanceTruthful
  <2>1. FieldTruthful(presets, id, models[id], f)
    BY DEF IInv, ProvenanceInv, RowTruthful
  <2>2. 0 \notin DOMAIN presets
    BY DEF IInv, TypeOK
  <2> QED
    BY <2>1, <2>2 DEF FieldTruthful
<1> QED
  BY Invariance, <1>1, PTL

\* No discovery, late or not, undoes a decision (refresh_source_model_tx):
\* confirmed rows keep status, metadata and preset, reviewed rows the fields
\* a user set, and no row disappears.
THEOREM DecisionsSurvive == Spec => DecisionsSurviveDiscovery
<1> DEFINE Survives ==
      runs' # runs =>
        \A id \in DOMAIN models :
          /\ id \in DOMAIN models'
          /\ models'[id].conf = models[id].conf
          /\ models[id].conf = "confirmed" => /\ models'[id].md = models[id].md
                                              /\ models'[id].match = models[id].match
          /\ \A f \in UserFields(models[id].md) :
               /\ models'[id].md.src[f] = "user"
               /\ models'[id].md.val[f] = models[id].md.val[f]
<1>1. IInv /\ [Next]_vars => [Survives]_vars
  <2> SUFFICES ASSUME IInv, Next, runs' # runs PROVE Survives
    OBVIOUS
  <2>1. CASE models' = models
    BY <2>1 DEF UserFields
  <2>2. CASE models' # models
    <3>1. PICK c \in Calls : ApplyDiscovery(c)
      BY <2>2, Zenon DEF Next, SetAccountEnabled, DiscoverModels, Discover, ReceiveNothing,
         RecordDiscoveryFailure, TestSource, TestConnection, AdminHealthProbe,
         AdminHealthProbes, Enqueue, ProbeAccount, TestAnswered, ApplyConnectionTest,
         Receive, EditSourceModel, ConfirmSourceModels, Restart
    <3> DEFINE list == calls[c].list
    <3>2. models' = AfterDiscovery(list)
      BY <2>2, <3>1 DEF ApplyDiscovery
    <3>3. list \in Lists /\ TypeOK /\ ProvenanceInv
      BY DEF IInv, TypeOK, CallRecords
    <3> HIDE DEF list
    <3> SUFFICES ASSUME NEW id \in DOMAIN models
                 PROVE  /\ id \in DOMAIN models'
                        /\ models'[id].conf = models[id].conf
                        /\ models[id].conf = "confirmed" =>
                              /\ models'[id].md = models[id].md
                              /\ models'[id].match = models[id].match
                        /\ \A f \in UserFields(models[id].md) :
                             /\ models'[id].md.src[f] = "user"
                             /\ models'[id].md.val[f] = models[id].md.val[f]
      OBVIOUS
    <3>4. CASE id \notin DOMAIN list
      BY <3>2, <3>3, <3>4, AfterFacts DEF UserFields
    <3>5. CASE id \in DOMAIN list
      <4> DEFINE old == models[id]
                 up == list[id]
                 v == MatchModelPreset(id)
                 preset == PresetMetadata(id, v)
      <4>1. id \in Models /\ up \in Metadata /\ old \in Rows
            /\ DOMAIN old.md.val = DOMAIN old.md.src
        BY <3>3, <3>5, ListFacts DEF TypeOK, ProvenanceInv, RowTruthful
      <4>2. preset \in Metadata \cup {NoPreset}
        BY <3>3, <4>1, MatchFacts
      <4>3. id \in DOMAIN models' /\ models'[id] = RefreshSourceModel(id, up, v)
        BY <3>2, <3>3, <3>5, AfterFacts
      <4>4. /\ models'[id].conf = old.conf
            /\ models'[id].match = IF old.conf = "confirmed" THEN old.match ELSE v
            /\ models'[id].md = RefreshedPreservingUserFields(old, up, preset)
        BY <3>3, <4>1, <4>3, RefreshFacts
      <4>5. /\ old.conf = "confirmed" => models'[id].md = old.md
            /\ old.conf # "confirmed" =>
                 \A f \in UserFields(old.md) :
                   models'[id].md.src[f] = "user" /\ models'[id].md.val[f] = old.md.val[f]
        BY <4>1, <4>2, <4>4, RefreshedFacts
      <4> QED
        BY <4>3, <4>4, <4>5 DEF UserFields
    <3> QED
      BY <3>4, <3>5
  <2> QED
    BY <2>1, <2>2
<1> QED
  BY Invariance, <1>1, PTL DEF Spec, DecisionsSurviveDiscovery

\* While every test takes the probe lock, reports reach the health registry
\* in the order of their rows (infra/health.rs probe_account), whatever the
\* number of probes, their batches and the restarts between them.
THEOREM ProbesInOrder == Spec => ProbesReportInOrder
<1>1. IInv /\ [Next]_vars => [reported' # reported /\ ~unlocked => reported' > reported]_vars
  <2> SUFFICES ASSUME IInv, Next, reported' # reported, ~unlocked
               PROVE  reported' > reported
    OBVIOUS
  <2>1. PICK c \in Calls : ApplyConnectionTest(c)
    BY Zenon DEF Next, SetAccountEnabled, DiscoverModels, Discover, ReceiveNothing,
       RecordDiscoveryFailure, TestSource, TestConnection, AdminHealthProbe,
       AdminHealthProbes, Enqueue, ProbeAccount, TestAnswered, ApplyDiscovery,
       Receive, EditSourceModel, ConfirmSourceModels, Restart
  <2> QED
    BY <2>1, ReportStep
<1> QED
  BY Invariance, <1>1, PTL DEF Spec, ProbesReportInOrder
=============================================================================
