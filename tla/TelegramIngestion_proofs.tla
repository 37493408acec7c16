---------------------- MODULE TelegramIngestion_proofs ----------------------
(***************************************************************************)
(* Machine-checked proofs about the record of a source channel and the     *)
(* ways messages reach it, for every number of ids, groups, edits,         *)
(* handlers and readers.                                                   *)
(***************************************************************************)
EXTENDS TelegramIngestion, WellFoundedInduction, TLAPS

-----------------------------------------------------------------------------
(* Bounds of sets of numbers *)

LEMMA SmallestExists ==
    ASSUME NEW S \in SUBSET Nat, S # {}
    PROVE  \E x \in S : \A y \in S : x <= y
<1>1. PICK x \in S : \A y \in S : <<y, x>> \notin OpToRel(<, Nat)
  BY WFMin, NatLessThanWellFounded, Zenon
<1>2. \A y \in S : ~(y < x)
  BY <1>1, Zenon DEF OpToRel
<1>3. QED BY <1>2

LEMMA MinIsLeast ==
    ASSUME NEW S \in SUBSET Nat, S # {}
    PROVE  Min(S) \in S /\ \A y \in S : Min(S) <= y
BY SmallestExists DEF Min

LEMMA MaxIsGreatest ==
    ASSUME NEW n \in Nat, NEW S \in SUBSET (0..n), S # {}
    PROVE  Max(S) \in S /\ \A y \in S : y <= Max(S)
<1> DEFINE T == {t \in Nat : n - t \in S}
<1>1. T \in SUBSET Nat
  OBVIOUS
<1>2. \A y \in S : n - y \in T
  OBVIOUS
<1>3. T # {}
  BY <1>2
<1>4. PICK t \in T : \A u \in T : t <= u
  BY <1>1, <1>3, SmallestExists
<1>5. n - t \in S /\ \A y \in S : n - t >= y
  BY <1>2, <1>4
<1>6. \E x \in S : \A y \in S : x >= y
  BY <1>5
<1>7. Max(S) \in S /\ \A y \in S : Max(S) >= y
  BY <1>6 DEF Max
<1>8. QED BY <1>7

LEMMA HighestId ==
    ASSUME NEW S \in SUBSET Ids
    PROVE  /\ Max(S \cup {0}) \in 0..MaxId
           /\ Max(S \cup {0}) \in S \cup {0}
           /\ \A i \in S : i <= Max(S \cup {0})
<1>1. MaxId \in Nat
  BY StoreAssumption
<1>2. S \cup {0} \in SUBSET (0..MaxId) /\ S \cup {0} # {}
  BY <1>1 DEF Ids
<1>3. Max(S \cup {0}) \in S \cup {0} /\ \A i \in S \cup {0} : i <= Max(S \cup {0})
  BY <1>1, <1>2, MaxIsGreatest
<1>4. QED BY <1>2, <1>3

LEMMA HighestIdGrows ==
    ASSUME NEW T \in SUBSET Ids, NEW S \in SUBSET T
    PROVE  Max(S \cup {0}) <= Max(T \cup {0})
<1>1. S \in SUBSET Ids
  OBVIOUS
<1>2. Max(S \cup {0}) \in S \cup {0}
  BY <1>1, HighestId
<1>3. Max(T \cup {0}) \in 0..MaxId /\ \A i \in T : i <= Max(T \cup {0})
  BY HighestId
<1>4. QED BY <1>2, <1>3

LEMMA NextIdIsBeyond ==
    /\ NextId \in 1..(MaxId + 1)
    /\ \A i \in Ids : channel[i] # None => i < NextId
<1> DEFINE S == {i \in Ids : channel[i] # None}
<1>1. MaxId \in Nat /\ Ids = 1..MaxId
  BY StoreAssumption DEF Ids
<1>2. S \in SUBSET Ids
  OBVIOUS
<1>3. Max(S \cup {0}) \in 0..MaxId /\ \A i \in S : i <= Max(S \cup {0})
  BY <1>2, HighestId
<1>4. NextId = Max(S \cup {0}) + 1
  BY DEF NextId, NoMessage
<1> HIDE DEF S
<1> DEFINE top == Max(S \cup {0})
<1>5. top \in 0..MaxId /\ NextId = top + 1
  BY <1>3, <1>4
<1>6. \A i \in S : i <= top
  BY <1>3
<1>7. \A i \in S : i \in Int
  BY <1>1, <1>2
<1> HIDE DEF top
<1>8. NextId \in 1..(MaxId + 1) /\ \A i \in S : i < NextId
  BY <1>1, <1>5, <1>6, <1>7
<1>9. QED BY <1>8 DEF S

LEMMA NextIdTyped == NextId \in Nat /\ NextId' \in Nat
<1>1. Max({i \in Ids : channel[i] # None} \cup {0}) \in 0..MaxId
  BY HighestId
<1>2. Max({i \in Ids : channel'[i] # None} \cup {0}) \in 0..MaxId
  BY HighestId
<1>3. QED BY <1>1, <1>2 DEF NextId, NoMessage

LEMMA NewestIsPosted ==
    Newest \in Ids \cup {NoMessage} /\ Newest < NextId
<1> DEFINE S == {i \in Ids : channel[i] # None /\ i \notin gone}
           T == {i \in Ids : channel[i] # None}
<1>1. T \in SUBSET Ids /\ S \in SUBSET T
  OBVIOUS
<1>2. Max(S \cup {0}) <= Max(T \cup {0})
  BY <1>1, HighestIdGrows
<1>3. Max(S \cup {0}) \in S \cup {0} /\ Max(T \cup {0}) \in 0..MaxId
  BY <1>1, HighestId
<1>4. Newest = Max(S \cup {0}) /\ NextId = Max(T \cup {0}) + 1
  BY DEF Newest, NextId, NoMessage
<1>5. Newest \in Ids \cup {0}
  BY <1>3, <1>4
<1>6. Max(S \cup {0}) \in Int /\ Max(T \cup {0}) \in Int
  BY <1>1, <1>3, StoreAssumption DEF Ids
<1> HIDE DEF S, T
<1>7. Newest < NextId
  BY <1>2, <1>4, <1>6
<1>8. QED BY <1>5, <1>7 DEF NoMessage

LEMMA NextIdGrows ==
    ASSUME \A i \in Ids : channel[i] # None => channel'[i] # None
    PROVE  NextId <= NextId'
<1> DEFINE S == {i \in Ids : channel[i] # None}
           T == {i \in Ids : channel'[i] # None}
<1>1. T \in SUBSET Ids /\ S \in SUBSET T
  OBVIOUS
<1>2. Max(S \cup {0}) <= Max(T \cup {0})
  BY <1>1, HighestIdGrows
<1>3. Max(S \cup {0}) \in S \cup {0} /\ Max(T \cup {0}) \in 0..MaxId
  BY <1>1, HighestId
<1>4. NextId = Max(S \cup {0}) + 1 /\ NextId' = Max(T \cup {0}) + 1
  BY DEF NextId, NoMessage
<1>5. Max(S \cup {0}) \in Int /\ Max(T \cup {0}) \in Int
  BY <1>1, <1>3, StoreAssumption DEF Ids
<1> HIDE DEF S, T
<1>6. QED BY <1>2, <1>4, <1>5

-----------------------------------------------------------------------------
(* A logical message from its parts *)

Owned(ps, i, k) == ps[i] # None /\ ps[i].owner = k

\* k has the same parts in ps and in qs.
SameParts(ps, qs, k) ==
    \A i \in Ids : (Owned(ps, i, k) <=> Owned(qs, i, k)) /\ (Owned(ps, i, k) => ps[i] = qs[i])

\* What the store kept in parts is still in ps.
PartsKept(ps) ==
    \A i \in Ids : parts[i] # None =>
        ps[i] # None /\ ps[i].owner = parts[i].owner /\ ps[i].edited >= parts[i].edited

\* A message keeps its lifecycle marks in row.
MarksKept(k, row) ==
    messages[k] # None =>
        /\ messages[k].changed => row.changed
        /\ messages[k].deletedBy # None => row.deletedBy = messages[k].deletedBy

StoreHistory ==
    /\ PartsKept(parts')
    /\ \A k \in Logicals : messages[k] # None => messages'[k] # None /\ MarksKept(k, messages'[k])

LEMMA NoneIsNotARow ==
    /\ None \notin Part
    /\ None \notin Message
    /\ None \notin Snapshot
    /\ None \notin Logicals
    /\ None \notin Ids
BY RowAssumption, StoreAssumption DEF Logicals

LEMMA MinOfIds ==
    ASSUME NEW S \in SUBSET Ids, S # {}
    PROVE  Min(S) \in S
<1>1. S \in SUBSET Nat
  BY StoreAssumption DEF Ids
<1>2. QED BY <1>1, MinIsLeast

LEMMA ShapeTyped ==
    ASSUME NEW i \in Ids, NEW c \in Contents
    PROVE  Shape[i][c].kind \in Kinds \cup {None}
<1>1. Shape[i] \in [Contents -> [caption : BOOLEAN, kind : Kinds \cup {None}]]
  BY StoreAssumption
<1>2. Shape[i][c] \in [caption : BOOLEAN, kind : Kinds \cup {None}]
  BY <1>1
<1>3. QED BY <1>2

LEMMA SourceTyped ==
    ASSUME NEW ps \in [Ids -> Part \cup {None}], NEW k \in Logicals, Retained(ps, k) # {}
    PROVE  NormalizedFromParts(ps, k) \in SourceSnapshot
<1> DEFINE ids == Retained(ps, k)
           edits == {ps[i].edited : i \in ids}
<1>1. ids \in SUBSET Ids /\ ids # {}
  BY DEF Retained
<1>2. \A i \in ids : ps[i] \in Part
  BY DEF Retained
<1>3. \A i \in ids : ps[i].content \in Contents /\ ps[i].edited \in EditTimes
  BY <1>2 DEF Part
<1> HIDE DEF ids
<1>4. Min(ids) \in Ids
  BY <1>1, MinOfIds
<1>5. Max(edits) \in EditTimes
  <2>1. edits \in SUBSET (0..MaxEdited) /\ edits # {}
    BY <1>1, <1>3 DEF EditTimes, NotEdited
  <2>2. Max(edits) \in edits
    BY <2>1, StoreAssumption, MaxIsGreatest
  <2>3. QED BY <2>1, <2>2 DEF EditTimes, NotEdited
<1>6. NormalizedText(ps, ids) \in Text
  <2> DEFINE captioned == {i \in ids : Shape[i][ps[i].content].caption}
  <2>1. captioned \in SUBSET ids
    OBVIOUS
  <2>2. NormalizedText(ps, ids) =
            IF captioned = {} THEN None ELSE <<Min(captioned), ps[Min(captioned)].content>>
    BY DEF NormalizedText
  <2> HIDE DEF captioned
  <2>3. CASE captioned = {}
    BY <2>2, <2>3 DEF Text
  <2>4. CASE captioned # {}
    <3>1. captioned \in SUBSET Ids
      BY <1>1, <2>1
    <3>2. Min(captioned) \in captioned
      BY <2>4, <3>1, MinOfIds
    <3>3. Min(captioned) \in Ids /\ ps[Min(captioned)].content \in Contents
      BY <1>1, <1>3, <2>1, <3>2
    <3>4. QED BY <2>2, <2>4, <3>3 DEF Text
  <2>5. QED BY <2>3, <2>4
<1>7. NormalizedMedia(ps, ids) \in SUBSET Media
  <2>1. \A i \in ids : i \in Ids /\ Shape[i][ps[i].content].kind \in Kinds \cup {None}
    BY <1>1, <1>3, ShapeTyped
  <2>2. \A i \in ids : <<i, Shape[i][ps[i].content].kind>> \in Media
    BY <2>1 DEF Media
  <2>3. QED BY <2>2 DEF NormalizedMedia
<1>8. NormalizedFromParts(ps, k) =
        [ids |-> ids, primary |-> Min(ids), edited |-> Max(edits),
         text |-> NormalizedText(ps, ids), media |-> NormalizedMedia(ps, ids)]
  BY DEF NormalizedFromParts, ids
<1> HIDE DEF edits
<1>9. QED BY <1>1, <1>4, <1>5, <1>6, <1>7, <1>8 DEF SourceSnapshot

LEMMA SourceIsOfOwnParts ==
    ASSUME NEW ps, NEW qs, NEW k, SameParts(ps, qs, k)
    PROVE  NormalizedFromParts(ps, k) = NormalizedFromParts(qs, k)
<1> DEFINE ids == Retained(ps, k)
<1>1. Retained(qs, k) = ids
  BY DEF SameParts, Owned, Retained
<1>2. \A i \in ids : i \in Ids /\ ps[i] = qs[i]
  BY DEF SameParts, Owned, Retained
<1> HIDE DEF ids
<1>3. {ps[i].edited : i \in ids} = {qs[i].edited : i \in ids}
  BY <1>2
<1>4. NormalizedText(ps, ids) = NormalizedText(qs, ids)
  <2> DEFINE captioned == {i \in ids : Shape[i][ps[i].content].caption}
  <2>1. captioned = {i \in ids : Shape[i][qs[i].content].caption}
    BY <1>2
  <2>2. CASE captioned = {}
    BY <2>1, <2>2 DEF NormalizedText
  <2>3. CASE captioned # {}
    <3>1. \A i \in Ids : i \in captioned => i \in ids
      OBVIOUS
    <3>2. captioned \in SUBSET Ids
      BY <1>2
    <3>3. Min(captioned) \in ids
      BY <2>3, <3>1, <3>2, MinOfIds
    <3>4. ps[Min(captioned)] = qs[Min(captioned)]
      BY <1>2, <3>3
    <3>5. NormalizedText(ps, ids) = <<Min(captioned), ps[Min(captioned)].content>>
      BY <2>3 DEF NormalizedText
    <3>6. NormalizedText(qs, ids) = <<Min(captioned), qs[Min(captioned)].content>>
      BY <2>1, <2>3 DEF NormalizedText
    <3>7. QED BY <3>4, <3>5, <3>6
  <2>4. QED BY <2>2, <2>3
<1>5. NormalizedMedia(ps, ids) = NormalizedMedia(qs, ids)
  <2> DEFINE pictured == {j \in ids : Shape[j][ps[j].content].kind # None}
  <2>1. pictured = {j \in ids : Shape[j][qs[j].content].kind # None}
    BY <1>2
  <2>2. \A j \in pictured : ps[j] = qs[j]
    BY <1>2
  <2>3. NormalizedMedia(ps, ids) = {<<i, Shape[i][ps[i].content].kind>> : i \in pictured}
    BY DEF NormalizedMedia
  <2>4. NormalizedMedia(qs, ids) = {<<i, Shape[i][qs[i].content].kind>> : i \in pictured}
    BY <2>1 DEF NormalizedMedia
  <2> HIDE DEF pictured
  <2>5. QED BY <2>2, <2>3, <2>4
<1>6. NormalizedFromParts(ps, k) =
        [ids |-> ids, primary |-> Min(ids), edited |-> Max({ps[i].edited : i \in ids}),
         text |-> NormalizedText(ps, ids), media |-> NormalizedMedia(ps, ids)]
  BY DEF NormalizedFromParts, ids
<1>7. NormalizedFromParts(qs, k) =
        [ids |-> ids, primary |-> Min(ids), edited |-> Max({qs[i].edited : i \in ids}),
         text |-> NormalizedText(qs, ids), media |-> NormalizedMedia(qs, ids)]
  BY <1>1 DEF NormalizedFromParts
<1>8. QED BY <1>3, <1>4, <1>5, <1>6, <1>7, Zenon

-----------------------------------------------------------------------------
(* Operations of the store *)

\* ps differs from the stored parts in the parts of k, and takes none away.
ChangesOnly(k, ps) ==
    /\ ps \in [Ids -> Part \cup {None}]
    /\ Retained(ps, k) # {}
    /\ PartsKept(ps)
    /\ \A j \in Logicals : j # k => SameParts(parts, ps, j)

LEMMA RebuildKeepsStore ==
    ASSUME StoreTypeOK, ParentMatchesParts,
           NEW k \in Logicals, NEW ps, NEW row \in Message,
           ChangesOnly(k, ps), MarksKept(k, row), Rebuild(ps, k, row)
    PROVE  StoreTypeOK' /\ ParentMatchesParts' /\ StoreHistory /\ parts' = ps
<1> DEFINE source == NormalizedFromParts(ps, k)
           new == [row EXCEPT !.source = source]
<1>1. source \in SourceSnapshot
  BY SourceTyped DEF ChangesOnly
<1>2. /\ parts' = ps
      /\ messages' = [messages EXCEPT ![k] = new]
      /\ assets' = assets \cup ArchiveAssets(k, source.media)
  BY DEF Rebuild
<1> HIDE DEF source
<1>3. /\ new \in Message
      /\ new.source = source
      /\ new.changed = row.changed
      /\ new.deletedBy = row.deletedBy
  BY <1>1 DEF Message
<1> HIDE DEF new
<1>4. new # None
  BY <1>3, NoneIsNotARow
<1>5. messages \in [Logicals -> Message \cup {None}]
  BY DEF StoreTypeOK
<1>6. /\ messages'[k] = new
      /\ \A j \in Logicals : j # k => messages'[j] = messages[j]
      /\ messages' \in [Logicals -> Message \cup {None}]
  BY <1>2, <1>3, <1>5
<1>7. StoreTypeOK'
  <2>1. source.media \in SUBSET Media
    BY <1>1 DEF SourceSnapshot
  <2>2. ArchiveAssets(k, source.media) \subseteq Logicals \X Media
    BY <2>1 DEF ArchiveAssets
  <2>3. QED BY <1>2, <1>6, <2>2 DEF StoreTypeOK, ChangesOnly
<1>8. \A i \in Ids : ps[i] # None => messages'[ps[i].owner] # None
  <2> SUFFICES ASSUME NEW i \in Ids, ps[i] # None
               PROVE  messages'[ps[i].owner] # None
    OBVIOUS
  <2>1. ps[i] \in Part
    BY DEF ChangesOnly
  <2>2. ps[i].owner \in Logicals
    BY <2>1 DEF Part
  <2>3. CASE ps[i].owner = k
    BY <1>4, <1>6, <2>3
  <2>4. CASE ps[i].owner # k
    <3>1. SameParts(parts, ps, ps[i].owner)
      BY <2>2, <2>4 DEF ChangesOnly
    <3>2. parts[i] = ps[i]
      BY <3>1 DEF SameParts, Owned
    <3>3. messages[ps[i].owner] # None
      BY <3>2 DEF ParentMatchesParts
    <3>4. QED BY <1>6, <2>2, <2>4, <3>3
  <2>5. QED BY <2>3, <2>4
<1>9. ASSUME NEW j \in Logicals, messages'[j] # None
      PROVE  /\ messages'[j].source = NormalizedFromParts(ps, j)
             /\ ArchiveAssets(j, messages'[j].source.media) \subseteq assets'
  <2>1. CASE j = k
    BY <1>2, <1>3, <1>6, <2>1 DEF source
  <2>2. CASE j # k
    <3>1. SameParts(parts, ps, j)
      BY <2>2 DEF ChangesOnly
    <3>2. NormalizedFromParts(parts, j) = NormalizedFromParts(ps, j)
      BY <3>1, SourceIsOfOwnParts
    <3>3. messages'[j] = messages[j]
      BY <1>6, <2>2
    <3>4. /\ messages[j].source = NormalizedFromParts(parts, j)
          /\ ArchiveAssets(j, messages[j].source.media) \subseteq assets
      BY <1>9, <3>3 DEF ParentMatchesParts
    <3>5. QED BY <1>2, <3>2, <3>3, <3>4
  <2>3. QED BY <2>1, <2>2
<1>10. ParentMatchesParts'
  BY <1>2, <1>8, <1>9 DEF ParentMatchesParts
<1>11. \A j \in Logicals : messages[j] # None => messages'[j] # None /\ MarksKept(j, messages'[j])
  <2> SUFFICES ASSUME NEW j \in Logicals, messages[j] # None
               PROVE  messages'[j] # None /\ MarksKept(j, messages'[j])
    OBVIOUS
  <2>1. CASE j = k
    BY <1>3, <1>4, <1>6, <2>1 DEF MarksKept
  <2>2. CASE j # k
    BY <1>6, <2>2 DEF MarksKept
  <2>3. QED BY <2>1, <2>2
<1>12. StoreHistory
  BY <1>2, <1>11 DEF StoreHistory, ChangesOnly
<1>13. QED BY <1>2, <1>7, <1>10, <1>12

LEMMA MergedPartsChangeOnlyTheirOwner ==
    ASSUME StoreTypeOK, NEW k \in Logicals, NEW ds \in SUBSET Snapshot, ds # {},
           \A c, d \in ds : c.id = d.id => c = d,
           ComponentsOwned(k, ds)
    PROVE  ChangesOnly(k, MergedParts(k, ds)) /\ \A d \in ds : MergedParts(k, ds)[d.id] # None
<1> DEFINE ps == MergedParts(k, ds)
           Replaces(d) == parts[d.id] = None \/ IncomingIsNotStale(parts[d.id], d)
           Row(d) == [owner |-> k, content |-> d.content, edited |-> d.edited]
<1>1. \A d \in ds : /\ d.id \in Ids
                    /\ d.content \in Contents
                    /\ d.edited \in EditTimes
  BY DEF Snapshot
<1>2. \A d \in ds : Row(d) \in Part
  BY <1>1 DEF Part
<1>3. \A d \in ds : (CHOOSE c \in ds : c.id = d.id) = d
  OBVIOUS
<1>4. ASSUME NEW d \in ds, Replaces(d)
      PROVE  ps[d.id] = Row(d)
  <2>1. d.id \in Ids
    BY <1>1
  <2>2. \E c \in ds : c.id = d.id /\ (parts[d.id] = None \/ IncomingIsNotStale(parts[d.id], c))
    BY <1>4
  <2>3. QED BY <1>3, <2>1, <2>2 DEF MergedParts
<1>5. ASSUME NEW i \in Ids, ~\E d \in ds : d.id = i /\ Replaces(d)
      PROVE  ps[i] = parts[i]
  <2>1. ~\E d \in ds : d.id = i /\ (parts[i] = None \/ IncomingIsNotStale(parts[i], d))
    BY <1>5
  <2>2. QED BY <2>1 DEF MergedParts
<1>6. DOMAIN ps = Ids /\ ps = [i \in Ids |-> ps[i]]
  BY DEF MergedParts
<1> HIDE DEF ps
<1>7. \A i \in Ids : parts[i] \in Part \cup {None}
  BY DEF StoreTypeOK
<1>8. \A i \in Ids : (\E d \in ds : d.id = i /\ Replaces(d) /\ ps[i] = Row(d)) \/ ps[i] = parts[i]
  BY <1>4, <1>5
<1>9. ps \in [Ids -> Part \cup {None}]
  <2>1. \A i \in Ids : ps[i] \in Part \cup {None}
    BY <1>2, <1>7, <1>8
  <2>2. QED BY <1>6, <2>1
<1>10. \A d \in ds : Row(d) # None /\ Row(d).owner = k /\ Row(d).edited = d.edited
  <2>1. \A d \in ds : Row(d) # None
    BY <1>2, NoneIsNotARow
  <2>2. QED BY <2>1
<1>11. \A d \in ds : ps[d.id] # None /\ ps[d.id].owner = k
  <2> SUFFICES ASSUME NEW d \in ds
               PROVE  ps[d.id] # None /\ ps[d.id].owner = k
    OBVIOUS
  <2>1. CASE Replaces(d)
    <3>1. ps[d.id] = Row(d)
      BY <1>4, <2>1
    <3>2. Row(d) # None /\ Row(d).owner = k
      BY <1>10
    <3> HIDE DEF Row
    <3>3. QED BY <3>1, <3>2
  <2>2. CASE ~Replaces(d)
    <3>1. parts[d.id] # None /\ parts[d.id].owner = k
      BY <2>2 DEF ComponentsOwned
    <3>2. \A c \in ds : c.id = d.id => ~Replaces(c)
      BY <2>2
    <3>3. ps[d.id] = parts[d.id]
      BY <1>1, <1>5, <3>2
    <3>4. QED BY <3>1, <3>3
  <2>3. QED BY <2>1, <2>2
<1>12. Retained(ps, k) # {}
  BY <1>1, <1>11 DEF Retained
<1>13. PartsKept(ps)
  <2> SUFFICES ASSUME NEW i \in Ids, parts[i] # None
               PROVE  /\ ps[i] # None
                      /\ ps[i].owner = parts[i].owner
                      /\ ps[i].edited >= parts[i].edited
    BY DEF PartsKept
  <2>1. parts[i].edited \in EditTimes
    BY <1>7 DEF Part
  <2>2. CASE ps[i] = parts[i]
    BY <2>1, <2>2, StoreAssumption DEF EditTimes, NotEdited
  <2>3. ASSUME NEW d \in ds, d.id = i, Replaces(d), ps[i] = Row(d)
        PROVE  /\ ps[i] # None
               /\ ps[i].owner = parts[i].owner
               /\ ps[i].edited >= parts[i].edited
    <3>1. parts[i].owner = k
      BY <2>3 DEF ComponentsOwned
    <3>2. IncomingIsNotStale(parts[i], d)
      BY <2>3
    <3>3. d.edited >= parts[i].edited
      BY <1>1, <2>1, <3>2, StoreAssumption DEF IncomingIsNotStale, EditTimes, NotEdited
    <3>4. QED BY <1>10, <2>3, <3>1, <3>3
  <2>4. QED BY <1>8, <2>2, <2>3
<1>14. ASSUME NEW j \in Logicals, j # k
       PROVE  SameParts(parts, ps, j)
  <2> SUFFICES ASSUME NEW i \in Ids
               PROVE  /\ Owned(parts, i, j) <=> Owned(ps, i, j)
                      /\ Owned(parts, i, j) => parts[i] = ps[i]
    BY DEF SameParts
  <2>1. CASE ps[i] = parts[i]
    BY <2>1 DEF Owned
  <2>2. ASSUME NEW d \in ds, d.id = i
        PROVE  ~Owned(parts, i, j) /\ ~Owned(ps, i, j)
    BY <1>11, <1>14, <2>2 DEF Owned, ComponentsOwned
  <2>3. QED BY <1>8, <2>1, <2>2
<1>15. ChangesOnly(k, ps)
  BY <1>9, <1>12, <1>13, <1>14 DEF ChangesOnly
<1>16. QED BY <1>11, <1>15 DEF ps

LEMMA UpsertKeepsStore ==
    ASSUME StoreTypeOK, ParentMatchesParts,
           NEW k \in Logicals, NEW ds \in SUBSET Snapshot, ds # {},
           \A c, d \in ds : c.id = d.id => c = d,
           UpsertMessage(k, ds)
    PROVE  /\ StoreTypeOK' /\ ParentMatchesParts' /\ StoreHistory
           /\ \A d \in ds : parts'[d.id] # None
<1> DEFINE ps == MergedParts(k, ds)
           row == IF messages[k] # None THEN messages[k]
                  ELSE NewMessage(NormalizedFromParts(ps, k))
<1>1. ComponentsOwned(k, ds) /\ Rebuild(ps, k, row)
  BY DEF UpsertMessage
<1>2. ChangesOnly(k, ps) /\ \A d \in ds : ps[d.id] # None
  BY <1>1, MergedPartsChangeOnlyTheirOwner
<1> HIDE DEF ps
<1>3. NormalizedFromParts(ps, k) \in SourceSnapshot
  BY <1>2, SourceTyped DEF ChangesOnly
<1>4. row \in Message
  <2>1. CASE messages[k] # None
    BY <2>1 DEF StoreTypeOK
  <2>2. CASE messages[k] = None
    BY <1>3, <2>2 DEF NewMessage, Message
  <2>3. QED BY <2>1, <2>2
<1>5. MarksKept(k, row)
  BY DEF MarksKept
<1> HIDE DEF row
<1>6. StoreTypeOK' /\ ParentMatchesParts' /\ StoreHistory /\ parts' = ps
  BY <1>1, <1>2, <1>4, <1>5, RebuildKeepsStore
<1>7. QED BY <1>2, <1>6

LEMMA EditKeepsStore ==
    ASSUME StoreTypeOK, ParentMatchesParts, NEW d \in Snapshot, RecordEdit(d)
    PROVE  StoreTypeOK' /\ ParentMatchesParts' /\ StoreHistory
<1> DEFINE k == parts[d.id].owner
           part == [parts[d.id] EXCEPT !.content = d.content, !.edited = d.edited]
           ps == [parts EXCEPT ![d.id].content = d.content, ![d.id].edited = d.edited]
           row == [messages[k] EXCEPT !.changed = @ \/ messages[k].processed]
<1>1. /\ parts[d.id] # None
      /\ parts[d.id].edited = NotEdited \/ d.edited > parts[d.id].edited
      /\ Rebuild(ps, k, row)
  BY DEF RecordEdit
<1>2. d.id \in Ids /\ d.content \in Contents /\ d.edited \in EditTimes
  BY DEF Snapshot
<1>3. parts \in [Ids -> Part \cup {None}] /\ messages \in [Logicals -> Message \cup {None}]
  BY DEF StoreTypeOK
<1>4. parts[d.id] \in Part
  BY <1>1, <1>2, <1>3
<1>5. k \in Logicals /\ parts[d.id].edited \in EditTimes
  BY <1>4 DEF Part
<1>6. part \in Part /\ part.owner = k /\ part.edited = d.edited
  BY <1>2, <1>4 DEF Part
<1>7. /\ ps[d.id] = part
      /\ \A i \in Ids : i # d.id => ps[i] = parts[i]
      /\ DOMAIN ps = Ids /\ ps = [i \in Ids |-> ps[i]]
  BY <1>2, <1>3
<1> HIDE DEF part, ps
<1>8. ps \in [Ids -> Part \cup {None}]
  <2>1. \A i \in Ids : ps[i] \in Part \cup {None}
    BY <1>3, <1>6, <1>7
  <2>2. QED BY <1>7, <2>1
<1>9. ps[d.id] # None
  BY <1>6, <1>7, NoneIsNotARow
<1>10. ChangesOnly(k, ps)
  <2>1. Retained(ps, k) # {}
    BY <1>2, <1>6, <1>7, <1>9 DEF Retained
  <2>2. d.edited >= parts[d.id].edited
    BY <1>1, <1>2, <1>5, StoreAssumption DEF EditTimes, NotEdited
  <2>3. ASSUME NEW i \in Ids, parts[i] # None
        PROVE  /\ ps[i] # None
               /\ ps[i].owner = parts[i].owner
               /\ ps[i].edited >= parts[i].edited
    <3>1. CASE i = d.id
      BY <1>6, <1>7, <1>9, <2>2, <3>1
    <3>2. CASE i # d.id
      <4>1. parts[i].edited \in EditTimes
        BY <1>3, <2>3 DEF Part
      <4>2. QED BY <1>7, <2>3, <3>2, <4>1, StoreAssumption DEF EditTimes, NotEdited
    <3>3. QED BY <3>1, <3>2
  <2>4. PartsKept(ps)
    BY <2>3 DEF PartsKept
  <2>5. ASSUME NEW j \in Logicals, j # k
        PROVE  SameParts(parts, ps, j)
    <3> SUFFICES ASSUME NEW i \in Ids
                 PROVE  /\ Owned(parts, i, j) <=> Owned(ps, i, j)
                        /\ Owned(parts, i, j) => parts[i] = ps[i]
      BY DEF SameParts
    <3>1. CASE i = d.id
      BY <1>6, <1>7, <2>5, <3>1 DEF Owned
    <3>2. CASE i # d.id
      BY <1>7, <3>2 DEF Owned
    <3>3. QED BY <3>1, <3>2
  <2>6. QED BY <1>8, <2>1, <2>4, <2>5 DEF ChangesOnly
<1>11. messages[k] \in Message
  <2>1. messages[k] # None
    BY <1>1, <1>2 DEF ParentMatchesParts
  <2>2. QED BY <1>3, <1>5, <2>1
<1>12. /\ row \in Message
       /\ row.changed = (messages[k].changed \/ messages[k].processed)
       /\ row.deletedBy = messages[k].deletedBy
  BY <1>11 DEF Message
<1>13. MarksKept(k, row)
  BY <1>12 DEF MarksKept
<1> HIDE DEF row, k
<1>14. QED BY <1>1, <1>5, <1>10, <1>12, <1>13, RebuildKeepsStore

\* A step that only writes the lifecycle columns of k.
MarksOnly(k, row) ==
    /\ messages[k] # None
    /\ row \in Message /\ row.source = messages[k].source
    /\ MarksKept(k, row)
    /\ messages' = [messages EXCEPT ![k] = row]
    /\ UNCHANGED <<parts, assets>>

LEMMA PartsKeptAsTheyAre ==
    ASSUME StoreTypeOK, parts' = parts
    PROVE  PartsKept(parts')
<1> SUFFICES ASSUME NEW i \in Ids, parts[i] # None
             PROVE  parts[i].edited >= parts[i].edited
  BY DEF PartsKept
<1>1. parts[i] \in Part
  BY DEF StoreTypeOK
<1>2. parts[i].edited \in EditTimes
  BY <1>1 DEF Part
<1>3. QED BY <1>2, StoreAssumption DEF EditTimes, NotEdited

LEMMA MarksKeepStore ==
    ASSUME StoreTypeOK, ParentMatchesParts, NEW k \in Logicals, NEW row, MarksOnly(k, row)
    PROVE  StoreTypeOK' /\ ParentMatchesParts' /\ StoreHistory
<1>1. messages \in [Logicals -> Message \cup {None}] /\ row \in Message /\ row # None
  BY NoneIsNotARow DEF StoreTypeOK, MarksOnly
<1>2. /\ messages'[k] = row
      /\ \A j \in Logicals : j # k => messages'[j] = messages[j]
      /\ messages' \in [Logicals -> Message \cup {None}]
  BY <1>1 DEF MarksOnly
<1>3. parts' = parts /\ assets' = assets
  BY DEF MarksOnly
<1>4. StoreTypeOK'
  BY <1>2, <1>3 DEF StoreTypeOK
<1>5. \A j \in Logicals : messages[j] # None <=> messages'[j] # None
  BY <1>1, <1>2 DEF MarksOnly
<1>6. \A j \in Logicals : messages[j] # None => messages'[j].source = messages[j].source
  BY <1>2 DEF MarksOnly
<1>7. ASSUME NEW i \in Ids, parts[i] # None
      PROVE  messages'[parts[i].owner] # None
  <2>1. parts[i] \in Part
    BY <1>7 DEF StoreTypeOK
  <2>2. parts[i].owner \in Logicals
    BY <2>1 DEF Part
  <2>3. QED BY <1>5, <1>7, <2>2 DEF ParentMatchesParts
<1>8. ParentMatchesParts'
  BY <1>3, <1>5, <1>6, <1>7 DEF ParentMatchesParts
<1>9. \A j \in Logicals : messages[j] # None => MarksKept(j, messages'[j])
  BY <1>2 DEF MarksOnly, MarksKept
<1>10. StoreHistory
  BY <1>3, <1>5, <1>9, PartsKeptAsTheyAre DEF StoreHistory
<1>11. QED BY <1>4, <1>8, <1>10

LEMMA DeletionKeepsStore ==
    ASSUME StoreTypeOK, ParentMatchesParts, NEW i \in Ids, RecordDeletion(i)
    PROVE  StoreTypeOK' /\ ParentMatchesParts' /\ StoreHistory
<1> DEFINE k == parts[i].owner
           row == [messages[k] EXCEPT !.deletedBy = i, !.changed = @ \/ messages[k].processed]
<1>1. parts[i] \in Part
  BY DEF StoreTypeOK, RecordDeletion
<1>2. k \in Logicals
  BY <1>1 DEF Part
<1>3. messages[k] # None
  BY DEF ParentMatchesParts, RecordDeletion
<1>4. messages[k] \in Message
  BY <1>2, <1>3 DEF StoreTypeOK
<1>5. /\ messages[k].deletedBy = None
      /\ messages' = [messages EXCEPT ![k].deletedBy = i,
                                      ![k].changed = @ \/ messages[k].processed]
      /\ UNCHANGED <<parts, assets>>
  BY DEF RecordDeletion
<1> HIDE DEF k
<1>6. /\ row \in Message
      /\ row.source = messages[k].source
      /\ row.changed = (messages[k].changed \/ messages[k].processed)
  BY <1>4 DEF Message
<1>7. messages' = [messages EXCEPT ![k] = row]
  <2>1. messages \in [Logicals -> Message \cup {None}]
    BY DEF StoreTypeOK
  <2>2. QED BY <1>2, <1>4, <1>5, <2>1 DEF Message
<1> HIDE DEF row
<1>8. MarksOnly(k, row)
  BY <1>3, <1>5, <1>6, <1>7 DEF MarksOnly, MarksKept
<1>9. QED BY <1>2, <1>8, MarksKeepStore

LEMMA ProcessingKeepsStore ==
    ASSUME StoreTypeOK, ParentMatchesParts, NEW k \in Logicals, MarkProcessed(k)
    PROVE  StoreTypeOK' /\ ParentMatchesParts' /\ StoreHistory
<1> DEFINE row == [messages[k] EXCEPT !.processed = TRUE]
<1>1. messages[k] # None /\ messages[k] \in Message
  BY DEF StoreTypeOK, MarkProcessed
<1>2. /\ row \in Message
      /\ row.source = messages[k].source
      /\ row.changed = messages[k].changed
      /\ row.deletedBy = messages[k].deletedBy
  BY <1>1 DEF Message
<1>3. messages' = [messages EXCEPT ![k] = row] /\ UNCHANGED <<parts, assets>>
  BY DEF MarkProcessed
<1> HIDE DEF row
<1>4. MarksOnly(k, row)
  BY <1>1, <1>2, <1>3 DEF MarksOnly, MarksKept
<1>5. QED BY <1>4, MarksKeepStore

LEMMA StoreUnchanged ==
    ASSUME StoreTypeOK, ParentMatchesParts, UNCHANGED storeVars
    PROVE  StoreTypeOK' /\ ParentMatchesParts' /\ StoreHistory
<1>1. parts' = parts /\ messages' = messages /\ assets' = assets
  BY DEF storeVars
<1>2. StoreTypeOK' /\ ParentMatchesParts'
  BY <1>1 DEF StoreTypeOK, ParentMatchesParts
<1>3. StoreHistory
  BY <1>1, PartsKeptAsTheyAre DEF StoreHistory, MarksKept
<1>4. QED BY <1>2, <1>3

-----------------------------------------------------------------------------
(* The inductive invariant *)

\* Only what the channel showed under an id was sent under it.
SentWasShown ==
    /\ \A i \in Ids : channel[i] # None => channel[i].id = i /\ channel[i] \in sent
    /\ \A d \in sent : channel[d.id] # None

\* No two snapshots of ds are one component of one logical message.
OnePerComponent(ds) ==
    \A c, d \in ds : c.id = d.id /\ c.as = d.as => c = d

BufferHoldsGroups ==
    \A g \in Groups :
        /\ buffer[g] \subseteq sent
        /\ \A c \in buffer[g] : c.as = g
        /\ OnePerComponent(buffer[g])

\* Each message of a window is stored, gone, or still to ingest.
WindowAccounted(r) ==
    \A i \in (job[r].from + 1)..job[r].upto :
        channel[i] # None => i \in gone \/ parts[i] # None \/ i \in IdsOf(job[r].batch)

\* What a job may have at each of its steps.
JobIsSound(t) ==
    /\ job[t].batch \subseteq sent
    /\ OnePerComponent(job[t].batch)
    /\ job[t].at = "ingest" => job[t].batch # {}
    /\ job[t].upto < NextId
    /\ job[t].at = "last" => job[t].upto <= latestSeen
    /\ t \in Readers /\ job[t].at \in {"fetch", "ingest"} => job[t].upto <= latestSeen
    /\ job[t].at # "ingest" => job[t].batch = {}
    /\ t \in Readers /\ job[t].at \in {"ingest", "last"} => WindowAccounted(t)

IInv ==
    /\ TypeOK
    /\ ParentMatchesParts
    /\ SentWasShown
    /\ BufferHoldsGroups
    /\ \A t \in Tasks : JobIsSound(t)

\* What no step takes back.
Grows ==
    /\ sent \subseteq sent' /\ gone \subseteq gone'
    /\ NextId <= NextId' /\ latestSeen <= latestSeen'
    /\ \A i \in Ids : parts[i] # None => parts'[i] # None
    /\ \A i \in Ids : i < NextId /\ channel'[i] # None => channel[i] # None

-----------------------------------------------------------------------------
(* What a step leaves alone *)

LEMMA NumbersTyped ==
    ASSUME TypeOK
    PROVE  /\ latestSeen \in Nat /\ lastSeen \in Nat /\ NextId \in Nat
           /\ lastSeen <= latestSeen /\ latestSeen < NextId
           /\ Ids \subseteq Nat
BY NextIdIsBeyond, StoreAssumption DEF TypeOK, NoMessage, Ids

LEMMA JobTyped ==
    ASSUME TypeOK, NEW t \in Tasks
    PROVE  /\ job[t] \in Job
           /\ job[t].batch \subseteq Snapshot
           /\ job[t].from \in Ids \cup {0} /\ job[t].from \in Nat
           /\ job[t].upto \in Ids \cup {0} /\ job[t].upto \in Nat
<1>1. job[t] \in Job
  BY DEF TypeOK
<1>2. Ids \subseteq Nat
  BY NumbersTyped
<1>3. job[t].batch \subseteq Snapshot /\ job[t].from \in Ids \cup {0} /\ job[t].upto \in Ids \cup {0}
  BY <1>1 DEF Job, NoMessage
<1>4. \A i \in Ids \cup {0} : i \in Nat
  BY <1>2
<1>5. QED BY <1>1, <1>3, <1>4

LEMMA WindowIds ==
    ASSUME TypeOK, NEW t \in Tasks
    PROVE  \A i \in (job[t].from + 1)..job[t].upto : i \in Ids
BY JobTyped, StoreAssumption DEF Ids

LEMMA OtherJobStays ==
    ASSUME IInv, Grows, NEW t \in Tasks, job'[t] = job[t], latestSeen' \in Nat
    PROVE  JobIsSound(t)'
<1>1. JobIsSound(t)
  BY DEF IInv
<1>2. /\ latestSeen \in Nat /\ NextId \in Nat /\ NextId' \in Nat
      /\ job[t].upto \in Nat /\ job[t].from \in Nat
  BY NumbersTyped, JobTyped, NextIdIsBeyond, NextIdTyped DEF IInv
<1>3. job'[t].upto < NextId'
  BY <1>1, <1>2 DEF JobIsSound, Grows
<1>4. job[t].upto <= latestSeen => job'[t].upto <= latestSeen'
  BY <1>1, <1>2 DEF Grows
<1>5. ASSUME WindowAccounted(t)
      PROVE  WindowAccounted(t)'
  <2> SUFFICES ASSUME NEW i \in (job[t].from + 1)..job[t].upto, channel'[i] # None
               PROVE  i \in gone' \/ parts'[i] # None \/ i \in IdsOf(job[t].batch)
    BY DEF WindowAccounted
  <2>1. i \in Ids /\ i \in Nat /\ i <= job[t].upto
    BY <1>2, WindowIds DEF IInv
  <2>2. i < NextId
    BY <1>1, <1>2, <2>1 DEF JobIsSound
  <2>3. channel[i] # None
    BY <2>1, <2>2 DEF Grows
  <2>4. i \in gone \/ parts[i] # None \/ i \in IdsOf(job[t].batch)
    BY <1>5, <2>3 DEF WindowAccounted
  <2>5. QED BY <2>1, <2>4 DEF Grows
<1>6. job[t].batch \subseteq sent'
  BY <1>1 DEF JobIsSound, Grows
<1>7. QED BY <1>1, <1>3, <1>4, <1>5, <1>6 DEF JobIsSound, OnePerComponent

LEMMA OneJobChanges ==
    ASSUME IInv, Grows, NEW t \in Tasks, NEW j \in Job, SetJob(t, j), JobIsSound(t)',
           latestSeen' \in Nat
    PROVE  job' \in [Tasks -> Job] /\ \A u \in Tasks : JobIsSound(u)'
<1>1. job' \in [Tasks -> Job] /\ \A u \in Tasks : u # t => job'[u] = job[u]
  BY DEF IInv, TypeOK, SetJob
<1>2. QED BY <1>1, OtherJobStays

-----------------------------------------------------------------------------
(* Steps of Telegram and of live edits and deletions *)

LEMMA InitSound == Init => IInv
<1> SUFFICES ASSUME Init PROVE IInv
  OBVIOUS
<1>1. /\ parts = [i \in Ids |-> None] /\ messages = [k \in Logicals |-> None] /\ assets = {}
      /\ channel = [i \in Ids |-> None] /\ gone = {} /\ sent = {}
      /\ buffer = [g \in Groups |-> {}]
      /\ latestSeen = 0 /\ lastSeen = 0
      /\ job = [t \in Tasks |-> Idle]
  BY DEF Init, StoreInit, NoMessage
<1>2. NextId \in 1..(MaxId + 1)
  BY NextIdIsBeyond
<1>3. Idle \in Job
  BY DEF Idle, Job
<1>4. StoreTypeOK /\ ParentMatchesParts
  <2>1. StoreTypeOK
    BY <1>1 DEF StoreTypeOK
  <2>2. \A i \in Ids : parts[i] = None
    BY <1>1
  <2>3. \A k \in Logicals : messages[k] = None
    BY <1>1
  <2>4. QED BY <2>1, <2>2, <2>3 DEF ParentMatchesParts
<1>5. TypeOK
  BY <1>1, <1>3, <1>4 DEF TypeOK, NoMessage
<1>6. SentWasShown /\ BufferHoldsGroups
  BY <1>1 DEF SentWasShown, BufferHoldsGroups, OnePerComponent
<1>7. \A t \in Tasks : JobIsSound(t)
  BY <1>1, <1>2 DEF JobIsSound, OnePerComponent, Idle, NoMessage
<1>8. QED BY <1>4, <1>5, <1>6, <1>7 DEF IInv

LEMMA ShowKeeps ==
    ASSUME IInv, NEW d \in Snapshot, Show(d), channel[d.id] # None \/ d.id = NextId
    PROVE  IInv' /\ StoreHistory
<1>1. /\ channel' = [channel EXCEPT ![d.id] = d]
      /\ sent' = sent \cup {d}
      /\ UNCHANGED storeVars
      /\ gone' = gone /\ buffer' = buffer /\ job' = job
      /\ latestSeen' = latestSeen /\ lastSeen' = lastSeen
  BY DEF Show, cursorVars
<1>2. d.id \in Ids /\ d # None
  BY NoneIsNotARow DEF Snapshot
<1>3. channel \in [Ids -> Snapshot \cup {None}]
  BY DEF IInv, TypeOK
<1>4. /\ channel' \in [Ids -> Snapshot \cup {None}]
      /\ channel'[d.id] = d
      /\ \A i \in Ids : i # d.id => channel'[i] = channel[i]
  BY <1>1, <1>2, <1>3
<1>5. StoreTypeOK' /\ ParentMatchesParts' /\ StoreHistory
  BY <1>1, StoreUnchanged DEF IInv, TypeOK
<1>6. NextId <= NextId'
  BY <1>2, <1>4, NextIdGrows
<1>7. /\ latestSeen \in Nat /\ lastSeen \in Nat /\ NextId \in Nat /\ NextId' \in Nat
      /\ lastSeen <= latestSeen /\ latestSeen < NextId
  BY NumbersTyped, NextIdTyped DEF IInv
<1>8. Grows
  <2>1. \A i \in Ids : i < NextId /\ channel'[i] # None => channel[i] # None
    BY <1>4, <1>7
  <2>2. \A i \in Ids : parts[i] # None => parts'[i] # None
    BY <1>1 DEF storeVars
  <2>3. QED BY <1>1, <1>6, <1>7, <2>1, <2>2 DEF Grows
<1>9. TypeOK'
  <2>1. latestSeen' \in {NoMessage} \cup 1..(NextId' - 1)
    <3>1. PICK m \in Nat : m = NextId'
      BY <1>7
    <3>2. latestSeen < m
      BY <1>6, <1>7, <3>1
    <3>3. latestSeen \in {0} \cup 1..(m - 1)
      BY <1>7, <3>2
    <3>4. QED BY <1>1, <3>1, <3>3 DEF NoMessage
  <2>2. lastSeen' \in {NoMessage} \cup 1..latestSeen'
    BY <1>1 DEF IInv, TypeOK
  <2>3. sent' \subseteq Snapshot
    BY <1>1 DEF IInv, TypeOK
  <2>4. gone' \subseteq Ids /\ buffer' \in [Groups -> SUBSET Snapshot] /\ job' \in [Tasks -> Job]
    BY <1>1 DEF IInv, TypeOK
  <2>5. QED BY <1>4, <1>5, <2>1, <2>2, <2>3, <2>4 DEF TypeOK
<1>10. SentWasShown'
  <2>1. \A i \in Ids : channel[i] # None => channel[i].id = i /\ channel[i] \in sent
    BY DEF IInv, SentWasShown
  <2>2. \A c \in sent : c.id \in Ids /\ channel[c.id] # None
    BY DEF IInv, TypeOK, SentWasShown, Snapshot
  <2>3. \A i \in Ids : channel'[i] # None => channel'[i].id = i /\ channel'[i] \in sent'
    BY <1>1, <1>4, <2>1
  <2>4. \A c \in sent' : channel'[c.id] # None
    BY <1>1, <1>2, <1>4, <2>2
  <2>5. QED BY <2>3, <2>4 DEF SentWasShown
<1>11. BufferHoldsGroups'
  BY <1>1 DEF IInv, BufferHoldsGroups, OnePerComponent
<1>12. \A t \in Tasks : JobIsSound(t)'
  BY <1>1, <1>7, <1>8, OtherJobStays
<1>13. QED BY <1>5, <1>9, <1>10, <1>11, <1>12 DEF IInv

LEMMA PostKeeps ==
    ASSUME IInv, Post
    PROVE  IInv' /\ StoreHistory
<1>1. NextId \in Ids
  BY DEF Post
<1>2. PICK k \in Reported[NextId] :
        Show([id |-> NextId, as |-> k, content |-> 0, edited |-> NotEdited])
  BY DEF Post
<1>3. k \in Logicals
  BY <1>1, StoreAssumption DEF Logicals
<1>4. PICK n : n = NextId
  OBVIOUS
<1>5. [id |-> n, as |-> k, content |-> 0, edited |-> NotEdited] \in Snapshot
  BY <1>1, <1>3, <1>4, StoreAssumption DEF Snapshot, Contents, EditTimes, NotEdited
<1>6. PICK d \in Snapshot : d = [id |-> n, as |-> k, content |-> 0, edited |-> NotEdited]
  BY <1>5
<1>7. Show(d) /\ d.id = NextId
  BY <1>2, <1>4, <1>6
<1>8. QED BY <1>7, ShowKeeps

LEMMA EditPostKeeps ==
    ASSUME IInv, NEW i \in Ids, EditPost(i)
    PROVE  IInv' /\ StoreHistory
<1>1. channel[i] # None /\ channel[i].content < MaxContent
  BY DEF EditPost
<1>2. PICK e \in {channel[i].edited, channel[i].edited + 1} \ {NotEdited} :
        e <= MaxEdited /\ Show([channel[i] EXCEPT !.content = @ + 1, !.edited = e])
  BY DEF EditPost
<1>3. PICK c : c = channel[i]
  OBVIOUS
<1>4. c \in Snapshot /\ c.id = i
  BY <1>1, <1>3 DEF IInv, TypeOK, SentWasShown
<1>5. c.content \in Contents /\ c.edited \in EditTimes
  BY <1>4 DEF Snapshot
<1>6. e \in EditTimes /\ c.content + 1 \in Contents
  BY <1>1, <1>2, <1>3, <1>5, StoreAssumption DEF EditTimes, Contents, NotEdited
<1>7. PICK d : d = [c EXCEPT !.content = @ + 1, !.edited = e]
  OBVIOUS
<1>8. d \in Snapshot /\ d.id = i
  BY <1>4, <1>6, <1>7 DEF Snapshot
<1>9. Show(d)
  BY <1>2, <1>3, <1>7
<1>10. QED BY <1>1, <1>8, <1>9, ShowKeeps

\* Steps that leave the buffer, the jobs and the cursors alone.
LEMMA StoreStepKeeps ==
    ASSUME IInv, StoreTypeOK', ParentMatchesParts', StoreHistory,
           UNCHANGED <<channel, sent, buffer, cursorVars, job>>,
           gone \subseteq gone', gone' \subseteq Ids
    PROVE  IInv'
<1>1. /\ channel' = channel /\ sent' = sent /\ buffer' = buffer /\ job' = job
      /\ latestSeen' = latestSeen /\ lastSeen' = lastSeen
  BY DEF cursorVars
<1>2. NextId' = NextId
  BY <1>1 DEF NextId
<1>3. latestSeen \in Nat /\ NextId \in Nat
  BY NumbersTyped DEF IInv
<1>4. Grows
  BY <1>1, <1>2, <1>3 DEF Grows, StoreHistory, PartsKept
<1>5. TypeOK'
  BY <1>1, <1>2 DEF IInv, TypeOK
<1>6. SentWasShown' /\ BufferHoldsGroups'
  BY <1>1 DEF IInv, SentWasShown, BufferHoldsGroups, OnePerComponent
<1>7. \A t \in Tasks : JobIsSound(t)'
  BY <1>1, <1>3, <1>4, OtherJobStays
<1>8. QED BY <1>5, <1>6, <1>7 DEF IInv

LEMMA DeletePostKeeps ==
    ASSUME IInv, NEW i \in Ids, DeletePost(i)
    PROVE  IInv' /\ StoreHistory
<1>1. /\ gone' = gone \cup {i}
      /\ UNCHANGED <<channel, sent, buffer, cursorVars, job>> /\ UNCHANGED storeVars
  BY DEF DeletePost
<1>2. StoreTypeOK' /\ ParentMatchesParts' /\ StoreHistory
  BY <1>1, StoreUnchanged DEF IInv, TypeOK
<1>3. gone \subseteq gone' /\ gone' \subseteq Ids
  BY <1>1 DEF IInv, TypeOK
<1>4. QED BY <1>1, <1>2, <1>3, StoreStepKeeps

LEMMA LiveKeeps ==
    ASSUME IInv,
           \/ \E d \in sent : LiveEdit(d)
           \/ \E i \in Ids : LiveDeletion(i)
           \/ \E k \in Logicals : Processed(k)
    PROVE  IInv' /\ StoreHistory
<1>1. StoreTypeOK /\ ParentMatchesParts /\ sent \subseteq Snapshot /\ gone \subseteq Ids
  BY DEF IInv, TypeOK
<1>2. UNCHANGED <<channelVars, buffer, cursorVars, job>>
  BY DEF LiveEdit, LiveDeletion, Processed
<1>3. StoreTypeOK' /\ ParentMatchesParts' /\ StoreHistory
  <2>1. CASE \E d \in sent : LiveEdit(d)
    BY <1>1, <2>1, EditKeepsStore DEF LiveEdit
  <2>2. CASE \E i \in Ids : LiveDeletion(i)
    BY <1>1, <2>2, DeletionKeepsStore DEF LiveDeletion
  <2>3. CASE \E k \in Logicals : Processed(k)
    BY <1>1, <2>3, ProcessingKeepsStore DEF Processed
  <2>4. QED BY <2>1, <2>2, <2>3
<1>4. UNCHANGED <<channel, sent, buffer, cursorVars, job>> /\ gone' = gone
  BY <1>2 DEF channelVars
<1>5. QED BY <1>1, <1>3, <1>4, StoreStepKeeps

-----------------------------------------------------------------------------
(* Steps of one job that leave rows, channel and cursors alone *)

LEMMA QuietGrows ==
    ASSUME IInv, UNCHANGED <<parts, channelVars, latestSeen>>
    PROVE  Grows /\ NextId' = NextId
<1>1. /\ channel' = channel /\ sent' = sent /\ gone' = gone
      /\ parts' = parts /\ latestSeen' = latestSeen
  BY DEF channelVars
<1>2. NextId' = NextId
  BY <1>1 DEF NextId
<1>3. latestSeen \in Nat /\ NextId \in Nat
  BY NumbersTyped DEF IInv
<1>4. QED BY <1>1, <1>2, <1>3 DEF Grows

LEMMA JobStepKeeps ==
    ASSUME IInv, NEW t \in Tasks, NEW j \in Job, SetJob(t, j),
           UNCHANGED <<storeVars, channelVars, cursorVars>>,
           buffer' \in [Groups -> SUBSET Snapshot], BufferHoldsGroups',
           JobIsSound(t)'
    PROVE  IInv' /\ StoreHistory
<1>1. /\ channel' = channel /\ sent' = sent /\ gone' = gone
      /\ parts' = parts /\ UNCHANGED storeVars
      /\ latestSeen' = latestSeen /\ lastSeen' = lastSeen
  BY DEF storeVars, channelVars, cursorVars
<1>2. Grows /\ NextId' = NextId
  BY <1>1, QuietGrows DEF channelVars
<1>3. StoreTypeOK' /\ ParentMatchesParts' /\ StoreHistory
  BY <1>1, StoreUnchanged DEF IInv, TypeOK
<1>4. latestSeen \in Nat
  BY NumbersTyped DEF IInv
<1>5. job' \in [Tasks -> Job] /\ \A u \in Tasks : JobIsSound(u)'
  BY <1>1, <1>2, <1>4, OneJobChanges
<1>6. TypeOK'
  BY <1>1, <1>2, <1>3, <1>5 DEF IInv, TypeOK
<1>7. SentWasShown'
  BY <1>1 DEF IInv, SentWasShown
<1>8. QED BY <1>3, <1>5, <1>6, <1>7 DEF IInv

LEMMA IdleJob ==
    ASSUME IInv, NEW t \in Tasks, job'[t] = Idle
    PROVE  Idle \in Job /\ JobIsSound(t)'
<1>1. Idle \in Job
  BY DEF Idle, Job
<1>2. NextId' \in 1..(MaxId + 1)
  <2>1. Max({i \in Ids : channel'[i] # None} \cup {0}) \in 0..MaxId
    BY HighestId
  <2>2. QED BY <2>1, StoreAssumption DEF NextId, NoMessage
<1>3. QED BY <1>1, <1>2 DEF JobIsSound, OnePerComponent, Idle, NoMessage

LEMMA SetJobSets ==
    ASSUME TypeOK, NEW t \in Tasks, NEW j, SetJob(t, j)
    PROVE  job'[t] = j
BY DEF TypeOK, SetJob

LEMMA BufferStays ==
    ASSUME IInv, buffer' = buffer, sent' = sent
    PROVE  buffer' \in [Groups -> SUBSET Snapshot] /\ BufferHoldsGroups'
BY DEF IInv, TypeOK, BufferHoldsGroups, OnePerComponent

LEMMA AbandonKeeps ==
    ASSUME IInv, NEW t \in Tasks, Abandon(t)
    PROVE  IInv' /\ StoreHistory
<1>1. SetJob(t, Idle) /\ UNCHANGED <<storeVars, channelVars, buffer, cursorVars>>
  BY DEF Abandon
<1>2. buffer' \in [Groups -> SUBSET Snapshot] /\ BufferHoldsGroups'
  BY <1>1, BufferStays DEF channelVars
<1>3. job'[t] = Idle
  BY <1>1, SetJobSets DEF IInv
<1>4. Idle \in Job /\ JobIsSound(t)'
  BY <1>3, IdleJob
<1>5. QED BY <1>1, <1>2, <1>4, JobStepKeeps

-----------------------------------------------------------------------------
(* Realtime ingestion *)

LEMMA IngestingSound ==
    ASSUME IInv, NEW h \in Handlers, NEW ready \in SUBSET sent, OnePerComponent(ready),
           SetJob(h, Ingesting(ready)), UNCHANGED channelVars
    PROVE  Ingesting(ready) \in Job /\ JobIsSound(h)'
<1>1. h \in Tasks /\ h \notin Readers
  BY IngestionAssumption DEF Tasks
<1>2. PICK j : j = Ingesting(ready)
  OBVIOUS
<1>3. job'[h] = j
  BY <1>1, <1>2, SetJobSets DEF IInv
<1>4. CASE ready = {}
  <2>1. j = Idle
    BY <1>2, <1>4 DEF Ingesting
  <2>2. QED BY <1>1, <1>2, <1>3, <2>1, IdleJob
<1>5. CASE ready # {}
  <2>1. ready \in SUBSET Snapshot /\ \A d \in ready : d.id \in Ids /\ channel[d.id] # None
    BY DEF IInv, TypeOK, SentWasShown, Snapshot
  <2>2. IdsOf(ready) \in SUBSET (0..MaxId) /\ IdsOf(ready) # {}
    BY <1>5, <2>1, StoreAssumption DEF IdsOf, Ids
  <2>3. Max(IdsOf(ready)) \in IdsOf(ready)
    BY <2>2, StoreAssumption, MaxIsGreatest
  <2>4. PICK m : m = Max(IdsOf(ready))
    OBVIOUS
  <2>5. m \in Ids /\ m < NextId
    BY <2>1, <2>3, <2>4, NextIdIsBeyond DEF IdsOf
  <2>6. j = [at |-> "ingest", batch |-> ready, from |-> NoMessage, upto |-> m]
    BY <1>2, <1>5, <2>4 DEF Ingesting, Idle
  <2>7. j \in Job
    BY <2>1, <2>5, <2>6 DEF Job
  <2>8. NextId' = NextId /\ sent' = sent
    BY DEF NextId, channelVars
  <2>9. JobIsSound(h)'
    BY <1>1, <1>3, <1>5, <2>5, <2>6, <2>8 DEF JobIsSound, OnePerComponent
  <2>10. QED BY <1>2, <2>7, <2>9
<1>6. QED BY <1>4, <1>5

LEMMA HeldSound ==
    ASSUME IInv, NEW gs \in SUBSET Groups
    PROVE  /\ Held(gs) \in SUBSET sent
           /\ OnePerComponent(Held(gs))
           /\ \A c \in Held(gs) : c.as \in Groups
<1>1. \A g \in Groups : /\ buffer[g] \subseteq sent
                        /\ \A c \in buffer[g] : c.as = g
                        /\ OnePerComponent(buffer[g])
  BY DEF IInv, BufferHoldsGroups
<1>2. \A c \in Held(gs) : c \in sent /\ c.as \in Groups /\ c \in buffer[c.as]
  BY <1>1 DEF Held
<1>3. OnePerComponent(Held(gs))
  <2> SUFFICES ASSUME NEW c \in Held(gs), NEW d \in Held(gs), c.id = d.id, c.as = d.as
               PROVE  c = d
    BY DEF OnePerComponent
  <2>1. c \in buffer[c.as] /\ d \in buffer[c.as] /\ c.as \in Groups
    BY <1>2
  <2>2. QED BY <1>1, <2>1 DEF OnePerComponent
<1>4. QED BY <1>2, <1>3

\* What flush_due and flush_all leave in the buffer.
LEMMA ReleasedBuffer ==
    ASSUME IInv, NEW gs, NEW kept,
           kept = [g \in Groups |-> IF g \in gs THEN {} ELSE buffer[g]]
    PROVE  /\ kept \in [Groups -> SUBSET Snapshot]
           /\ \A g \in Groups : /\ kept[g] \subseteq sent
                                /\ \A c \in kept[g] : c.as = g
                                /\ OnePerComponent(kept[g])
<1>1. \A g \in Groups : kept[g] \subseteq buffer[g]
  OBVIOUS
<1>2. \A g \in Groups : buffer[g] \subseteq Snapshot
  BY DEF IInv, TypeOK
<1>3. kept \in [Groups -> SUBSET Snapshot]
  BY <1>1, <1>2
<1>4. QED BY <1>1, <1>3 DEF IInv, BufferHoldsGroups, OnePerComponent

LEMMA FlushKeeps ==
    ASSUME IInv, NEW h \in Handlers, NEW gs \in SUBSET Pending, Flush(h, gs)
    PROVE  IInv' /\ StoreHistory
<1>1. /\ buffer' = [g \in Groups |-> IF g \in gs THEN {} ELSE buffer[g]]
      /\ SetJob(h, Ingesting(Held(gs)))
      /\ UNCHANGED <<storeVars, channelVars, cursorVars>>
  BY DEF Flush
<1>2. gs \in SUBSET Groups
  BY DEF Pending
<1>3. Ingesting(Held(gs)) \in Job /\ JobIsSound(h)'
  BY <1>1, <1>2, HeldSound, IngestingSound
<1>4. buffer' \in [Groups -> SUBSET Snapshot] /\ BufferHoldsGroups'
  BY <1>1, ReleasedBuffer DEF BufferHoldsGroups, channelVars
<1>5. h \in Tasks
  BY DEF Tasks
<1>6. QED BY <1>1, <1>3, <1>4, <1>5, JobStepKeeps

LEMMA OnUpdateKeeps ==
    ASSUME IInv, NEW h \in Handlers, NEW gs \in SUBSET Pending, NEW d \in sent, OnUpdate(h, d, gs)
    PROVE  IInv' /\ StoreHistory
<1> DEFINE ready == Held(gs) \cup (IF d.as \in Groups THEN {} ELSE {d})
<1>1. PICK kept : kept = [g \in Groups |-> IF g \in gs THEN {} ELSE buffer[g]]
  OBVIOUS
<1>2. /\ buffer' = IF d.as \in Groups
                   THEN [kept EXCEPT ![d.as] = {c \in @ : c.id # d.id} \cup {d}]
                   ELSE kept
      /\ SetJob(h, Ingesting(ready))
      /\ UNCHANGED <<storeVars, channelVars, cursorVars>>
  BY <1>1 DEF OnUpdate
<1>3. gs \in SUBSET Groups
  BY DEF Pending
<1>4. Held(gs) \in SUBSET sent /\ OnePerComponent(Held(gs)) /\ \A c \in Held(gs) : c.as \in Groups
  BY <1>3, HeldSound
<1>5. ready \in SUBSET sent /\ OnePerComponent(ready)
  BY <1>4 DEF OnePerComponent
<1>6. Ingesting(ready) \in Job /\ JobIsSound(h)'
  BY <1>2, <1>5, IngestingSound
<1>7. /\ kept \in [Groups -> SUBSET Snapshot]
      /\ \A g \in Groups : /\ kept[g] \subseteq sent
                           /\ \A c \in kept[g] : c.as = g
                           /\ OnePerComponent(kept[g])
  BY <1>1, ReleasedBuffer
<1>8. sent' = sent /\ d \in Snapshot
  BY <1>2 DEF channelVars, IInv, TypeOK
<1>9. buffer' \in [Groups -> SUBSET Snapshot] /\ BufferHoldsGroups'
  <2>1. CASE d.as \notin Groups
    BY <1>2, <1>7, <1>8, <2>1 DEF BufferHoldsGroups
  <2>2. CASE d.as \in Groups
    <3> DEFINE group == {c \in kept[d.as] : c.id # d.id} \cup {d}
    <3>1. buffer' = [kept EXCEPT ![d.as] = group]
      BY <1>2, <2>2
    <3>2. group \subseteq sent /\ group \subseteq Snapshot /\ \A c \in group : c.as = d.as
      BY <1>7, <1>8, <2>2
    <3>3. OnePerComponent(group)
      BY <1>7, <2>2 DEF OnePerComponent
    <3> HIDE DEF group
    <3>4. /\ buffer' \in [Groups -> SUBSET Snapshot]
          /\ buffer'[d.as] = group
          /\ \A g \in Groups : g # d.as => buffer'[g] = kept[g]
      BY <1>7, <2>2, <3>1, <3>2
    <3>5. ASSUME NEW g \in Groups
          PROVE  /\ buffer'[g] \subseteq sent'
                 /\ \A c \in buffer'[g] : c.as = g
                 /\ OnePerComponent(buffer'[g])
      <4>1. CASE g = d.as
        BY <1>8, <3>2, <3>3, <3>4, <4>1
      <4>2. CASE g # d.as
        BY <1>7, <1>8, <3>4, <4>2
      <4>3. QED BY <4>1, <4>2
    <3>6. QED BY <3>4, <3>5 DEF BufferHoldsGroups, OnePerComponent
  <2>3. QED BY <2>1, <2>2
<1>10. h \in Tasks
  BY DEF Tasks
<1> HIDE DEF ready
<1>11. QED BY <1>2, <1>6, <1>9, <1>10, JobStepKeeps

LEMMA RestartKeeps ==
    ASSUME IInv, Restart
    PROVE  IInv' /\ StoreHistory
<1>1. /\ buffer' = [g \in Groups |-> {}]
      /\ job' = [t \in Tasks |-> IF t \in Handlers THEN Idle ELSE job[t]]
      /\ UNCHANGED <<storeVars, channelVars, cursorVars>>
  BY DEF Restart
<1>2. /\ channel' = channel /\ sent' = sent /\ gone' = gone /\ parts' = parts
      /\ latestSeen' = latestSeen /\ lastSeen' = lastSeen
  BY <1>1 DEF storeVars, channelVars, cursorVars
<1>3. Grows /\ NextId' = NextId
  BY <1>2, QuietGrows DEF channelVars
<1>4. StoreTypeOK' /\ ParentMatchesParts' /\ StoreHistory
  BY <1>1, StoreUnchanged DEF IInv, TypeOK
<1>5. latestSeen \in Nat
  BY NumbersTyped DEF IInv
<1>6. ASSUME NEW t \in Tasks
      PROVE  job'[t] \in Job /\ JobIsSound(t)'
  <2>1. CASE t \in Handlers
    BY <1>1, <2>1, IdleJob
  <2>2. CASE t \notin Handlers
    <3>1. job'[t] = job[t]
      BY <1>1, <2>2
    <3>2. QED BY <1>2, <1>3, <1>5, <3>1, JobTyped, OtherJobStays DEF IInv
  <2>3. QED BY <2>1, <2>2
<1>7. job' \in [Tasks -> Job]
  BY <1>1, <1>6
<1>8. TypeOK'
  <2>1. buffer' \in [Groups -> SUBSET Snapshot]
    BY <1>1
  <2>2. QED BY <1>2, <1>3, <1>4, <1>7, <2>1 DEF IInv, TypeOK
<1>9. SentWasShown' /\ BufferHoldsGroups'
  BY <1>1, <1>2 DEF IInv, SentWasShown, BufferHoldsGroups, OnePerComponent
<1>10. QED BY <1>4, <1>6, <1>8, <1>9 DEF IInv

-----------------------------------------------------------------------------
(* History reads *)

LEMMA AfterIngestSays ==
    ASSUME NEW t \in Tasks, NEW j \in Job, NEW a, a = AfterIngest(t, j)
    PROVE  /\ a \in Job
           /\ j.batch # {} => a = [j EXCEPT !.at = "ingest"]
           /\ j.batch = {} /\ t \in Handlers => a = [j EXCEPT !.at = "latest"]
           /\ j.batch = {} /\ t \in Readers /\ j.upto # NoMessage => a = [j EXCEPT !.at = "last"]
           /\ j.batch = {} /\ t \in Readers /\ j.upto = NoMessage => a = Idle
<1>1. (t \in Handlers /\ t \notin Readers) \/ (t \in Readers /\ t \notin Handlers)
  BY IngestionAssumption DEF Tasks
<1>2. /\ [j EXCEPT !.at = "ingest"] \in Job /\ [j EXCEPT !.at = "latest"] \in Job
      /\ [j EXCEPT !.at = "last"] \in Job /\ Idle \in Job
  BY DEF Job, Idle
<1>3. CASE j.batch # {}
  BY <1>2, <1>3 DEF AfterIngest
<1>4. CASE j.batch = {} /\ t \in Handlers
  BY <1>1, <1>2, <1>4 DEF AfterIngest
<1>5. CASE j.batch = {} /\ t \in Readers /\ j.upto # NoMessage
  BY <1>1, <1>2, <1>5 DEF AfterIngest
<1>6. CASE j.batch = {} /\ t \in Readers /\ j.upto = NoMessage
  BY <1>1, <1>2, <1>6 DEF AfterIngest
<1>7. QED BY <1>1, <1>3, <1>4, <1>5, <1>6

LEMMA ShownSound ==
    ASSUME IInv, NEW window \in SUBSET Ids
    PROVE  /\ Shown(window) \in SUBSET sent
           /\ Shown(window) \in SUBSET Snapshot
           /\ OnePerComponent(Shown(window))
           /\ \A i \in window : channel[i] # None => i \in gone \/ i \in IdsOf(Shown(window))
<1>1. \A i \in Ids : channel[i] # None =>
        channel[i].id = i /\ channel[i] \in sent /\ channel[i] \in Snapshot
  BY DEF IInv, TypeOK, SentWasShown
<1>2. \A d \in Shown(window) : d.id \in window /\ d = channel[d.id] /\ d \in sent /\ d \in Snapshot
  BY <1>1 DEF Shown
<1>3. ASSUME NEW i \in window, channel[i] # None, i \notin gone
      PROVE  i \in IdsOf(Shown(window))
  <2>1. channel[i] \in Shown(window) /\ channel[i].id = i
    BY <1>1, <1>3 DEF Shown
  <2>2. QED BY <2>1 DEF IdsOf
<1>4. QED BY <1>2, <1>3 DEF OnePerComponent

LEMMA StartReconcileKeeps ==
    ASSUME IInv, NEW r \in Readers, StartReconcile(r)
    PROVE  IInv' /\ StoreHistory
<1>1. r \in Tasks
  BY DEF Tasks
<1>2. PICK j : j = [Idle EXCEPT !.at = "newest", !.from = lastSeen]
  OBVIOUS
<1>3. SetJob(r, j) /\ UNCHANGED <<storeVars, channelVars, buffer, cursorVars>>
  BY <1>2 DEF StartReconcile
<1>4. lastSeen \in Ids \cup {NoMessage}
  <2>1. /\ lastSeen \in Nat /\ latestSeen \in Nat
        /\ lastSeen <= latestSeen /\ latestSeen < NextId
        /\ NextId \in 1..(MaxId + 1) /\ MaxId \in Nat
    BY NumbersTyped, NextIdIsBeyond, StoreAssumption DEF IInv
  <2>2. QED BY <2>1 DEF Ids, NoMessage
<1>5. j = [at |-> "newest", batch |-> {}, from |-> lastSeen, upto |-> NoMessage]
  BY <1>2 DEF Idle
<1>6. j \in Job
  BY <1>4, <1>5 DEF Job
<1>7. job'[r] = j
  BY <1>1, <1>3, SetJobSets DEF IInv
<1>8. NextId' = NextId /\ NextId \in 1..(MaxId + 1)
  BY <1>3, NextIdIsBeyond DEF NextId, channelVars
<1>9. JobIsSound(r)'
  BY <1>5, <1>7, <1>8, StoreAssumption DEF JobIsSound, OnePerComponent, NoMessage
<1>10. buffer' \in [Groups -> SUBSET Snapshot] /\ BufferHoldsGroups'
  BY <1>3, BufferStays DEF channelVars
<1>11. QED BY <1>1, <1>3, <1>6, <1>9, <1>10, JobStepKeeps

LEMMA AskNewestKeeps ==
    ASSUME IInv, NEW r \in Readers, AskNewest(r)
    PROVE  IInv' /\ StoreHistory
<1>1. r \in Tasks
  BY DEF Tasks
<1>2. PICK j : j = IF Newest = NoMessage THEN Idle
                   ELSE [job[r] EXCEPT !.at = "latest", !.upto = Newest]
  OBVIOUS
<1>3. SetJob(r, j) /\ UNCHANGED <<storeVars, channelVars, buffer, cursorVars>>
  BY <1>2 DEF AskNewest
<1>4. job'[r] = j
  BY <1>1, <1>3, SetJobSets DEF IInv
<1>5. buffer' \in [Groups -> SUBSET Snapshot] /\ BufferHoldsGroups'
  BY <1>3, BufferStays DEF channelVars
<1>6. j \in Job /\ JobIsSound(r)'
  <2>1. CASE Newest = NoMessage
    BY <1>1, <1>2, <1>4, <2>1, IdleJob
  <2>2. CASE Newest # NoMessage
    <3>1. PICK n : n = Newest
      OBVIOUS
    <3>2. n \in Ids \cup {NoMessage} /\ n < NextId
      BY <3>1, NewestIsPosted
    <3>3. job[r] \in Job
      BY <1>1, JobTyped DEF IInv
    <3>4. /\ j \in Job /\ j.at = "latest" /\ j.upto = n
          /\ j.batch = job[r].batch
      BY <1>2, <2>2, <3>1, <3>2, <3>3 DEF Job
    <3>5. NextId' = NextId /\ sent' = sent
      BY <1>3 DEF NextId, channelVars
    <3>6. job[r].batch = {}
      BY <1>1 DEF IInv, JobIsSound, AskNewest
    <3>7. JobIsSound(r)'
      BY <1>4, <3>2, <3>4, <3>5, <3>6 DEF JobIsSound, OnePerComponent
    <3>8. QED BY <3>4, <3>7
  <2>3. QED BY <2>1, <2>2
<1>7. QED BY <1>1, <1>3, <1>5, <1>6, JobStepKeeps

\* A reader that has read the messages of its window.
LEMMA ReadKeeps ==
    ASSUME IInv, NEW r \in Readers, NEW window \in SUBSET Ids, NEW j \in Job,
           j.batch = Shown(window), j.upto < NextId, j.upto <= latestSeen,
           (j.from + 1)..j.upto \subseteq window,
           SetJob(r, AfterIngest(r, j)),
           UNCHANGED <<storeVars, channelVars, buffer, cursorVars>>
    PROVE  IInv' /\ StoreHistory
<1>1. r \in Tasks
  BY DEF Tasks
<1>2. PICK a : a = AfterIngest(r, j)
  OBVIOUS
<1>3. /\ a \in Job
      /\ j.batch # {} => a = [j EXCEPT !.at = "ingest"]
      /\ j.batch = {} /\ j.upto # NoMessage => a = [j EXCEPT !.at = "last"]
      /\ j.batch = {} /\ j.upto = NoMessage => a = Idle
  BY <1>1, <1>2, AfterIngestSays
<1>4. job'[r] = a
  BY <1>1, <1>2, SetJobSets DEF IInv
<1>5. buffer' \in [Groups -> SUBSET Snapshot] /\ BufferHoldsGroups'
  BY BufferStays DEF channelVars
<1>6. /\ channel' = channel /\ sent' = sent /\ gone' = gone
      /\ parts' = parts /\ latestSeen' = latestSeen /\ NextId' = NextId
  BY DEF storeVars, channelVars, cursorVars, NextId
<1>7. /\ Shown(window) \in SUBSET sent
      /\ OnePerComponent(Shown(window))
      /\ \A i \in window : channel[i] # None => i \in gone \/ i \in IdsOf(Shown(window))
  BY ShownSound
<1>8. JobIsSound(r)'
  <2>1. CASE a = Idle
    BY <1>1, <1>4, <2>1, IdleJob
  <2>2. CASE a # Idle
    <3>1. /\ a.batch = j.batch /\ a.from = j.from /\ a.upto = j.upto
          /\ a.at \in {"ingest", "last"}
          /\ a.at = "ingest" => a.batch # {}
          /\ a.at # "ingest" => a.batch = {}
      BY <1>3, <2>2 DEF Job
    <3>2. WindowAccounted(r)'
      BY <1>4, <1>6, <1>7, <3>1 DEF WindowAccounted
    <3>3. QED BY <1>4, <1>6, <1>7, <3>1, <3>2 DEF JobIsSound, OnePerComponent
  <2>3. QED BY <2>1, <2>2
<1>9. QED BY <1>1, <1>2, <1>3, <1>5, <1>8, JobStepKeeps

LEMMA FetchHistoryKeeps ==
    ASSUME IInv, NEW r \in Readers, FetchHistory(r)
    PROVE  IInv' /\ StoreHistory
<1>1. r \in Tasks
  BY DEF Tasks
<1>2. PICK window : window = (job[r].from + 1)..job[r].upto
  OBVIOUS
<1>3. window \in SUBSET Ids
  BY <1>1, <1>2, WindowIds DEF IInv
<1>4. PICK j : j = [job[r] EXCEPT !.batch = Shown(window)]
  OBVIOUS
<1>5. /\ job[r].at = "fetch"
      /\ SetJob(r, AfterIngest(r, j))
      /\ UNCHANGED <<storeVars, channelVars, buffer, cursorVars>>
  BY <1>2, <1>4 DEF FetchHistory
<1>6. job[r] \in Job /\ Shown(window) \in SUBSET Snapshot
  BY <1>1, <1>3, JobTyped, ShownSound DEF IInv
<1>7. /\ j \in Job /\ j.batch = Shown(window)
      /\ j.from = job[r].from /\ j.upto = job[r].upto
  BY <1>4, <1>6 DEF Job
<1>8. j.upto < NextId /\ j.upto <= latestSeen
  BY <1>1, <1>5, <1>7 DEF IInv, JobIsSound
<1>9. (j.from + 1)..j.upto \subseteq window
  BY <1>2, <1>7
<1>10. QED BY <1>3, <1>5, <1>7, <1>8, <1>9, ReadKeeps

LEMMA ReplayKeeps ==
    ASSUME IInv, NEW r \in Readers, Replay(r)
    PROVE  IInv' /\ StoreHistory
<1>1. PICK j : j = [Idle EXCEPT !.batch = Shown(Ids)]
  OBVIOUS
<1>2. /\ SetJob(r, AfterIngest(r, j))
      /\ UNCHANGED <<storeVars, channelVars, buffer, cursorVars>>
  BY <1>1 DEF Replay
<1>3. Shown(Ids) \in SUBSET Snapshot
  BY ShownSound
<1>4. j = [at |-> "idle", batch |-> Shown(Ids), from |-> NoMessage, upto |-> NoMessage]
  BY <1>1 DEF Idle
<1>5. j \in Job
  BY <1>3, <1>4 DEF Job
<1>6. j.upto < NextId /\ j.upto <= latestSeen
  <2>1. latestSeen \in Nat /\ NextId \in Nat /\ latestSeen < NextId /\ j.upto = 0
    BY <1>4, NumbersTyped DEF IInv, NoMessage
  <2>2. QED BY <2>1
<1>7. (j.from + 1)..j.upto \subseteq Ids
  BY <1>4 DEF NoMessage
<1>8. Ids \in SUBSET Ids /\ j.batch = Shown(Ids)
  BY <1>4
<1>9. QED BY <1>2, <1>5, <1>6, <1>7, <1>8, ReadKeeps

-----------------------------------------------------------------------------
(* Steps common to handlers and readers *)

LEMMA NextLogicalIsThere ==
    ASSUME NEW batch \in SUBSET Snapshot, batch # {}, OnePerComponent(batch), NEW k,
           k = NextLogical(batch)
    PROVE  /\ k \in Logicals
           /\ ComponentsOf(k, batch) \in SUBSET Snapshot
           /\ ComponentsOf(k, batch) # {}
           /\ \A c, d \in ComponentsOf(k, batch) : c.id = d.id => c = d
<1>1. IdsOf(batch) \in SUBSET Ids /\ IdsOf(batch) # {}
  BY DEF IdsOf, Snapshot
<1>2. Min(IdsOf(batch)) \in IdsOf(batch)
  BY <1>1, MinOfIds
<1>3. \E d \in batch : d.id = Min(IdsOf(batch))
  BY <1>2 DEF IdsOf
<1>4. PICK d \in batch : k = d.as
  BY <1>3 DEF NextLogical
<1>5. d \in ComponentsOf(k, batch) /\ k \in Logicals
  BY <1>4 DEF ComponentsOf, Snapshot
<1>6. \A c \in ComponentsOf(k, batch) : c \in batch /\ c.as = k
  BY DEF ComponentsOf
<1>7. QED BY <1>5, <1>6 DEF OnePerComponent

LEMMA IngestNextKeeps ==
    ASSUME IInv, NEW t \in Tasks, IngestNext(t)
    PROVE  IInv' /\ StoreHistory
<1>1. PICK k : k = NextLogical(job[t].batch)
  OBVIOUS
<1>2. PICK components : components = ComponentsOf(k, job[t].batch)
  OBVIOUS
<1>3. PICK j : j = [job[t] EXCEPT !.batch = @ \ components]
  OBVIOUS
<1>4. PICK a : a = AfterIngest(t, j)
  OBVIOUS
<1>5. /\ job[t].at = "ingest"
      /\ UpsertMessage(k, components)
      /\ SetJob(t, a)
      /\ UNCHANGED <<channelVars, buffer, cursorVars>>
  BY <1>1, <1>2, <1>3, <1>4 DEF IngestNext
<1>6. job[t] \in Job /\ job[t].batch \in SUBSET Snapshot
  BY JobTyped DEF IInv
<1>7. JobIsSound(t)
  BY DEF IInv
<1>8. job[t].batch # {} /\ OnePerComponent(job[t].batch)
  BY <1>5, <1>7 DEF JobIsSound
<1>9. /\ k \in Logicals /\ components \in SUBSET Snapshot /\ components # {}
      /\ \A c, d \in components : c.id = d.id => c = d
  BY <1>1, <1>2, <1>6, <1>8, NextLogicalIsThere
<1>10. /\ StoreTypeOK' /\ ParentMatchesParts' /\ StoreHistory
       /\ \A d \in components : parts'[d.id] # None
  BY <1>5, <1>9, UpsertKeepsStore DEF IInv, TypeOK
<1>11. /\ channel' = channel /\ sent' = sent /\ gone' = gone /\ buffer' = buffer
       /\ latestSeen' = latestSeen /\ lastSeen' = lastSeen /\ NextId' = NextId
  BY <1>5 DEF channelVars, cursorVars, NextId
<1>12. latestSeen \in Nat /\ NextId \in Nat
  BY NumbersTyped DEF IInv
<1>13. Grows
  BY <1>10, <1>11, <1>12 DEF Grows, StoreHistory, PartsKept
<1>14. /\ j \in Job /\ j.batch = job[t].batch \ components
       /\ j.from = job[t].from /\ j.upto = job[t].upto
  BY <1>3, <1>6 DEF Job
<1>15. /\ a \in Job
       /\ j.batch # {} => a = [j EXCEPT !.at = "ingest"]
       /\ j.batch = {} /\ t \in Handlers => a = [j EXCEPT !.at = "latest"]
       /\ j.batch = {} /\ t \in Readers /\ j.upto # NoMessage => a = [j EXCEPT !.at = "last"]
       /\ j.batch = {} /\ t \in Readers /\ j.upto = NoMessage => a = Idle
  BY <1>4, <1>14, AfterIngestSays
<1>16. job'[t] = a
  BY <1>5, SetJobSets DEF IInv
<1>17. JobIsSound(t)'
  <2>1. CASE a = Idle
    BY <1>16, <2>1, IdleJob
  <2>2. CASE a # Idle
    <3>1. /\ a.batch = job[t].batch \ components
          /\ a.from = job[t].from /\ a.upto = job[t].upto
          /\ a.at = "ingest" => a.batch # {}
          /\ a.at # "ingest" => a.batch = {}
      <4>1. t \in Handlers \/ t \in Readers
        BY DEF Tasks
      <4>2. CASE j.batch # {}
        BY <1>14, <1>15, <4>2 DEF Job
      <4>3. CASE j.batch = {} /\ t \in Handlers
        BY <1>14, <1>15, <4>3 DEF Job
      <4>4. CASE j.batch = {} /\ t \in Readers
        BY <1>14, <1>15, <2>2, <4>4 DEF Job
      <4>5. QED BY <4>1, <4>2, <4>3, <4>4
    <3>2. t \in Handlers => a.at \in {"ingest", "latest"}
      <4>1. CASE j.batch # {}
        BY <1>14, <1>15, <4>1 DEF Job
      <4>2. CASE j.batch = {} /\ t \in Handlers
        BY <1>14, <1>15, <4>2 DEF Job
      <4>3. QED BY <4>1, <4>2
    <3>3. t \in Readers => a.upto <= latestSeen
      BY <1>5, <1>7, <3>1 DEF JobIsSound
    <3>4. t \in Readers => WindowAccounted(t)'
      <4> SUFFICES ASSUME t \in Readers,
                          NEW i \in (job[t].from + 1)..job[t].upto, channel[i] # None
                   PROVE  i \in gone \/ parts'[i] # None \/ i \in IdsOf(a.batch)
        BY <1>11, <1>16, <3>1 DEF WindowAccounted
      <4>1. i \in Ids
        BY WindowIds DEF IInv
      <4>2. i \in gone \/ parts[i] # None \/ i \in IdsOf(job[t].batch)
        BY <1>5, <1>7 DEF JobIsSound, WindowAccounted
      <4>3. CASE i \in gone \/ parts[i] # None
        BY <1>13, <4>1, <4>3 DEF Grows
      <4>4. ASSUME NEW d \in job[t].batch, d.id = i
            PROVE  parts'[i] # None \/ i \in IdsOf(a.batch)
        <5>1. CASE d \in components
          BY <1>10, <4>4, <5>1
        <5>2. CASE d \notin components
          BY <3>1, <4>4, <5>2 DEF IdsOf
        <5>3. QED BY <5>1, <5>2
      <4>5. QED BY <4>2, <4>3, <4>4 DEF IdsOf
    <3>5. /\ a.batch \subseteq sent /\ OnePerComponent(a.batch) /\ a.upto < NextId
      BY <1>7, <3>1 DEF JobIsSound, OnePerComponent
    <3>6. a.at = "last" => a.upto <= latestSeen
      BY <3>2, <3>3 DEF Tasks
    <3>7. QED BY <1>11, <1>16, <3>1, <3>3, <3>4, <3>5, <3>6 DEF JobIsSound, OnePerComponent
  <2>3. QED BY <2>1, <2>2
<1>18. job' \in [Tasks -> Job] /\ \A u \in Tasks : JobIsSound(u)'
  BY <1>5, <1>11, <1>12, <1>13, <1>15, <1>17, OneJobChanges
<1>19. buffer' \in [Groups -> SUBSET Snapshot] /\ BufferHoldsGroups'
  BY <1>11, BufferStays
<1>20. TypeOK'
  BY <1>10, <1>11, <1>18, <1>19 DEF IInv, TypeOK
<1>21. SentWasShown'
  BY <1>11 DEF IInv, SentWasShown
<1>22. QED BY <1>10, <1>18, <1>19, <1>20, <1>21 DEF IInv

LEMMA IngestedIsStored ==
    ASSUME IInv, NEW t \in Tasks, IngestNext(t)
    PROVE  \A d \in ComponentsOf(NextLogical(job[t].batch), job[t].batch) : parts'[d.id] # None
<1>1. PICK k : k = NextLogical(job[t].batch)
  OBVIOUS
<1>2. PICK components : components = ComponentsOf(k, job[t].batch)
  OBVIOUS
<1>3. job[t].at = "ingest" /\ UpsertMessage(k, components)
  BY <1>1, <1>2 DEF IngestNext
<1>4. job[t].batch \in SUBSET Snapshot
  BY JobTyped DEF IInv
<1>5. job[t].batch # {} /\ OnePerComponent(job[t].batch)
  BY <1>3 DEF IInv, JobIsSound
<1>6. /\ k \in Logicals /\ components \in SUBSET Snapshot /\ components # {}
      /\ \A c, d \in components : c.id = d.id => c = d
  BY <1>1, <1>2, <1>4, <1>5, NextLogicalIsThere
<1>7. QED BY <1>1, <1>2, <1>3, <1>6, UpsertKeepsStore DEF IInv, TypeOK

LEMMA CursorAdvancedSays ==
    ASSUME NEW stored \in Nat, NEW id \in Nat
    PROVE  /\ CursorAdvanced(stored, id) \in {stored, id}
           /\ CursorAdvanced(stored, id) >= stored
           /\ CursorAdvanced(stored, id) >= id
BY DEF CursorAdvanced

\* Steps that change one job and the cursors.
LEMMA CursorStepKeeps ==
    ASSUME IInv, NEW t \in Tasks, NEW j \in Job, SetJob(t, j),
           UNCHANGED <<storeVars, channelVars, buffer>>,
           latestSeen' \in Nat, latestSeen <= latestSeen', latestSeen' < NextId,
           lastSeen' \in Nat, lastSeen' <= latestSeen',
           JobIsSound(t)'
    PROVE  IInv' /\ StoreHistory
<1>1. /\ channel' = channel /\ sent' = sent /\ gone' = gone /\ buffer' = buffer
      /\ parts' = parts /\ UNCHANGED storeVars /\ NextId' = NextId
  BY DEF storeVars, channelVars, NextId
<1>2. latestSeen \in Nat /\ NextId \in Nat
  BY NumbersTyped DEF IInv
<1>3. Grows
  BY <1>1, <1>2 DEF Grows
<1>4. StoreTypeOK' /\ ParentMatchesParts' /\ StoreHistory
  BY <1>1, StoreUnchanged DEF IInv, TypeOK
<1>5. job' \in [Tasks -> Job] /\ \A u \in Tasks : JobIsSound(u)'
  BY <1>3, OneJobChanges
<1>6. buffer' \in [Groups -> SUBSET Snapshot] /\ BufferHoldsGroups'
  BY <1>1, BufferStays
<1>7. latestSeen' \in {NoMessage} \cup 1..(NextId' - 1) /\ lastSeen' \in {NoMessage} \cup 1..latestSeen'
  <2>1. latestSeen' \in {0} \cup 1..(NextId - 1)
    BY <1>2
  <2>2. lastSeen' \in {0} \cup 1..latestSeen'
    OBVIOUS
  <2>3. QED BY <1>1, <2>1, <2>2 DEF NoMessage
<1>8. TypeOK'
  BY <1>1, <1>4, <1>5, <1>6, <1>7 DEF IInv, TypeOK
<1>9. SentWasShown'
  BY <1>1 DEF IInv, SentWasShown
<1>10. QED BY <1>4, <1>5, <1>6, <1>8, <1>9 DEF IInv

LEMMA AdvanceLatestKeeps ==
    ASSUME IInv, NEW t \in Tasks, AdvanceLatest(t)
    PROVE  IInv' /\ StoreHistory
<1>1. PICK j : j = IF t \in Handlers THEN [job[t] EXCEPT !.at = "last"]
                   ELSE IF job[t].upto <= job[t].from THEN Idle
                   ELSE [job[t] EXCEPT !.at = "fetch"]
  OBVIOUS
<1>2. /\ latestSeen' = CursorAdvanced(latestSeen, job[t].upto)
      /\ SetJob(t, j)
      /\ UNCHANGED <<storeVars, channelVars, buffer>> /\ lastSeen' = lastSeen
  BY <1>1 DEF AdvanceLatest
<1>3. /\ latestSeen \in Nat /\ lastSeen \in Nat /\ NextId \in Nat
      /\ lastSeen <= latestSeen /\ latestSeen < NextId
  BY NumbersTyped DEF IInv
<1>4. job[t] \in Job /\ job[t].upto \in Nat
  BY JobTyped DEF IInv
<1>5. JobIsSound(t)
  BY DEF IInv
<1>6. job[t].upto < NextId
  BY <1>5 DEF JobIsSound
<1>7. /\ latestSeen' \in {latestSeen, job[t].upto}
      /\ latestSeen' >= latestSeen /\ latestSeen' >= job[t].upto
  BY <1>2, <1>3, <1>4, CursorAdvancedSays
<1>8. /\ latestSeen' \in Nat /\ latestSeen <= latestSeen' /\ latestSeen' < NextId
      /\ lastSeen' \in Nat /\ lastSeen' <= latestSeen' /\ job[t].upto <= latestSeen'
  BY <1>2, <1>3, <1>4, <1>6, <1>7
<1>9. job'[t] = j
  BY <1>2, SetJobSets DEF IInv
<1>10. j \in Job /\ JobIsSound(t)'
  <2>1. CASE j = Idle
    BY <1>9, <2>1, IdleJob
  <2>2. CASE j # Idle
    <3>1. /\ j \in Job /\ j.batch = job[t].batch /\ j.upto = job[t].upto
          /\ j.at \in {"last", "fetch"}
          /\ t \in Readers => j.at = "fetch"
      BY <1>1, <1>4, <2>2, IngestionAssumption DEF Job
    <3>2. NextId' = NextId /\ sent' = sent
      BY <1>2 DEF NextId, channelVars
    <3>3. job[t].batch = {}
      BY <1>5 DEF JobIsSound, AdvanceLatest
    <3>4. QED BY <1>8, <1>9, <3>1, <3>2, <3>3, <1>5 DEF JobIsSound, OnePerComponent
  <2>3. QED BY <2>1, <2>2
<1>11. QED BY <1>2, <1>8, <1>10, CursorStepKeeps

LEMMA AdvanceLastKeeps ==
    ASSUME IInv, NEW t \in Tasks, AdvanceLast(t)
    PROVE  IInv' /\ StoreHistory
<1>1. /\ job[t].at = "last"
      /\ lastSeen' = CursorAdvanced(lastSeen, job[t].upto)
      /\ SetJob(t, Idle)
      /\ UNCHANGED <<storeVars, channelVars, buffer>> /\ latestSeen' = latestSeen
  BY DEF AdvanceLast
<1>2. /\ latestSeen \in Nat /\ lastSeen \in Nat /\ NextId \in Nat
      /\ lastSeen <= latestSeen /\ latestSeen < NextId
  BY NumbersTyped DEF IInv
<1>3. job[t].upto \in Nat
  BY JobTyped DEF IInv
<1>4. job[t].upto <= latestSeen
  BY <1>1 DEF IInv, JobIsSound
<1>5. lastSeen' \in {lastSeen, job[t].upto}
  BY <1>1, <1>2, <1>3, CursorAdvancedSays
<1>6. /\ latestSeen' \in Nat /\ latestSeen <= latestSeen' /\ latestSeen' < NextId
      /\ lastSeen' \in Nat /\ lastSeen' <= latestSeen'
  BY <1>1, <1>2, <1>3, <1>4, <1>5
<1>7. job'[t] = Idle
  BY <1>1, SetJobSets DEF IInv
<1>8. Idle \in Job /\ JobIsSound(t)'
  BY <1>7, IdleJob
<1>9. QED BY <1>1, <1>6, <1>8, CursorStepKeeps

-----------------------------------------------------------------------------
(* Theorems *)

\* The ids that are waiting in the buffer or in a job to be stored.
Waiting == IdsOf(Held(Groups)) \cup UNION {IdsOf(job[t].batch) : t \in Tasks}

(* What has been taken from an update or from the history waits until it is *)
(* stored; only a restart of the realtime process or a failed job drops it. *)
NothingForgotten ==
    [][ \/ Restart
        \/ \E t \in Tasks : Abandon(t)
        \/ \A i \in Waiting : i \in Waiting' \/ parts'[i] # None
      ]_vars

LEMMA NextKeeps ==
    ASSUME IInv, [Next]_vars
    PROVE  IInv' /\ StoreHistory
<1>1. sent \subseteq Snapshot
  BY DEF IInv, TypeOK
<1>2. CASE Telegram
  <2>1. CASE Post
    BY <2>1, PostKeeps
  <2>2. ASSUME NEW i \in Ids, EditPost(i)
        PROVE  IInv' /\ StoreHistory
    BY <2>2, EditPostKeeps
  <2>3. ASSUME NEW i \in Ids, DeletePost(i)
        PROVE  IInv' /\ StoreHistory
    BY <2>3, DeletePostKeeps
  <2>4. CASE \/ \E d \in sent : LiveEdit(d)
             \/ \E i \in Ids : LiveDeletion(i)
             \/ \E k \in Logicals : Processed(k)
    BY <2>4, LiveKeeps
  <2>5. QED BY <1>2, <2>1, <2>2, <2>3, <2>4 DEF Telegram
<1>3. CASE Restart
  BY <1>3, RestartKeeps
<1>4. ASSUME NEW h \in Handlers, Realtime(h)
      PROVE  IInv' /\ StoreHistory
  <2>1. PICK gs \in SUBSET Pending : (\E d \in sent : OnUpdate(h, d, gs)) \/ Flush(h, gs)
    BY <1>4 DEF Realtime
  <2>2. QED BY <2>1, OnUpdateKeeps, FlushKeeps
<1>5. ASSUME NEW r \in Readers, History(r)
      PROVE  IInv' /\ StoreHistory
  BY <1>5, StartReconcileKeeps, AskNewestKeeps, ReplayKeeps, FetchHistoryKeeps DEF History
<1>6. ASSUME NEW t \in Tasks, Step(t)
      PROVE  IInv' /\ StoreHistory
  BY <1>6, IngestNextKeeps, AbandonKeeps, AdvanceLatestKeeps, AdvanceLastKeeps DEF Step
<1>7. CASE UNCHANGED vars
  <2>1. UNCHANGED <<storeVars, channel, sent, buffer, cursorVars, job>> /\ gone' = gone
    BY <1>7 DEF vars, channelVars
  <2>2. StoreTypeOK' /\ ParentMatchesParts' /\ StoreHistory
    BY <2>1, StoreUnchanged DEF IInv, TypeOK
  <2>3. gone' \subseteq Ids
    BY <2>1 DEF IInv, TypeOK
  <2>4. QED BY <2>1, <2>2, <2>3, StoreStepKeeps
<1>8. QED BY <1>2, <1>3, <1>4, <1>5, <1>6, <1>7 DEF Next

(* Every behaviour keeps the inductive invariant: each operation of the store, *)
(* the buffer, the realtime handlers, reconciliation and replay preserves it.  *)
THEOREM Invariant == Spec => []IInv
<1>1. IInv /\ [Next]_vars => IInv'
  BY NextKeeps
<1>2. QED BY <1>1, InitSound, PTL DEF Spec

(* The rows, the cursors, the buffer and the jobs are typed whatever arrives; *)
(* in particular last_seen_message_id never passes latest_seen_message_id,    *)
(* and neither names an id that Telegram has not given yet.                   *)
THEOREM TypeCorrect == Spec => []TypeOK
<1>1. IInv => TypeOK
  BY DEF IInv
<1>2. QED BY <1>1, Invariant, PTL

(* upsert_message, record_edit and record_deletion leave every logical message *)
(* equal to what its retained parts say, each with the assets its media needs. *)
THEOREM ParentsAreRebuilt == Spec => []ParentMatchesParts
<1>1. IInv => ParentMatchesParts
  BY DEF IInv
<1>2. QED BY <1>1, Invariant, PTL

(* reconcile reaches the advance of last_seen_message_id only when each message *)
(* of its window that Telegram still shows has a row, or was deleted meanwhile. *)
THEOREM ReconciliationIsComplete == Spec => []AcknowledgedWindowStored
<1>1. IInv => AcknowledgedWindowStored
  <2> SUFFICES ASSUME IInv, NEW r \in Readers, job[r].at = "last",
                      NEW i \in (job[r].from + 1)..job[r].upto, channel[i] # None
               PROVE  i \in gone \/ parts[i] # None
    BY DEF AcknowledgedWindowStored
  <2>1. JobIsSound(r)
    BY DEF IInv, Tasks
  <2>2. job[r].batch = {} /\ WindowAccounted(r)
    BY <2>1 DEF JobIsSound
  <2>3. QED BY <2>2 DEF WindowAccounted, IdsOf
<1>2. QED BY <1>1, Invariant, PTL

(* No replay, update, edit or deletion takes back what an earlier one stored: *)
(* parts keep their owner and never an older edit, lifecycle marks stay.      *)
THEOREM ObservationsAreKept == Spec => SourceHistoryKept
<1>1. IInv /\ [Next]_vars =>
        [/\ \A i \in Ids : parts[i] # None =>
              /\ parts'[i] # None
              /\ parts'[i].owner = parts[i].owner
              /\ parts'[i].edited >= parts[i].edited
         /\ \A k \in Logicals : messages[k] # None =>
              /\ messages'[k] # None
              /\ messages[k].changed => messages'[k].changed
              /\ messages[k].deletedBy # None => messages'[k].deletedBy = messages[k].deletedBy
        ]_storeVars
  BY NextKeeps DEF StoreHistory, PartsKept, MarksKept
<1>2. QED BY <1>1, Invariant, PTL DEF Spec, SourceHistoryKept

-----------------------------------------------------------------------------
(* What waits to be stored *)

NothingLost == \A i \in Waiting : i \in Waiting' \/ parts'[i] # None

LEMMA WaitingIs ==
    ASSUME NEW i
    PROVE  i \in Waiting <=> \/ \E g \in Groups : i \in IdsOf(buffer[g])
                             \/ \E t \in Tasks : i \in IdsOf(job[t].batch)
BY DEF Waiting, Held, IdsOf

\* A job that had nothing to ingest, or has stored what it no longer has.
LEMMA OneJobLosesNothing ==
    ASSUME IInv, NEW t \in Tasks, NEW j, SetJob(t, j), buffer' = buffer,
           \A i \in IdsOf(job[t].batch) : i \in IdsOf(j.batch) \/ parts'[i] # None
    PROVE  NothingLost
<1>1. job'[t] = j /\ \A u \in Tasks : u # t => job'[u] = job[u]
  BY DEF IInv, TypeOK, SetJob
<1>2. ASSUME NEW i \in Waiting
      PROVE  i \in Waiting' \/ parts'[i] # None
  <2>1. CASE \E g \in Groups : i \in IdsOf(buffer[g])
    BY <2>1 DEF Waiting, Held, IdsOf
  <2>2. ASSUME NEW u \in Tasks, i \in IdsOf(job[u].batch)
        PROVE  i \in Waiting' \/ parts'[i] # None
    <3>1. i \in IdsOf(job'[u].batch) \/ parts'[i] # None
      BY <1>1, <2>2
    <3>2. QED BY <3>1 DEF Waiting, IdsOf
  <2>3. QED BY <2>1, <2>2, WaitingIs
<1>3. QED BY <1>2 DEF NothingLost

\* What leaves the buffer is replaced by a newer copy or given to the handler.
LEMMA ReleasedIsIngested ==
    ASSUME IInv, NEW h \in Handlers, NEW gs, NEW ready, job[h].at = "idle",
           SetJob(h, Ingesting(ready)), Held(gs) \subseteq ready,
           \A g \in Groups : \A i \in IdsOf(buffer[g]) :
               (g \in gs) \/ i \in IdsOf(buffer'[g])
    PROVE  NothingLost
<1>1. h \in Tasks
  BY DEF Tasks
<1>2. PICK j : j = Ingesting(ready)
  OBVIOUS
<1>3. j.batch = ready
  BY <1>2 DEF Ingesting, Idle
<1>4. job'[h] = j /\ \A u \in Tasks : u # h => job'[u] = job[u]
  BY <1>1, <1>2 DEF IInv, TypeOK, SetJob
<1>5. job[h].batch = {}
  BY <1>1 DEF IInv, JobIsSound
<1>6. ASSUME NEW i \in Waiting
      PROVE  i \in Waiting'
  <2>1. ASSUME NEW g \in Groups, i \in IdsOf(buffer[g])
        PROVE  i \in Waiting'
    <3>1. CASE g \in gs
      <4>1. i \in IdsOf(Held(gs))
        BY <2>1, <3>1 DEF Held, IdsOf
      <4>2. i \in IdsOf(job'[h].batch)
        BY <1>3, <1>4, <4>1 DEF IdsOf
      <4>3. QED BY <1>1, <4>2 DEF Waiting
    <3>2. CASE g \notin gs
      <4>1. i \in IdsOf(buffer'[g])
        BY <2>1, <3>2
      <4>2. QED BY <4>1 DEF Waiting, Held, IdsOf
    <3>3. QED BY <3>1, <3>2
  <2>2. ASSUME NEW u \in Tasks, i \in IdsOf(job[u].batch)
        PROVE  i \in Waiting'
    <3>1. u # h
      BY <1>5, <2>2 DEF IdsOf
    <3>2. i \in IdsOf(job'[u].batch)
      BY <1>4, <2>2, <3>1
    <3>3. QED BY <3>2 DEF Waiting
  <2>3. QED BY <2>1, <2>2, WaitingIs
<1>7. QED BY <1>6 DEF NothingLost

LEMMA NextLosesNothing ==
    ASSUME IInv, [Next]_vars, ~Restart, ~\E t \in Tasks : Abandon(t)
    PROVE  NothingLost
<1>1. CASE UNCHANGED <<buffer, job>>
  <2>1. Waiting' = Waiting
    BY <1>1 DEF Waiting, Held, IdsOf
  <2>2. QED BY <2>1 DEF NothingLost
<1>2. CASE Telegram
  <2>1. UNCHANGED <<buffer, job>>
    BY <1>2 DEF Telegram, Post, EditPost, DeletePost, Show, LiveEdit, LiveDeletion, Processed
  <2>2. QED BY <1>1, <2>1
<1>3. ASSUME NEW h \in Handlers, NEW gs \in SUBSET Pending, NEW d \in sent, OnUpdate(h, d, gs)
      PROVE  NothingLost
  <2> DEFINE ready == Held(gs) \cup (IF d.as \in Groups THEN {} ELSE {d})
  <2>1. PICK kept : kept = [g \in Groups |-> IF g \in gs THEN {} ELSE buffer[g]]
    OBVIOUS
  <2>2. /\ job[h].at = "idle"
        /\ buffer' = IF d.as \in Groups
                     THEN [kept EXCEPT ![d.as] = {c \in @ : c.id # d.id} \cup {d}]
                     ELSE kept
        /\ SetJob(h, Ingesting(ready))
    BY <1>3, <2>1 DEF OnUpdate
  <2>3. ASSUME NEW g \in Groups, NEW i \in IdsOf(buffer[g])
        PROVE  (g \in gs) \/ i \in IdsOf(buffer'[g])
    <3>1. CASE g \notin gs
      <4>1. kept[g] = buffer[g]
        BY <2>1, <3>1
      <4>2. CASE g # d.as \/ d.as \notin Groups
        BY <2>1, <2>2, <4>1, <4>2
      <4>3. CASE g = d.as
        <5>1. buffer'[g] = {c \in buffer[g] : c.id # d.id} \cup {d}
          BY <2>1, <2>2, <4>1, <4>3
        <5>2. QED BY <5>1 DEF IdsOf
      <4>4. QED BY <4>2, <4>3
    <3>2. QED BY <3>1
  <2>4. Held(gs) \subseteq ready
    OBVIOUS
  <2> HIDE DEF ready
  <2>5. QED BY <2>2, <2>3, <2>4, ReleasedIsIngested
<1>4. ASSUME NEW h \in Handlers, NEW gs \in SUBSET Pending, Flush(h, gs)
      PROVE  NothingLost
  <2>1. /\ job[h].at = "idle"
        /\ buffer' = [g \in Groups |-> IF g \in gs THEN {} ELSE buffer[g]]
        /\ SetJob(h, Ingesting(Held(gs)))
    BY <1>4 DEF Flush
  <2>2. \A g \in Groups : \A i \in IdsOf(buffer[g]) : (g \in gs) \/ i \in IdsOf(buffer'[g])
    BY <2>1
  <2>3. QED BY <2>1, <2>2, ReleasedIsIngested
<1>5. ASSUME NEW r \in Readers, History(r)
      PROVE  NothingLost
  <2>1. r \in Tasks
    BY DEF Tasks
  <2>2. job[r].at # "ingest"
    BY <1>5 DEF History, StartReconcile, AskNewest, Replay, FetchHistory
  <2>3. job[r].batch = {}
    BY <2>1, <2>2 DEF IInv, JobIsSound
  <2>4. buffer' = buffer
    BY <1>5 DEF History, StartReconcile, AskNewest, Replay, FetchHistory
  <2>5. \E j : SetJob(r, j)
    BY <1>5 DEF History, StartReconcile, AskNewest, Replay, FetchHistory
  <2>6. QED BY <2>1, <2>3, <2>4, <2>5, OneJobLosesNothing DEF IdsOf
<1>6. ASSUME NEW t \in Tasks, AdvanceLatest(t) \/ AdvanceLast(t)
      PROVE  NothingLost
  <2>1. job[t].batch = {}
    BY <1>6 DEF IInv, JobIsSound, AdvanceLatest, AdvanceLast
  <2>2. buffer' = buffer
    BY <1>6 DEF AdvanceLatest, AdvanceLast
  <2>3. \E j : SetJob(t, j)
    BY <1>6 DEF AdvanceLatest, AdvanceLast
  <2>4. QED BY <2>1, <2>2, <2>3, OneJobLosesNothing DEF IdsOf
<1>7. ASSUME NEW t \in Tasks, IngestNext(t)
      PROVE  NothingLost
  <2>1. PICK components : components = ComponentsOf(NextLogical(job[t].batch), job[t].batch)
    OBVIOUS
  <2>2. PICK j : j = [job[t] EXCEPT !.batch = @ \ components]
    OBVIOUS
  <2>3. PICK a : a = AfterIngest(t, j)
    OBVIOUS
  <2>4. SetJob(t, a) /\ buffer' = buffer
    BY <1>7, <2>1, <2>2, <2>3 DEF IngestNext
  <2>5. job[t] \in Job
    BY JobTyped DEF IInv
  <2>6. j \in Job /\ j.batch = job[t].batch \ components
    BY <2>2, <2>5 DEF Job
  <2>7. a.batch = j.batch
    <3>1. CASE j.batch # {}
      BY <2>3, <2>6, <3>1, AfterIngestSays DEF Job
    <3>2. CASE j.batch = {} /\ t \in Handlers
      BY <2>3, <2>6, <3>2, AfterIngestSays DEF Job
    <3>3. CASE j.batch = {} /\ t \in Readers /\ j.upto # NoMessage
      BY <2>3, <2>6, <3>3, AfterIngestSays DEF Job
    <3>4. CASE j.batch = {} /\ t \in Readers /\ j.upto = NoMessage
      BY <2>3, <2>6, <3>4, AfterIngestSays DEF Idle
    <3>5. QED BY <3>1, <3>2, <3>3, <3>4 DEF Tasks
  <2>8. \A d \in components : parts'[d.id] # None
    BY <1>7, <2>1, IngestedIsStored
  <2>9. \A i \in IdsOf(job[t].batch) : i \in IdsOf(a.batch) \/ parts'[i] # None
    BY <2>6, <2>7, <2>8 DEF IdsOf
  <2>10. QED BY <2>4, <2>9, OneJobLosesNothing
<1>8. QED BY <1>1, <1>2, <1>3, <1>4, <1>5, <1>6, <1>7 DEF Next, Realtime, Step, vars

(* Between two failures nothing that was taken from an update or from the   *)
(* history is forgotten: MediaGroupAggregationBuffer, _ingest_ready and     *)
(* reconcile hand each message on until its row is there.                   *)
THEOREM OnlyFailuresForget == Spec => NothingForgotten
<1>1. IInv /\ [Next]_vars =>
        [ \/ Restart
          \/ \E t \in Tasks : Abandon(t)
          \/ \A i \in Waiting : i \in Waiting' \/ parts'[i] # None
        ]_vars
  BY NextLosesNothing DEF NothingLost
<1>2. QED BY <1>1, Invariant, PTL DEF Spec, NothingForgotten

(* Handlers and readers advance both cursors with ids they read long before, *)
(* in any order; no such update moves a cursor of the channel back.          *)
CursorsNeverGoBack == [][latestSeen' >= latestSeen /\ lastSeen' >= lastSeen]_cursorVars

THEOREM CursorsOnlyAdvance == Spec => CursorsNeverGoBack
<1>1. ASSUME IInv, [Next]_vars
      PROVE  [latestSeen' >= latestSeen /\ lastSeen' >= lastSeen]_cursorVars
  <2>1. latestSeen \in Nat /\ lastSeen \in Nat
    BY <1>1, NumbersTyped DEF IInv
  <2>2. ASSUME NEW t \in Tasks, AdvanceLatest(t)
        PROVE  latestSeen' >= latestSeen /\ lastSeen' >= lastSeen
    <3>1. job[t].upto \in Nat
      BY <1>1, JobTyped DEF IInv
    <3>2. latestSeen' = CursorAdvanced(latestSeen, job[t].upto) /\ lastSeen' = lastSeen
      BY <2>2 DEF AdvanceLatest
    <3>3. QED BY <2>1, <3>1, <3>2, CursorAdvancedSays
  <2>3. ASSUME NEW t \in Tasks, AdvanceLast(t)
        PROVE  latestSeen' >= latestSeen /\ lastSeen' >= lastSeen
    <3>1. job[t].upto \in Nat
      BY <1>1, JobTyped DEF IInv
    <3>2. lastSeen' = CursorAdvanced(lastSeen, job[t].upto) /\ latestSeen' = latestSeen
      BY <2>3 DEF AdvanceLast
    <3>3. QED BY <2>1, <3>1, <3>2, CursorAdvancedSays
  <2>4. CASE UNCHANGED cursorVars
    BY <2>4
  <2>5. CASE Telegram \/ Restart
    BY <2>4, <2>5 DEF Telegram, Post, EditPost, DeletePost, Show, LiveEdit, LiveDeletion,
                      Processed, Restart
  <2>6. CASE \E h \in Handlers : Realtime(h)
    BY <2>4, <2>6 DEF Realtime, OnUpdate, Flush
  <2>7. CASE \E r \in Readers : History(r)
    BY <2>4, <2>7 DEF History, StartReconcile, AskNewest, Replay, FetchHistory
  <2>8. ASSUME NEW t \in Tasks, IngestNext(t) \/ Abandon(t)
        PROVE  UNCHANGED cursorVars
    BY <2>8 DEF IngestNext, Abandon
  <2>9. CASE UNCHANGED vars
    BY <2>4, <2>9 DEF vars
  <2>10. QED BY <1>1, <2>2, <2>3, <2>4, <2>5, <2>6, <2>7, <2>8, <2>9 DEF Next, Step
<1>2. QED BY <1>1, Invariant, PTL DEF Spec, CursorsNeverGoBack

=============================================================================
