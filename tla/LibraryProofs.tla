----------------------------- MODULE LibraryProofs -----------------------------
(***************************************************************************)
(* Theorems about Tags, Export and Images for every set of users, notes,   *)
(* tags, images and requests: links never join two users, the names in an  *)
(* archive differ, uploads get past the quota only by crossing each other, *)
(* and the sweep deletes no image that a note it has read mentions.  What  *)
(* they need of ranks and smallest elements is in PinOrderProofs.  At the  *)
(* end, what is proved of each part is true of what MCLibrary runs.        *)
(***************************************************************************)
EXTENDS PinOrderProofs, MCLibrary

-----------------------------------------------------------------------------
(* Tags.  A request that has found its note, or its tag, holds an id that  *)
(* is never handed out again: the row is the one it has found, or gone.    *)

MemoRow(own) == {None} \cup [owner : own]
TagRow(own) == {None} \cup [owner : own, name : TagName]
LinkRow == {NoLink} \cup [at : {"tag", "insert", "delete"}, user : Person, memo : Memo, tag : TagId]

UsedInv ==
  /\ \A m \in Memo : memo[m] # None => m \in used
  /\ \A t \in TagId : tag[t] # None => t \in used

\* What the request k has found out.
FoundIn(k, mem, tg, us) ==
  k # NoLink =>
    /\ k.memo \in us /\ (mem[k.memo] # None => mem[k.memo].owner = k.user)
    /\ k.at = "insert" => k.tag \in us /\ (tg[k.tag] # None => tg[k.tag].owner = k.user)

FoundInv == \A l \in Link : FoundIn(link[l], memo, tag, used)

TagsInv == TagsTypeOK /\ UsedInv /\ FoundInv /\ LinksStayWithAUser

LEMMA LinkRowFields ==
  /\ NoLink.at = "free"
  /\ \A k \in LinkRow : k # NoLink => /\ k.user \in Person /\ k.memo \in Memo /\ k.tag \in TagId
                                      /\ k.at \in {"tag", "insert", "delete"}
  BY DEF LinkRow, NoLink

\* A link joins rows that are there.
LEMMA LinksAreOfRows ==
  ASSUME TagsInv, NEW k \in links
  PROVE  /\ k \in Memo \X TagId /\ k[1] \in used /\ k[2] \in used
         /\ memo[k[1]] # None /\ tag[k[2]] # None
         /\ memo[k[1]].owner \in person /\ tag[k[2]].owner = memo[k[1]].owner
  BY DEF TagsInv, TagsTypeOK, UsedInv, LinksStayWithAUser, Notes, TagsOf

\* What the property says of rows that are there.
LEMMA LinksByRows ==
  ASSUME links' \subseteq Memo \X TagId,
         \A k \in links' : /\ memo'[k[1]] # None /\ tag'[k[2]] # None
                           /\ memo'[k[1]].owner \in person' /\ tag'[k[2]].owner = memo'[k[1]].owner
  PROVE  LinksStayWithAUser'
<1> SUFFICES ASSUME NEW k \in links' PROVE \E p \in person' : k[1] \in Notes(p)' /\ k[2] \in TagsOf(p)'
  BY DEF LinksStayWithAUser
<1>1. k[1] \in Memo /\ k[2] \in TagId
  OBVIOUS
<1> QED
  BY <1>1 DEF Notes, TagsOf

LEMMA KeepCreateMemo ==
  ASSUME TagsInv, NEW p \in Person, NEW m \in Memo, CreateMemo(p, m) PROVE TagsInv'
<1> DEFINE r == [owner |-> p]
<1>1. /\ p \in person /\ m \notin used /\ memo' = [memo EXCEPT ![m] = r] /\ used' = used \cup {m}
      /\ UNCHANGED <<person, tag, links, link>>
  BY DEF CreateMemo, Free
<1>2. r \in MemoRow(person) /\ r.owner = p
  BY <1>1 DEF MemoRow
<1> HIDE DEF r
<1>3. /\ memo \in [Memo -> MemoRow(person)] /\ memo' \in [Memo -> MemoRow(person)]
      /\ \A n \in Memo \ {m} : memo'[n] = memo[n]
  BY <1>1, <1>2 DEF TagsInv, TagsTypeOK, MemoRow
<1>4. TagsTypeOK'
  BY <1>1, <1>3 DEF TagsInv, TagsTypeOK, MemoRow
<1>5. UsedInv'
  BY <1>1, <1>3 DEF TagsInv, UsedInv
<1>6. FoundInv'
  <2> SUFFICES ASSUME NEW l \in Link PROVE FoundIn(link[l], memo', tag, used')
    BY <1>1 DEF FoundInv
  <2>1. FoundIn(link[l], memo, tag, used) /\ link[l] \in LinkRow
    BY DEF TagsInv, FoundInv, TagsTypeOK, LinkRow
  <2> QED
    BY <1>1, <1>3, <2>1, LinkRowFields DEF FoundIn
<1>7. LinksStayWithAUser'
  BY <1>1, <1>3, LinksAreOfRows, LinksByRows DEF TagsInv, TagsTypeOK
<1> QED
  BY <1>4, <1>5, <1>6, <1>7 DEF TagsInv

\* Creating or renaming a tag writes a row of the user p.
LEMMA KeepTagRow ==
  ASSUME TagsInv, NEW p \in person, NEW t \in TagId, NEW r \in [owner : person, name : TagName], r.owner = p,
         t \notin used \/ t \in TagsOf(p),
         tag' = [tag EXCEPT ![t] = r], used' = used \cup {t},
         UNCHANGED <<person, memo, links, link>>
  PROVE  TagsInv'
<1>1. /\ tag \in [TagId -> TagRow(person)] /\ tag' \in [TagId -> TagRow(person)]
      /\ \A s \in TagId : tag'[s] = IF s = t THEN r ELSE tag[s]
  BY DEF TagsInv, TagsTypeOK, TagRow
<1>2. t \in TagsOf(p) => tag[t] # None /\ tag[t].owner = p
  BY DEF TagsOf
<1>3. TagsTypeOK'
  BY <1>1 DEF TagsInv, TagsTypeOK, TagRow
<1>4. UsedInv'
  BY <1>1 DEF TagsInv, UsedInv
<1>5. FoundInv'
  <2> SUFFICES ASSUME NEW l \in Link PROVE FoundIn(link[l], memo, tag', used')
    BY DEF FoundInv
  <2>1. FoundIn(link[l], memo, tag, used) /\ link[l] \in LinkRow
    BY DEF TagsInv, FoundInv, TagsTypeOK, LinkRow
  <2> QED
    BY <1>1, <1>2, <2>1, LinkRowFields DEF FoundIn
<1>6. \A k \in links : k[2] = t => tag[t] # None /\ tag[t].owner = p
  BY <1>2, LinksAreOfRows
<1>7. r # None
  <2>1. DOMAIN r = {"owner", "name"} /\ DOMAIN None = {"owner"}
    BY DEF None
  <2> QED
    BY <2>1
<1>8. LinksStayWithAUser'
  BY <1>1, <1>6, <1>7, LinksAreOfRows, LinksByRows DEF TagsInv, TagsTypeOK
<1> QED
  BY <1>3, <1>4, <1>5, <1>8 DEF TagsInv

LEMMA KeepCreateTag ==
  ASSUME TagsInv, NEW p \in Person, NEW t \in TagId, NEW name \in TagName, CreateTag(p, t, name)
  PROVE  TagsInv'
<1> DEFINE r == [owner |-> p, name |-> name]
<1>1. /\ p \in person /\ t \notin used /\ tag' = [tag EXCEPT ![t] = r] /\ used' = used \cup {t}
      /\ UNCHANGED <<person, memo, links, link>>
  BY DEF CreateTag, Free
<1>2. r \in [owner : person, name : TagName] /\ r.owner = p
  BY <1>1
<1> HIDE DEF r
<1> QED
  BY <1>1, <1>2, KeepTagRow

LEMMA KeepRenameTag ==
  ASSUME TagsInv, NEW p \in Person, NEW t \in TagId, NEW name \in TagName, RenameTag(p, t, name)
  PROVE  TagsInv'
<1> DEFINE r == [tag[t] EXCEPT !.name = name]
<1>1. /\ p \in person /\ t \in TagsOf(p) /\ tag' = [tag EXCEPT ![t] = r]
      /\ UNCHANGED <<person, memo, used, links, link>>
  BY DEF RenameTag, TagsInv, TagsTypeOK
<1>2. tag[t] \in [owner : person, name : TagName] /\ tag[t].owner = p
  BY <1>1 DEF TagsOf, TagsInv, TagsTypeOK
<1>3. r \in [owner : person, name : TagName] /\ r.owner = p
  BY <1>2
<1>4. t \in used
  BY <1>1 DEF TagsOf, TagsInv, UsedInv
<1> HIDE DEF r
<1>5. used' = used \cup {t}
  BY <1>1, <1>4
<1> QED
  BY <1>1, <1>3, <1>5, KeepTagRow

\* Rows that go away take their links with them: what is left keeps its row.
LEMMA KeepTagsGone ==
  ASSUME TagsInv, UNCHANGED <<used, link>>,
         person' \subseteq person,
         memo' \in [Memo -> MemoRow(person')], tag' \in [TagId -> TagRow(person')],
         \A m \in Memo : memo'[m] # None => memo'[m] = memo[m],
         \A t \in TagId : tag'[t] # None => tag'[t] = tag[t],
         links' \subseteq links,
         \A k \in links' : /\ memo'[k[1]] = memo[k[1]] /\ tag'[k[2]] = tag[k[2]]
                           /\ memo[k[1]].owner \in person'
  PROVE  TagsInv'
<1>1. TagsTypeOK'
  BY DEF TagsInv, TagsTypeOK, MemoRow, TagRow
<1>2. UsedInv'
  BY DEF TagsInv, UsedInv
<1>3. FoundInv'
  <2> SUFFICES ASSUME NEW l \in Link PROVE FoundIn(link[l], memo', tag', used)
    BY DEF FoundInv
  <2>1. FoundIn(link[l], memo, tag, used) /\ link[l] \in LinkRow
    BY DEF TagsInv, FoundInv, TagsTypeOK, LinkRow
  <2> QED
    BY <2>1, LinkRowFields DEF FoundIn
<1>4. LinksStayWithAUser'
  BY LinksAreOfRows, LinksByRows DEF TagsInv, TagsTypeOK
<1> QED
  BY <1>1, <1>2, <1>3, <1>4 DEF TagsInv

LEMMA KeepDeleteMemo == ASSUME TagsInv, NEW m \in Memo, DeleteMemo(m) PROVE TagsInv'
<1>1. /\ memo' = [memo EXCEPT ![m] = None] /\ links' = {k \in links : k[1] # m}
      /\ UNCHANGED <<person, tag, used, link>>
  BY DEF DeleteMemo
<1>2. memo \in [Memo -> MemoRow(person)] /\ tag \in [TagId -> TagRow(person)]
  BY DEF TagsInv, TagsTypeOK, MemoRow, TagRow
<1>3. /\ memo' \in [Memo -> MemoRow(person)]
      /\ \A n \in Memo : memo'[n] = IF n = m THEN None ELSE memo[n]
  BY <1>1, <1>2 DEF MemoRow
<1>4. \A k \in links' : k \in links /\ k[1] \in Memo /\ k[1] # m /\ memo[k[1]].owner \in person
  BY <1>1, LinksAreOfRows
<1> QED
  BY <1>1, <1>2, <1>3, <1>4, KeepTagsGone

LEMMA KeepDeleteTag ==
  ASSUME TagsInv, NEW p \in Person, NEW t \in TagId, DeleteTag(p, t) PROVE TagsInv'
<1>1. /\ tag' = [tag EXCEPT ![t] = None] /\ links' = {k \in links : k[2] # t}
      /\ UNCHANGED <<person, memo, used, link>>
  BY DEF DeleteTag
<1>2. memo \in [Memo -> MemoRow(person)] /\ tag \in [TagId -> TagRow(person)]
  BY DEF TagsInv, TagsTypeOK, MemoRow, TagRow
<1>3. /\ tag' \in [TagId -> TagRow(person)]
      /\ \A s \in TagId : tag'[s] = IF s = t THEN None ELSE tag[s]
  BY <1>1, <1>2 DEF TagRow
<1>4. \A k \in links' : k \in links /\ k[2] \in TagId /\ k[2] # t /\ memo[k[1]].owner \in person
  BY <1>1, LinksAreOfRows
<1> QED
  BY <1>1, <1>2, <1>3, <1>4, KeepTagsGone

\* The notes, the tags and the links of a user go together.
LEMMA KeepDeletePerson == ASSUME TagsInv, NEW p \in Person, DeletePerson(p) PROVE TagsInv'
<1>1. /\ person' = person \ {p}
      /\ memo' = [m \in Memo |-> IF m \in Notes(p) THEN None ELSE memo[m]]
      /\ tag' = [t \in TagId |-> IF t \in TagsOf(p) THEN None ELSE tag[t]]
      /\ links' = {k \in links : k[1] \notin Notes(p) /\ k[2] \notin TagsOf(p)}
      /\ UNCHANGED <<used, link>>
  BY DEF DeletePerson
<1>2. memo \in [Memo -> MemoRow(person)] /\ tag \in [TagId -> TagRow(person)]
  BY DEF TagsInv, TagsTypeOK, MemoRow, TagRow
<1>3. memo' \in [Memo -> MemoRow(person')]
  <2>1. \A m \in Memo : m \notin Notes(p) => memo[m] \in MemoRow(person \ {p})
    BY <1>2 DEF Notes, MemoRow
  <2> QED
    BY <1>1, <2>1 DEF MemoRow
<1>4. tag' \in [TagId -> TagRow(person')]
  <2>1. \A t \in TagId : t \notin TagsOf(p) => tag[t] \in TagRow(person \ {p})
    <3> SUFFICES ASSUME NEW t \in TagId, tag[t] # None, tag[t].owner # p
                 PROVE  tag[t] \in [owner : person \ {p}, name : TagName]
      BY DEF TagsOf, TagRow
    <3>1. tag[t] \in [owner : person, name : TagName]
      BY <1>2 DEF TagRow
    <3> QED
      BY <3>1
  <2> QED
    BY <1>1, <2>1 DEF TagRow
<1>5. \A k \in links' : /\ k \in links /\ k[1] \in Memo \ Notes(p) /\ k[2] \in TagId \ TagsOf(p)
                        /\ memo[k[1]] # None /\ memo[k[1]].owner \in person
  BY <1>1, LinksAreOfRows
<1>6. \A k \in links' : memo[k[1]].owner \in person'
  BY <1>1, <1>5 DEF Notes
<1> QED
  BY <1>1, <1>3, <1>4, <1>5, <1>6, KeepTagsGone

\* The step of one request: the rows stay, and so does what the others have found.
LEMMA KeepLinkStep ==
  ASSUME TagsInv, NEW l \in Link, NEW k \in LinkRow, link' = [link EXCEPT ![l] = k],
         FoundIn(k, memo, tag, used), UNCHANGED <<person, memo, tag, used>>,
         links' \subseteq Memo \X TagId, LinksStayWithAUser'
  PROVE  TagsInv'
<1>1. /\ link \in [Link -> LinkRow] /\ link' \in [Link -> LinkRow]
      /\ \A j \in Link : link'[j] = IF j = l THEN k ELSE link[j]
  BY DEF TagsInv, TagsTypeOK, LinkRow
<1>2. TagsTypeOK'
  BY <1>1 DEF TagsInv, TagsTypeOK, LinkRow
<1>3. UsedInv'
  BY DEF TagsInv, UsedInv
<1>4. FoundInv'
  BY <1>1 DEF TagsInv, FoundInv
<1> QED
  BY <1>2, <1>3, <1>4 DEF TagsInv

LEMMA SameLinks ==
  ASSUME TagsInv, UNCHANGED <<person, memo, tag>>, links' \subseteq links
  PROVE  links' \subseteq Memo \X TagId /\ LinksStayWithAUser'
  BY LinksAreOfRows, LinksByRows DEF TagsInv, TagsTypeOK

LEMMA KeepFindNote ==
  ASSUME TagsInv, NEW l \in Link, NEW p \in Person, NEW op, NEW m \in Memo, NEW t \in TagId,
         LinkFindNote(l, p, op, m, t)
  PROVE  TagsInv'
<1> DEFINE k == [at |-> IF op = "add" THEN "tag" ELSE "delete", user |-> p, memo |-> m, tag |-> t]
<1>1. /\ m \in Notes(p) /\ link' = [link EXCEPT ![l] = k]
      /\ UNCHANGED <<person, memo, tag, used, links>>
  BY DEF LinkFindNote
<1>2. /\ k \in LinkRow /\ k.memo = m /\ k.user = p /\ k.at # "insert"
  BY DEF LinkRow
<1> HIDE DEF k
<1>3. FoundIn(k, memo, tag, used)
  BY <1>1, <1>2 DEF FoundIn, Notes, TagsInv, UsedInv
<1> QED
  BY <1>1, <1>2, <1>3, SameLinks, KeepLinkStep

LEMMA NoLinkHasFound == NoLink \in LinkRow /\ \A mem, tg, us : FoundIn(NoLink, mem, tg, us)
  BY DEF LinkRow, FoundIn

LEMMA KeepFindTag == ASSUME TagsInv, NEW l \in Link, LinkFindTag(l) PROVE TagsInv'
<1> DEFINE k == [link[l] EXCEPT !.at = "insert"]
<1>1. /\ link[l] \in LinkRow /\ link[l].at = "tag" /\ FoundIn(link[l], memo, tag, used)
      /\ UNCHANGED <<person, memo, tag, used, links>>
      /\ link' = [link EXCEPT ![l] = IF link[l].tag \in TagsOf(link[l].user) THEN k ELSE NoLink]
  BY DEF LinkFindTag, TagsInv, TagsTypeOK, LinkRow, FoundInv
<1>2. link[l] # NoLink
  BY <1>1, LinkRowFields
<1>3. /\ k \in LinkRow /\ k.memo = link[l].memo /\ k.user = link[l].user /\ k.tag = link[l].tag
  BY <1>1, <1>2 DEF LinkRow
<1> HIDE DEF k
<1>4. link[l].tag \in TagsOf(link[l].user) => FoundIn(k, memo, tag, used)
  BY <1>1, <1>2, <1>3 DEF FoundIn, TagsOf, TagsInv, UsedInv
<1> QED
  BY <1>1, <1>3, <1>4, NoLinkHasFound, SameLinks, KeepLinkStep

\* The insert asks for the two rows only; whose they are has been seen to before.
LEMMA KeepLinkInsert == ASSUME TagsInv, NEW l \in Link, LinkInsert(l) PROVE TagsInv'
<1> DEFINE k == link[l]
           new == <<k.memo, k.tag>>
<1>1. /\ k \in LinkRow /\ k.at = "insert" /\ FoundIn(k, memo, tag, used)
      /\ UNCHANGED <<person, memo, tag, used>> /\ link' = [link EXCEPT ![l] = NoLink]
      /\ links' = IF memo[k.memo] # None /\ tag[k.tag] # None THEN links \cup {new} ELSE links
  BY DEF LinkInsert, TagsInv, TagsTypeOK, LinkRow, FoundInv
<1>2. k # NoLink /\ k.memo \in Memo /\ k.tag \in TagId
  BY <1>1, LinkRowFields
<1>3. /\ new \in Memo \X TagId /\ new[1] = k.memo /\ new[2] = k.tag
      /\ memo[k.memo] # None => memo[k.memo].owner = k.user /\ memo[k.memo].owner \in person
      /\ tag[k.tag] # None => tag[k.tag].owner = k.user
  BY <1>1, <1>2 DEF FoundIn, TagsInv, TagsTypeOK
<1> HIDE DEF k, new
<1>4. CASE links' = links
  BY <1>1, <1>4, NoLinkHasFound, SameLinks, KeepLinkStep
<1>5. CASE memo[k.memo] # None /\ tag[k.tag] # None
  <2>1. links' = links \cup {new}
    BY <1>1, <1>5
  <2>2. links' \subseteq Memo \X TagId
    BY <1>3, <2>1 DEF TagsInv, TagsTypeOK
  <2>3. LinksStayWithAUser'
    BY <1>1, <1>3, <1>5, <2>1, <2>2, LinksAreOfRows, LinksByRows
  <2> QED
    BY <1>1, <2>2, <2>3, NoLinkHasFound, KeepLinkStep
<1> QED
  BY <1>1, <1>4, <1>5

LEMMA KeepLinkEnds ==
  ASSUME TagsInv, NEW l \in Link, LinkDelete(l) \/ LinkCancelled(l) PROVE TagsInv'
<1>1. /\ UNCHANGED <<person, memo, tag, used>> /\ link' = [link EXCEPT ![l] = NoLink]
      /\ links' \subseteq links
  BY DEF LinkDelete, LinkCancelled
<1> QED
  BY <1>1, NoLinkHasFound, SameLinks, KeepLinkStep

LEMMA TagsInitInv == TagsInit => TagsInv
<1> SUFFICES ASSUME TagsInit PROVE TagsInv
  OBVIOUS
<1>1. /\ person = Person /\ used = {} /\ links = {}
      /\ \A m \in Memo : memo[m] = None
      /\ \A t \in TagId : tag[t] = None
      /\ \A l \in Link : link[l] = NoLink
  BY DEF TagsInit
<1>2. TagsTypeOK
  BY DEF TagsInit, TagsTypeOK
<1> QED
  BY <1>1, <1>2, NoLinkHasFound DEF TagsInv, UsedInv, FoundInv, LinksStayWithAUser

LEMMA TagsStepInv == TagsInv /\ [TagsNext]_tagsVars => TagsInv'
<1> SUFFICES ASSUME TagsInv, [TagsNext]_tagsVars PROVE TagsInv'
  OBVIOUS
<1>1. CASE UNCHANGED tagsVars
  BY <1>1 DEF tagsVars, TagsInv, TagsTypeOK, UsedInv, FoundInv, LinksStayWithAUser, Notes, TagsOf
<1> QED
  BY <1>1, KeepDeletePerson, KeepCreateMemo, KeepDeleteTag, KeepCreateTag, KeepRenameTag,
     KeepFindNote, KeepDeleteMemo, KeepFindTag, KeepLinkInsert, KeepLinkEnds
  DEF TagsNext

LEMMA TagsSpecInv == TagsSpec => []TagsInv
  BY TagsInitInv, TagsStepInv, PTL DEF TagsSpec

\* Rows, links and requests stay well formed.
THEOREM TagsTypeCorrect == TagsSpec => []TagsTypeOK
<1>1. TagsInv => TagsTypeOK
  BY DEF TagsInv
<1> QED
  BY <1>1, TagsSpecInv, PTL

\* A link joins a note and a tag of the same user, whatever has been deleted and
\* created between the checks and the insert (repository.go:114-133).
THEOREM LinksJoinNoTwoUsers == TagsSpec => []LinksStayWithAUser
<1>1. TagsInv => LinksStayWithAUser
  BY DEF TagsInv
<1> QED
  BY <1>1, TagsSpecInv, PTL

-----------------------------------------------------------------------------
(* Export.                                                                 *)

ExportInv ==
  /\ ExportTypeOK
  /\ listed \in Seq(Listed)
  /\ names \in Seq(Seq(Nat))
  /\ IsFiniteSet(Assigned) /\ Cardinality(Assigned) = Len(names)

\* One number of Len(names) + 1 is free: there are more of them than names.
LEMMA SomeNumberIsFree ==
  ASSUME ExportInv, NEW title \in Seq(Nat)
  PROVE  \E k \in 2 .. Len(names) + 2 : Append(title, k) \notin Assigned
<1> DEFINE K == 2 .. Len(names) + 2
           f == [k \in K |-> Append(title, k)]
<1>1. Len(names) \in Nat
  BY DEF ExportInv
<1>2. IsFiniteSet(K) /\ Cardinality(K) = Len(names) + 1
  BY <1>1, FS_Interval
<1>3. \A k, m \in K : k # m => f[k] # f[m]
  <2> SUFFICES ASSUME NEW k \in K, NEW m \in K, Append(title, k) = Append(title, m) PROVE k = m
    OBVIOUS
  <2>1. /\ Len(title) \in Nat
        /\ Append(title, k)[Len(title) + 1] = k /\ Append(title, m)[Len(title) + 1] = m
    BY <1>1
  <2> QED
    BY <2>1
<1>4. ASSUME \A k \in K : Append(title, k) \in Assigned PROVE FALSE
  <2>1. f \in [K -> Assigned]
    BY <1>4
  <2> HIDE DEF K, f
  <2>2. \E k, m \in K : k # m /\ f[k] = f[m]
    BY <1>1, <1>2, <2>1, FS_PigeonHole DEF ExportInv
  <2> QED
    BY <1>3, <2>2
<1> QED
  BY <1>4

\* The name a note gets is a name, and no other note has it.
LEMMA EntryNameIsNew ==
  ASSUME ExportInv, NEW title \in Seq(Nat)
  PROVE  EntryName(title) \in Seq(Nat) /\ EntryName(title) \notin Assigned
<1> DEFINE S == {k \in 2 .. Len(names) + 2 : Append(title, k) \notin Assigned}
           First(k) == /\ Append(title, k) \notin Assigned
                       /\ \A j \in 2 .. k - 1 : Append(title, j) \in Assigned
           number == CHOOSE k \in 2 .. Len(names) + 2 : First(k)
<1>1. Len(names) \in Nat
  BY DEF ExportInv
<1>2. S \in SUBSET Nat /\ S # {}
  BY <1>1, SomeNumberIsFree
<1>3. PICK k \in S : \A j \in S : k <= j
  <2> HIDE DEF S
  <2> QED
    BY <1>2, SmallestOfNat
<1>4. k \in 2 .. Len(names) + 2 /\ First(k)
  <2>1. k \in 2 .. Len(names) + 2 /\ Append(title, k) \notin Assigned
    BY <1>3
  <2>2. ASSUME NEW j \in 2 .. k - 1, Append(title, j) \notin Assigned PROVE FALSE
    <3>1. j \in S /\ j < k
      BY <1>1, <2>1, <2>2
    <3> HIDE DEF S
    <3>2. k <= j
      BY <1>3, <3>1
    <3> QED
      BY <2>1, <1>1, <3>1, <3>2
  <2> QED
    BY <2>1, <2>2
<1>5. number \in 2 .. Len(names) + 2 /\ First(number)
  <2> HIDE DEF First
  <2> QED
    BY <1>4
<1>6. EntryName(title) = IF title \notin Assigned THEN title ELSE Append(title, number)
  BY DEF EntryName
<1>7. number \in Nat /\ Append(title, number) \notin Assigned
  BY <1>1, <1>5
<1> HIDE DEF number
<1> QED
  BY <1>6, <1>7

LEMMA KeepWriteNote == ASSUME ExportInv, WriteNote PROVE ExportInv'
<1> DEFINE i == Len(names) + 1
           e == EntryName(listed[i].title)
<1>1. /\ Len(names) < Len(listed) /\ names' = Append(names, e)
      /\ UNCHANGED <<stored, listed, fetch, bundle>>
  BY DEF WriteNote
<1>2. names \in Seq(Seq(Nat)) /\ listed \in Seq(Listed) /\ Len(names) \in Nat /\ Len(listed) \in Nat
  BY DEF ExportInv
<1>3. i \in 1 .. Len(listed)
  BY <1>1, <1>2
<1>4. listed[i].title \in Seq(Nat)
  <2>1. listed[i] \in Listed
    BY <1>2, <1>3
  <2> QED
    BY <2>1, ExportAssumption DEF Listed
<1>5. e \in Seq(Nat) /\ e \notin Assigned
  BY <1>4, EntryNameIsNew
<1> HIDE DEF e, i
<1>6. /\ names' \in Seq(Seq(Nat)) /\ Len(names') = Len(names) + 1 /\ names'[Len(names) + 1] = e
      /\ \A j \in 1 .. Len(names) : names'[j] = names[j]
  BY <1>1, <1>2, <1>5
<1>7. Assigned' = Assigned \cup {e}
  <2>1. /\ \A j \in 1 .. Len(names') : j = Len(names) + 1 \/ j \in 1 .. Len(names)
        /\ \A j \in 1 .. Len(names) : j \in 1 .. Len(names')
        /\ Len(names) + 1 \in 1 .. Len(names')
    BY <1>2, <1>6
  <2>2. ASSUME NEW x \in Assigned' PROVE x \in Assigned \cup {e}
    <3>1. PICK j \in 1 .. Len(names') : x = names'[j]
      BY DEF Assigned
    <3>2. CASE j = Len(names) + 1
      BY <1>6, <3>1, <3>2
    <3>3. CASE j \in 1 .. Len(names)
      BY <1>6, <3>1, <3>3 DEF Assigned
    <3> QED
      BY <2>1, <3>2, <3>3
  <2>3. \A j \in 1 .. Len(names') : names'[j] \in Assigned'
    BY DEF Assigned
  <2>4. ASSUME NEW x \in Assigned \cup {e} PROVE x \in Assigned'
    <3>1. CASE x = e
      BY <1>6, <2>1, <2>3, <3>1
    <3>2. CASE x \in Assigned
      <4>1. PICK j \in 1 .. Len(names) : x = names[j]
        BY <3>2 DEF Assigned
      <4> QED
        BY <1>6, <2>1, <2>3, <4>1
    <3> QED
      BY <2>4, <3>1, <3>2
  <2> QED
    BY <2>2, <2>4
<1>8. IsFiniteSet(Assigned') /\ Cardinality(Assigned') = Len(names')
  BY <1>5, <1>6, <1>7, FS_AddElement, ZenonT(60) DEF ExportInv
<1>9. Len(names') <= Len(listed)
  BY <1>1, <1>2, <1>6
<1> QED
  BY <1>1, <1>6, <1>8, <1>9 DEF ExportInv, ExportTypeOK

LEMMA ExportInitInv == ExportInit => ExportInv
<1> SUFFICES ASSUME ExportInit PROVE ExportInv
  OBVIOUS
<1>1. PICK len \in 0 .. MaxListed : listed \in [1 .. len -> Listed]
  BY DEF ExportInit
<1>2. listed \in Seq(Listed) /\ Len(listed) \in Nat
  BY <1>1, ExportAssumption, SeqDef
<1>3. fetch \subseteq Picture
  <2>1. \A r \in Listed : r.refs \subseteq Picture
    BY DEF Listed
  <2>2. \A i \in 1 .. Len(listed) : listed[i].refs \subseteq Picture
    BY <1>2, <2>1
  <2> QED
    BY <2>2 DEF ExportInit
<1>4. names = <<>> /\ names \in Seq(Seq(Nat)) /\ Len(names) = 0
  BY DEF ExportInit
<1>5. Assigned = {}
  BY <1>4 DEF Assigned
<1> QED
  BY <1>2, <1>3, <1>4, <1>5, FS_EmptySet DEF ExportInit, ExportInv, ExportTypeOK

LEMMA ExportStepInv == ExportInv /\ [ExportNext]_exportVars => ExportInv'
<1> SUFFICES ASSUME ExportInv, [ExportNext]_exportVars PROVE ExportInv'
  OBVIOUS
<1>1. ASSUME NEW i \in Picture, PictureGoes(i) PROVE ExportInv'
  <2>1. UNCHANGED <<listed, fetch, bundle, names>> /\ stored' = [stored EXCEPT ![i] = "none"]
    BY <1>1 DEF PictureGoes
  <2>2. Assigned' = Assigned
    BY <2>1 DEF Assigned
  <2> QED
    BY <2>1, <2>2 DEF ExportInv, ExportTypeOK
<1>2. ASSUME NEW i \in Picture, Fetch(i) PROVE ExportInv'
  <2>1. /\ UNCHANGED <<stored, listed, names>> /\ i \in fetch /\ fetch' = fetch \ {i}
        /\ bundle' = IF stored[i] = "own" THEN bundle \cup {i} ELSE bundle
    BY <1>2 DEF Fetch
  <2>2. Assigned' = Assigned
    BY <2>1 DEF Assigned
  <2> QED
    BY <2>1, <2>2 DEF ExportInv, ExportTypeOK
<1>3. CASE UNCHANGED exportVars
  BY <1>3 DEF exportVars, ExportInv, ExportTypeOK, Assigned
<1> QED
  BY <1>1, <1>2, <1>3, KeepWriteNote DEF ExportNext

LEMMA ExportSpecInv == ExportSpec => []ExportInv
  BY ExportInitInv, ExportStepInv, PTL DEF ExportSpec

\* The archive has nobody else's picture in it, be it mentioned in a note or not, and
\* no more names than notes.
THEOREM ExportTypeCorrect == ExportSpec => []ExportTypeOK
<1>1. ExportInv => ExportTypeOK
  BY DEF ExportInv
<1> QED
  BY <1>1, ExportSpecInv, PTL

\* No two notes of an archive get the same name, although a title may itself look
\* like the numbered name of another (export.go:150-153).
THEOREM NamesAreDistinct == ExportSpec => []EntriesDiffer
<1>1. ExportInv => EntriesDiffer
  BY DEF ExportInv, EntriesDiffer
<1> QED
  BY <1>1, ExportSpecInv, PTL

-----------------------------------------------------------------------------
(* Images.  An upload that has found room knows how many were stored since *)
(* and no more; the sweep has at most as many images left to delete as the *)
(* pass may still delete, all of them aged, and it knows of every mention  *)
(* that has been saved since it read the notes.                            *)

Lefts == 1 .. Batch
Crossings == 0 .. Images
ImageRow(own) == {Unused, Gone} \cup [at : {"fresh", "aged"}, owner : own]
PageRow == [row : BOOLEAN, trashed : BOOLEAN, refs : SUBSET Image]
UploadRow == {NoUpload} \cup [at : {"insert"}, owner : Author, crossed : Crossings]
SweepState ==
  {Asleep}
  \cup [at : {"user"}, old : SUBSET Image, left : Lefts, users : SUBSET Author]
  \cup [at : {"scan"}, old : SUBSET Image, left : Lefts, users : SUBSET Author, user : Author,
        ids : SUBSET Image]
  \cup [at : {"delete"}, old : SUBSET Image, left : Lefts, users : SUBSET Author, user : Author,
        ids : SUBSET Image, late : SUBSET (Page \X Image)]

\* The images of b, for a state of the images given as img.
Kept(img, b) == {i \in Image : img[i].at \in {"fresh", "aged"} /\ img[i].owner = b}

Taken == {i \in Image : image[i] # Unused}

UploadsInv ==
  \A u \in Upload : upload[u].at = "insert" =>
    /\ Cardinality(ImagesOf(upload[u].owner)) + 1 <= Quota + upload[u].crossed
    /\ upload[u].crossed <= Cardinality(Taken)

PagesInv == \A p \in Page : ~page[p].row => page[p].refs = {}

\* The image i is aged and a's, or gone.
AgedOrGone(i, a) ==
  image[i].at \in {"aged", "gone"} /\ (image[i].at = "aged" => image[i].owner = a)

SweepInv ==
  /\ sweep \in SweepState
  /\ sweep.at \in {"scan", "delete"} => \A i \in sweep.ids : AgedOrGone(i, sweep.user)
  /\ sweep.at = "delete" =>
       /\ Cardinality(sweep.ids) <= sweep.left
       /\ \A i \in sweep.ids, p \in PagesOf(sweep.user) : i \in page[p].refs => <<p, i>> \in sweep.late

ImagesInv == ImagesTypeOK /\ UploadsInv /\ PagesInv /\ SweepInv

LEMMA ImagesAreFinite ==
  /\ Images \in Nat /\ IsFiniteSet(Image) /\ Cardinality(Image) = Images
  /\ \A S \in SUBSET Image : IsFiniteSet(S) /\ Cardinality(S) \in Nat /\ Cardinality(S) <= Images
<1>1. Images \in Nat /\ IsFiniteSet(Image) /\ Cardinality(Image) = Images
  BY ImagesAssumption, FS_Interval DEF Image
<1> QED
  BY <1>1, FS_Subset, FS_CardinalityType

LEMMA ImageRowFields ==
  ASSUME NEW own, NEW r \in ImageRow(own)
  PROVE  /\ r = Unused \/ r = Gone \/ r \in [at : {"fresh", "aged"}, owner : own]
         /\ r.at \in {"unused", "gone", "fresh", "aged"}
         /\ r.at = "unused" <=> r = Unused
         /\ r.at = "gone" <=> r = Gone
         /\ r.at \in {"fresh", "aged"} => r.owner \in own
  BY DEF ImageRow, Unused, Gone

LEMMA UploadRowFields ==
  ASSUME NEW r \in UploadRow
  PROVE  /\ r.at \in {"free", "insert"} /\ NoUpload.at = "free"
         /\ r.at = "insert" <=> r # NoUpload
         /\ r # NoUpload => r.owner \in Author /\ r.crossed \in Crossings
  BY DEF UploadRow, NoUpload

LEMMA SweepFields ==
  ASSUME NEW s \in SweepState
  PROVE  /\ s.at \in {"asleep", "user", "scan", "delete"}
         /\ s.at = "asleep" <=> s = Asleep
         /\ s # Asleep => s.left \in Lefts /\ s.users \subseteq Author /\ s.old \subseteq Image
         /\ s.at \in {"scan", "delete"} => s.user \in Author /\ s.ids \subseteq Image
         /\ s.at = "delete" => s.late \subseteq Page \X Image
<1>1. CASE s = Asleep
  BY <1>1 DEF Asleep
<1>2. CASE s \in [at : {"user"}, old : SUBSET Image, left : Lefts, users : SUBSET Author]
  BY <1>2 DEF Asleep
<1>3. CASE s \in [at : {"scan"}, old : SUBSET Image, left : Lefts, users : SUBSET Author,
                  user : Author, ids : SUBSET Image]
  BY <1>3 DEF Asleep
<1>4. CASE s \in [at : {"delete"}, old : SUBSET Image, left : Lefts, users : SUBSET Author,
                  user : Author, ids : SUBSET Image, late : SUBSET (Page \X Image)]
  BY <1>4 DEF Asleep
<1> QED
  BY <1>1, <1>2, <1>3, <1>4 DEF SweepState

\* The parts of ImagesTypeOK, with their ranges behind names.
LEMMA ImagesTypes ==
  ImagesTypeOK <=>
    /\ author \subseteq Author
    /\ image \in [Image -> ImageRow(author)]
    /\ page \in [Page -> PageRow]
    /\ upload \in [Upload -> UploadRow]
    /\ sweep.at \in {"asleep", "user", "scan", "delete"}
    /\ sweep # Asleep => sweep.left \in Lefts /\ sweep.users \subseteq Author
    /\ faults \in 0 .. MaxFaults
  BY DEF ImagesTypeOK, ImageRow, PageRow, UploadRow, Crossings, Lefts

LEMMA KeepImageTypes ==
  ASSUME ImagesInv, author' \subseteq Author, image' \in [Image -> ImageRow(author')],
         page' \in [Page -> PageRow], upload' \in [Upload -> UploadRow], faults' \in 0 .. MaxFaults,
         SweepInv'
  PROVE  ImagesTypeOK'
<1>1. /\ sweep'.at \in {"asleep", "user", "scan", "delete"}
      /\ sweep' # Asleep => sweep'.left \in Lefts /\ sweep'.users \subseteq Author
  BY SweepFields DEF SweepInv
<1> QED
  BY <1>1 DEF ImagesTypeOK, ImageRow, PageRow, UploadRow, Crossings, Lefts

\* As long as a user's images only become fewer, what the uploads know stays true.
LEMMA KeepUploads ==
  ASSUME ImagesInv, UNCHANGED upload, \A a \in Author : ImagesOf(a)' \subseteq ImagesOf(a),
         Taken \subseteq Taken'
  PROVE  UploadsInv'
<1> SUFFICES ASSUME NEW u \in Upload, upload[u].at = "insert"
             PROVE  /\ Cardinality(ImagesOf(upload[u].owner)') + 1 <= Quota + upload[u].crossed
                    /\ upload[u].crossed <= Cardinality(Taken')
  BY DEF UploadsInv
<1> DEFINE a == upload[u].owner
           S == ImagesOf(a)
           T == ImagesOf(a)'
<1>1. a \in Author /\ upload[u].crossed \in Crossings
  BY UploadRowFields, ImagesTypes DEF ImagesInv
<1>2. T \subseteq S /\ S \in SUBSET Image /\ Taken \in SUBSET Image /\ Taken' \in SUBSET Image
  BY <1>1 DEF ImagesOf, Taken, Image
<1>3. Cardinality(S) + 1 <= Quota + upload[u].crossed /\ upload[u].crossed <= Cardinality(Taken)
  BY DEF ImagesInv, UploadsInv
<1>4. upload[u].crossed \in Nat /\ Quota \in Nat
  BY <1>1, ImagesAssumption DEF Crossings
<1> HIDE DEF S, T
<1>5. /\ Cardinality(T) <= Cardinality(S) /\ Cardinality(Taken) <= Cardinality(Taken')
      /\ Cardinality(S) \in Nat /\ Cardinality(T) \in Nat
      /\ Cardinality(Taken) \in Nat /\ Cardinality(Taken') \in Nat
  <2>1. IsFiniteSet(S) /\ IsFiniteSet(Taken') /\ IsFiniteSet(T) /\ IsFiniteSet(Taken)
    BY <1>2, ImagesAreFinite, FS_Subset
  <2> QED
    BY <1>2, <2>1, FS_Subset, FS_CardinalityType
<1>6. Cardinality(T) + 1 <= Quota + upload[u].crossed /\ upload[u].crossed <= Cardinality(Taken')
  BY <1>3, <1>4, <1>5
<1> QED
  BY <1>6 DEF T

\* The sweep's own steps apart, aged images stay or go and notes only go away.
LEMMA KeepSweep ==
  ASSUME ImagesInv, UNCHANGED sweep,
         \A i \in Image : AgedOrGone(i, image[i].owner) =>
                            image'[i] = image[i] \/ image'[i].at = "gone",
         \A p \in Page : page'[p].row => page[p].row /\ page'[p].refs = page[p].refs
  PROVE  SweepInv'
<1>1. sweep \in SweepState
  BY DEF ImagesInv, SweepInv
<1>2. ASSUME sweep.at \in {"scan", "delete"}, NEW i \in sweep.ids PROVE AgedOrGone(i, sweep.user)'
  <2>1. AgedOrGone(i, sweep.user) /\ i \in Image
    BY <1>1, <1>2, SweepFields DEF ImagesInv, SweepInv
  <2> QED
    BY <2>1 DEF AgedOrGone
<1>3. ASSUME sweep.at = "delete", NEW i \in sweep.ids, NEW p \in PagesOf(sweep.user)',
             i \in page'[p].refs
      PROVE  <<p, i>> \in sweep.late
  <2>1. p \in PagesOf(sweep.user) /\ i \in page[p].refs
    BY <1>3 DEF PagesOf
  <2> QED
    BY <1>3, <2>1 DEF ImagesInv, SweepInv
<1> QED
  BY <1>1, <1>2, <1>3 DEF ImagesInv, SweepInv

\* What the steps start from.
LEMMA ImagesFacts ==
  ASSUME ImagesInv
  PROVE  /\ author \subseteq Author
         /\ image \in [Image -> ImageRow(author)]
         /\ page \in [Page -> PageRow]
         /\ upload \in [Upload -> UploadRow]
         /\ faults \in 0 .. MaxFaults
         /\ sweep \in SweepState
  BY ImagesTypes DEF ImagesInv, SweepInv

LEMMA SameImages ==
  ASSUME ImagesInv, UNCHANGED image
  PROVE  /\ \A a \in Author : ImagesOf(a)' \subseteq ImagesOf(a)
         /\ Taken \subseteq Taken'
  BY DEF ImagesOf, Stored, Taken

LEMMA KeptImages ==
  /\ \A b : ImagesOf(b) = Kept(image, b)
  /\ UploadsInv <=> \A v \in Upload : upload[v].at = "insert" =>
       /\ Cardinality(Kept(image, upload[v].owner)) + 1 <= Quota + upload[v].crossed
       /\ upload[v].crossed <= Cardinality(Taken)
<1>1. \A b : ImagesOf(b) = Kept(image, b)
  BY DEF ImagesOf, Stored, Kept
<1> QED
  BY <1>1 DEF UploadsInv

-----------------------------------------------------------------------------
LEMMA KeepUploadCheck ==
  ASSUME ImagesInv, NEW u \in Upload, NEW a \in Author, UploadCheck(u, a) PROVE ImagesInv'
<1> DEFINE r == [at |-> "insert", owner |-> a, crossed |-> 0]
<1>1. /\ HasRoom(a) /\ upload' = [upload EXCEPT ![u] = r]
      /\ UNCHANGED <<author, image, page, sweep, faults>>
  BY DEF UploadCheck
<1>2. r \in UploadRow /\ r.owner = a /\ r.crossed = 0 /\ r.at = "insert"
  BY ImagesAssumption DEF UploadRow, Crossings
<1> HIDE DEF r
<1>3. /\ upload' \in [Upload -> UploadRow]
      /\ \A v \in Upload : upload'[v] = IF v = u THEN r ELSE upload[v]
  BY <1>1, <1>2, ImagesFacts
<1>4. SweepInv'
  BY <1>1, KeepSweep
<1>5. ImagesTypeOK'
  BY <1>1, <1>3, <1>4, ImagesFacts, KeepImageTypes
<1>6. UploadsInv'
  <2>1. /\ Cardinality(ImagesOf(a)) + 1 <= Quota + r.crossed
        /\ r.crossed <= Cardinality(Taken)
    <3>1. Taken \in SUBSET Image /\ ImagesOf(a) \in SUBSET Image
      BY DEF Taken, ImagesOf
    <3>2. Cardinality(Taken) \in Nat /\ Cardinality(ImagesOf(a)) \in Nat /\ Quota \in Nat
      BY <3>1, ImagesAreFinite, ImagesAssumption
    <3> QED
      BY <1>1, <1>2, <3>2 DEF HasRoom
  <2>2. Taken' = Taken /\ \A b : ImagesOf(b)' = ImagesOf(b)
    BY <1>1 DEF Taken, ImagesOf, Stored
  <2> QED
    BY <1>2, <1>3, <2>1, <2>2 DEF ImagesInv, UploadsInv
<1>7. PagesInv'
  BY <1>1 DEF ImagesInv, PagesInv
<1> QED
  BY <1>4, <1>5, <1>6, <1>7 DEF ImagesInv

\* An upload that is over, stored or not.
LEMMA KeepUploadEnds ==
  ASSUME ImagesInv, NEW u \in Upload, upload' = [upload EXCEPT ![u] = NoUpload],
         UNCHANGED <<author, image, page, sweep, faults>>
  PROVE  ImagesInv'
<1>1. /\ upload' \in [Upload -> UploadRow] /\ NoUpload.at = "free"
      /\ \A v \in Upload : upload'[v] = IF v = u THEN NoUpload ELSE upload[v]
  BY ImagesFacts DEF UploadRow, NoUpload
<1>2. SweepInv'
  BY KeepSweep
<1>3. ImagesTypeOK'
  BY <1>1, <1>2, ImagesFacts, KeepImageTypes
<1>4. UploadsInv'
  <2>1. Taken' = Taken /\ \A b : ImagesOf(b)' = ImagesOf(b)
    BY DEF Taken, ImagesOf, Stored
  <2> QED
    BY <1>1, <2>1 DEF ImagesInv, UploadsInv
<1>5. PagesInv'
  BY DEF ImagesInv, PagesInv
<1> QED
  BY <1>2, <1>3, <1>4, <1>5 DEF ImagesInv

\* What storing the image i for the user a makes of the images.
LEMMA StoredImages ==
  ASSUME ImagesInv, NEW a \in author, NEW i \in Image, image[i] = Unused,
         image' = [image EXCEPT ![i] = Fresh(a)]
  PROVE  /\ image' \in [Image -> ImageRow(author)]
         /\ \A j \in Image \ {i} : image'[j] = image[j]
         /\ Taken' = Taken \cup {i} /\ Cardinality(Taken') = Cardinality(Taken) + 1
         /\ Kept(image', a) = Kept(image, a) \cup {i}
         /\ Cardinality(Kept(image', a)) = Cardinality(Kept(image, a)) + 1
         /\ \A b : b # a => Kept(image', b) = Kept(image, b)
<1>1. /\ Fresh(a) \in ImageRow(author) /\ Fresh(a).at = "fresh" /\ Fresh(a).owner = a
      /\ Fresh(a) # Unused
  BY DEF Fresh, ImageRow, Unused
<1>2. /\ image' \in [Image -> ImageRow(author)]
      /\ \A j \in Image : image'[j] = IF j = i THEN Fresh(a) ELSE image[j]
  BY <1>1, ImagesFacts
<1>3. Unused.at = "unused"
  BY DEF Unused
<1>4. Taken' = Taken \cup {i} /\ i \notin Taken
  BY <1>1, <1>2 DEF Taken
<1>5. Kept(image', a) = Kept(image, a) \cup {i} /\ i \notin Kept(image, a)
  BY <1>1, <1>2, <1>3 DEF Kept
<1>6. ASSUME NEW b, b # a PROVE Kept(image', b) = Kept(image, b)
  BY <1>1, <1>2, <1>3, <1>6 DEF Kept
<1>7. IsFiniteSet(Taken) /\ IsFiniteSet(Kept(image, a))
  <2>1. Taken \in SUBSET Image /\ Kept(image, a) \in SUBSET Image
    BY DEF Taken, Kept
  <2> QED
    BY <2>1, ImagesAreFinite
<1>8. /\ Cardinality(Taken') = Cardinality(Taken) + 1
      /\ Cardinality(Kept(image', a)) = Cardinality(Kept(image, a)) + 1
  BY <1>4, <1>5, <1>7, FS_AddElement
<1> QED
  BY <1>2, <1>4, <1>5, <1>6, <1>8

\* The uploads of the same user that have still to be stored are crossed.
LEMMA KeepUploadInsert == ASSUME ImagesInv, NEW u \in Upload, UploadInsert(u) PROVE ImagesInv'
<1> DEFINE a == upload[u].owner
           crossing(v) == upload[v].at = "insert" /\ upload[v].owner = a
           more(v) == [upload[v] EXCEPT !.crossed = @ + 1]
<1>1. CASE a \notin author
  BY <1>1, KeepUploadEnds DEF UploadInsert
<1>2. CASE a \in author
  <2>1. PICK i \in Image :
          /\ image[i] = Unused /\ image' = [image EXCEPT ![i] = Fresh(a)]
          /\ upload' = [v \in Upload |-> IF v = u THEN NoUpload
                                         ELSE IF crossing(v) THEN more(v) ELSE upload[v]]
    BY <1>2 DEF UploadInsert
  <2>2. UNCHANGED <<author, page, sweep, faults>>
    BY DEF UploadInsert
  <2>3. /\ image' \in [Image -> ImageRow(author)]
        /\ \A j \in Image \ {i} : image'[j] = image[j]
        /\ Taken' = Taken \cup {i} /\ Cardinality(Taken') = Cardinality(Taken) + 1
        /\ Cardinality(Kept(image', a)) = Cardinality(Kept(image, a)) + 1
        /\ \A b : b # a => Kept(image', b) = Kept(image, b)
    BY <1>2, <2>1, StoredImages
  <2>4. /\ Cardinality(Taken) \in Nat /\ Cardinality(Taken') <= Images /\ Images \in Nat
        /\ Cardinality(Kept(image, a)) \in Nat /\ Quota \in Nat
    <3>1. Taken \in SUBSET Image /\ Taken' \in SUBSET Image /\ Kept(image, a) \in SUBSET Image
      BY DEF Taken, Kept, Image
    <3> QED
      BY <3>1, ImagesAreFinite, ImagesAssumption
  <2>5. \A v \in Upload : crossing(v) =>
          /\ upload[v].crossed \in Nat /\ upload[v].crossed <= Cardinality(Taken)
          /\ Cardinality(Kept(image, a)) + 1 <= Quota + upload[v].crossed
    <3> SUFFICES ASSUME NEW v \in Upload, crossing(v)
                 PROVE  /\ upload[v].crossed \in Nat /\ upload[v].crossed <= Cardinality(Taken)
                        /\ Cardinality(Kept(image, a)) + 1 <= Quota + upload[v].crossed
      OBVIOUS
    <3>1. upload[v].crossed \in Crossings
      BY UploadRowFields, ImagesFacts
    <3> QED
      BY <2>4, <3>1, KeptImages DEF ImagesInv, Crossings
  <2>6. \A v \in Upload : crossing(v) =>
          /\ more(v) \in UploadRow /\ more(v).at = "insert" /\ more(v).owner = a
          /\ more(v).crossed = upload[v].crossed + 1
    <3> SUFFICES ASSUME NEW v \in Upload, crossing(v)
                 PROVE  /\ more(v) \in UploadRow /\ more(v).at = "insert" /\ more(v).owner = a
                        /\ more(v).crossed = upload[v].crossed + 1
      OBVIOUS
    <3>1. upload[v].crossed + 1 \in Crossings
      BY <2>3, <2>4, <2>5 DEF Crossings
    <3>2. upload[v] \in [at : {"insert"}, owner : Author, crossed : Crossings]
      BY UploadRowFields, ImagesFacts DEF UploadRow
    <3> QED
      BY <3>1, <3>2 DEF UploadRow
  <2>7. upload' \in [Upload -> UploadRow]
    <3>1. NoUpload \in UploadRow
      BY DEF UploadRow
    <3> HIDE DEF more, crossing
    <3> QED
      BY <2>1, <2>6, <3>1, ImagesFacts
  <2>8. SweepInv'
    <3>1. image[i].at = "unused"
      BY <2>1 DEF Unused
    <3>2. \A j \in Image : AgedOrGone(j, image[j].owner) => image'[j] = image[j]
      BY <2>3, <3>1 DEF AgedOrGone
    <3> QED
      BY <2>2, <3>2, KeepSweep
  <2>9. ImagesTypeOK'
    BY <2>2, <2>3, <2>7, <2>8, ImagesFacts, KeepImageTypes
  <2>10. UploadsInv'
    <3> SUFFICES ASSUME NEW v \in Upload, upload'[v].at = "insert"
                 PROVE  /\ Cardinality(Kept(image', upload'[v].owner)) + 1 <= Quota + upload'[v].crossed
                        /\ upload'[v].crossed <= Cardinality(Taken')
      BY DEF UploadsInv, ImagesOf, Stored, Kept
    <3>1. v # u
      BY <2>1 DEF NoUpload
    <3>2. CASE crossing(v)
      <4>1. upload'[v] = more(v)
        BY <2>1, <3>1, <3>2
      <4>2. upload'[v].owner = a /\ upload'[v].crossed = upload[v].crossed + 1
        BY <2>6, <3>2, <4>1
      <4> QED
        BY <2>3, <2>4, <2>5, <3>2, <4>2
    <3>3. CASE ~crossing(v)
      <4>1. upload'[v] = upload[v] /\ upload[v].owner # a
        BY <2>1, <3>1, <3>3
      <4>2. /\ Cardinality(Kept(image, upload[v].owner)) + 1 <= Quota + upload[v].crossed
            /\ upload[v].crossed <= Cardinality(Taken)
            /\ upload[v].crossed \in Crossings
        BY <4>1, UploadRowFields, ImagesFacts, KeptImages DEF ImagesInv
      <4> QED
        BY <2>3, <2>4, <4>1, <4>2 DEF Crossings
    <3> QED
      BY <3>2, <3>3
  <2>11. PagesInv'
    BY <2>2 DEF ImagesInv, PagesInv
  <2> QED
    BY <2>8, <2>9, <2>10, <2>11 DEF ImagesInv
<1> QED
  BY <1>1, <1>2

LEMMA KeepImageAges == ASSUME ImagesInv, NEW i \in Image, ImageAges(i) PROVE ImagesInv'
<1> DEFINE r == Aged(image[i].owner)
<1>1. /\ image[i].at = "fresh" /\ image' = [image EXCEPT ![i] = r]
      /\ UNCHANGED <<author, page, upload, sweep, faults>>
  BY DEF ImageAges
<1>2. r \in ImageRow(author) /\ r.at = "aged" /\ r.owner = image[i].owner
  <2>1. image[i].owner \in author
    BY <1>1, ImagesFacts, ImageRowFields
  <2> QED
    BY <2>1 DEF Aged, ImageRow
<1> HIDE DEF r
<1>3. /\ image' \in [Image -> ImageRow(author)]
      /\ \A j \in Image : image'[j] = IF j = i THEN r ELSE image[j]
  BY <1>1, <1>2, ImagesFacts
<1>4. SweepInv'
  <2>1. \A j \in Image : AgedOrGone(j, image[j].owner) => image'[j] = image[j]
    BY <1>1, <1>3 DEF AgedOrGone
  <2> QED
    BY <1>1, <2>1, KeepSweep
<1>5. ImagesTypeOK'
  BY <1>1, <1>3, <1>4, ImagesFacts, KeepImageTypes
<1>6. UploadsInv'
  <2>1. \A a \in Author : ImagesOf(a)' \subseteq ImagesOf(a)
    BY <1>1, <1>2, <1>3 DEF ImagesOf, Stored
  <2>2. Taken \subseteq Taken'
    BY <1>2, <1>3 DEF Taken, Unused
  <2> QED
    BY <1>1, <2>1, <2>2, KeepUploads
<1>7. PagesInv'
  BY <1>1 DEF ImagesInv, PagesInv
<1> QED
  BY <1>4, <1>5, <1>6, <1>7 DEF ImagesInv

-----------------------------------------------------------------------------
\* A page that is trashed, restored or removed mentions nothing new.
LEMMA KeepPage ==
  ASSUME ImagesInv, NEW p \in Page, NEW r \in PageRow, page' = [page EXCEPT ![p] = r],
         r.row => page[p].row /\ r.refs = page[p].refs, ~r.row => r.refs = {},
         UNCHANGED <<author, image, upload, sweep, faults>>
  PROVE  ImagesInv'
<1>1. /\ page' \in [Page -> PageRow]
      /\ \A q \in Page : page'[q] = IF q = p THEN r ELSE page[q]
  BY ImagesFacts
<1>2. SweepInv'
  BY <1>1, KeepSweep
<1>3. ImagesTypeOK'
  BY <1>1, <1>2, ImagesFacts, KeepImageTypes
<1>4. UploadsInv'
  BY SameImages, KeepUploads
<1>5. PagesInv'
  BY <1>1 DEF ImagesInv, PagesInv
<1> QED
  BY <1>2, <1>3, <1>4, <1>5 DEF ImagesInv

LEMMA KeepTrashPage == ASSUME ImagesInv, NEW p \in Page, TrashPage(p) PROVE ImagesInv'
<1> DEFINE r == [page[p] EXCEPT !.trashed = TRUE]
<1>1. page[p] \in PageRow /\ page[p].row
  BY ImagesFacts DEF TrashPage
<1>2. r \in PageRow /\ r.row /\ r.refs = page[p].refs
  BY <1>1 DEF PageRow
<1>3. page' = [page EXCEPT ![p] = r] /\ UNCHANGED <<author, image, upload, sweep, faults>>
  BY DEF TrashPage
<1> HIDE DEF r
<1> QED
  BY <1>1, <1>2, <1>3, KeepPage

LEMMA KeepRestorePage == ASSUME ImagesInv, NEW p \in Page, RestorePage(p) PROVE ImagesInv'
<1> DEFINE r == [page[p] EXCEPT !.trashed = FALSE]
<1>1. page[p] \in PageRow /\ (~page[p].row => page[p].refs = {})
  BY ImagesFacts DEF ImagesInv, PagesInv
<1>2. r \in PageRow /\ r.row = page[p].row /\ r.refs = page[p].refs
  BY <1>1 DEF PageRow
<1>3. page' = [page EXCEPT ![p] = r] /\ UNCHANGED <<author, image, upload, sweep, faults>>
  BY DEF RestorePage
<1> HIDE DEF r
<1> QED
  BY <1>1, <1>2, <1>3, KeepPage

LEMMA KeepDestroyPage == ASSUME ImagesInv, NEW p \in Page, DestroyPage(p) PROVE ImagesInv'
<1>1. NoPage \in PageRow /\ ~NoPage.row /\ NoPage.refs = {}
  BY DEF PageRow, NoPage
<1>2. page' = [page EXCEPT ![p] = NoPage] /\ UNCHANGED <<author, image, upload, sweep, faults>>
  BY DEF DestroyPage
<1> QED
  BY <1>1, <1>2, KeepPage

\* A save during the deletions of the sweep: what it mentions anew is late,
\* what it went on mentioning was late already.
LEMMA KeepSavePage ==
  ASSUME ImagesInv, NEW p \in Page, NEW refs \in SUBSET Image, SavePage(p, refs) PROVE ImagesInv'
<1> DEFINE r == [page[p] EXCEPT !.row = TRUE, !.refs = refs]
           late == sweep.late \cup {<<p, i>> : i \in sweep.ids \cap (refs \ page[p].refs)}
<1>1. r \in PageRow /\ r.row /\ r.refs = refs
  BY ImagesFacts DEF PageRow
<1>2. /\ page' = [page EXCEPT ![p] = r]
      /\ sweep' = IF sweep.at # "delete" THEN sweep ELSE [sweep EXCEPT !.late = late]
      /\ UNCHANGED <<author, image, upload, faults>>
  BY DEF SavePage
<1> HIDE DEF r
<1>3. /\ page' \in [Page -> PageRow]
      /\ \A q \in Page : page'[q] = IF q = p THEN r ELSE page[q]
  BY <1>1, <1>2, ImagesFacts
<1>4. SweepInv'
  <2>1. CASE sweep.at # "delete"
    <3>1. sweep' = sweep /\ sweep \in SweepState /\ sweep.at # "delete"
      BY <1>2, <2>1, ImagesFacts
    <3>2. ASSUME sweep.at \in {"scan", "delete"}, NEW i \in sweep.ids PROVE AgedOrGone(i, sweep.user)'
      BY <1>2, <3>1, <3>2 DEF ImagesInv, SweepInv, AgedOrGone
    <3> QED
      BY <3>1, <3>2 DEF SweepInv
  <2>2. CASE sweep.at = "delete"
    <3>1. late \subseteq Page \X Image /\ sweep.ids \subseteq Image /\ sweep.late \subseteq late
      BY <2>2, ImagesFacts, SweepFields
    <3>2. sweep \in [at : {"delete"}, old : SUBSET Image, left : Lefts, users : SUBSET Author,
                     user : Author, ids : SUBSET Image, late : SUBSET (Page \X Image)]
      BY <2>2, ImagesFacts DEF SweepState, Asleep
    <3>3. \A i \in Image : i \in sweep.ids \cap (refs \ page[p].refs) => <<p, i>> \in late
      OBVIOUS
    <3> HIDE DEF late
    <3>4. sweep' = [sweep EXCEPT !.late = late]
      BY <1>2, <2>2
    <3>5. /\ sweep' \in SweepState /\ sweep'.at = "delete" /\ sweep'.ids = sweep.ids
          /\ sweep'.left = sweep.left /\ sweep'.user = sweep.user /\ sweep'.late = late
      BY <3>1, <3>2, <3>4 DEF SweepState
    <3>6. ASSUME NEW i \in sweep.ids PROVE AgedOrGone(i, sweep.user)'
      <4>1. AgedOrGone(i, sweep.user)
        BY <2>2 DEF ImagesInv, SweepInv
      <4> QED
        BY <1>2, <3>5, <4>1 DEF AgedOrGone
    <3>7. ASSUME NEW i \in sweep.ids, NEW q \in PagesOf(sweep.user)', i \in page'[q].refs
          PROVE  <<q, i>> \in late
      <4>1. q \in Page /\ Owner(q) = sweep.user /\ i \in Image
        BY <3>1, <3>5 DEF PagesOf
      <4>2. CASE q # p
        <5>1. q \in PagesOf(sweep.user) /\ i \in page[q].refs
          BY <1>3, <3>5, <3>7, <4>1, <4>2 DEF PagesOf
        <5> QED
          BY <2>2, <3>1, <5>1 DEF ImagesInv, SweepInv
      <4>3. CASE q = p /\ i \in page[p].refs
        <5>1. q \in PagesOf(sweep.user)
          <6>1. page[p].row \in BOOLEAN
            BY ImagesFacts DEF PageRow
          <6> QED
            BY <4>1, <4>3, <6>1 DEF PagesOf, ImagesInv, PagesInv
        <5> QED
          BY <2>2, <3>1, <4>3, <5>1 DEF ImagesInv, SweepInv
      <4>4. CASE q = p /\ i \notin page[p].refs
        BY <1>1, <1>3, <3>3, <3>7, <4>1, <4>4
      <4> QED
        BY <4>2, <4>3, <4>4
    <3>8. Cardinality(sweep.ids) <= sweep.left
      BY <2>2 DEF ImagesInv, SweepInv
    <3> QED
      BY <3>5, <3>6, <3>7, <3>8 DEF SweepInv
  <2> QED
    BY <2>1, <2>2
<1>5. ImagesTypeOK'
  BY <1>2, <1>3, <1>4, ImagesFacts, KeepImageTypes
<1>6. UploadsInv'
  BY <1>2, SameImages, KeepUploads
<1>7. PagesInv'
  BY <1>1, <1>3 DEF ImagesInv, PagesInv
<1> QED
  BY <1>4, <1>5, <1>6, <1>7 DEF ImagesInv

LEMMA KeepDeleteAuthor == ASSUME ImagesInv, NEW a \in Author, DeleteAuthor(a) PROVE ImagesInv'
<1>1. /\ author' = author \ {a} /\ UNCHANGED <<upload, sweep, faults>>
      /\ \A j \in Image : image'[j] = IF j \in ImagesOf(a) THEN Gone ELSE image[j]
      /\ \A q \in Page : page'[q] = IF Owner(q) = a THEN NoPage ELSE page[q]
  BY DEF DeleteAuthor
<1>2. NoPage \in PageRow /\ ~NoPage.row /\ NoPage.refs = {} /\ Gone.at = "gone"
  BY DEF PageRow, NoPage, Gone
<1>3. ASSUME NEW j \in Image PROVE image'[j] \in ImageRow(author')
  <2>1. image[j] \in ImageRow(author)
    BY ImagesFacts
  <2>2. j \notin ImagesOf(a) => image[j] \in ImageRow(author \ {a})
    BY <2>1 DEF ImageRow, ImagesOf, Stored
  <2> QED
    BY <1>1, <2>2 DEF ImageRow
<1>4. image' \in [Image -> ImageRow(author')] /\ page' \in [Page -> PageRow]
  <2>1. /\ image' = [j \in Image |-> IF j \in ImagesOf(a) THEN Gone ELSE image[j]]
        /\ page' = [q \in Page |-> IF Owner(q) = a THEN NoPage ELSE page[q]]
    BY DEF DeleteAuthor
  <2> QED
    BY <1>1, <1>2, <1>3, <2>1, ImagesFacts
<1>5. SweepInv'
  <2>1. \A j \in Image : image'[j] = image[j] \/ image'[j].at = "gone"
    BY <1>1, <1>2
  <2> QED
    BY <1>1, <1>2, <2>1, KeepSweep
<1>6. ImagesTypeOK'
  BY <1>1, <1>4, <1>5, ImagesFacts, KeepImageTypes
<1>7. UploadsInv'
  <2>1. \A b \in Author : ImagesOf(b)' \subseteq ImagesOf(b)
    BY <1>1, <1>2 DEF ImagesOf, Stored
  <2>2. Taken \subseteq Taken'
    BY <1>1 DEF Taken, Unused, Gone
  <2> QED
    BY <1>1, <2>1, <2>2, KeepUploads
<1>8. PagesInv'
  BY <1>1, <1>2 DEF ImagesInv, PagesInv
<1> QED
  BY <1>5, <1>6, <1>7, <1>8 DEF ImagesInv

-----------------------------------------------------------------------------
(* The sweep.                                                              *)

\* The first n of a set of images are at most n.
LEMMA OldestAreFew ==
  ASSUME NEW S \in SUBSET Image, NEW n \in Nat
  PROVE  /\ Oldest(S, n) \subseteq S /\ IsFiniteSet(Oldest(S, n))
         /\ Cardinality(Oldest(S, n)) \in Nat /\ Cardinality(Oldest(S, n)) <= n
<1> DEFINE Below(i) == {j \in S : j < i}
           T == Oldest(S, n)
           f == [i \in T |-> Cardinality(Below(i))]
<1>1. T \subseteq S /\ T \in SUBSET Image /\ \A i \in T : Cardinality(Below(i)) < n
  BY DEF Oldest
<1>2. \A i \in Image : IsFiniteSet(Below(i)) /\ Cardinality(Below(i)) \in Nat
  <2>1. \A i \in Image : Below(i) \in SUBSET Image
    OBVIOUS
  <2> QED
    BY <2>1, ImagesAreFinite
<1>3. ASSUME NEW i \in T, NEW k \in T, i < k PROVE Cardinality(Below(i)) < Cardinality(Below(k))
  <2>1. Below(i) \in SUBSET Below(k) /\ i \in Below(k) /\ i \notin Below(i)
    <3>1. i \in S /\ i \in Nat /\ k \in Nat /\ S \subseteq Nat
      BY <1>1 DEF Image
    <3>2. \A j \in S : j < i => j < k
      BY <1>3, <3>1
    <3>3. Below(i) \subseteq Below(k)
      BY <3>2
    <3> QED
      BY <1>3, <3>1, <3>3
  <2>2. i \in Image /\ k \in Image
    BY <1>1
  <2>3. IsFiniteSet(Below(k)) /\ Cardinality(Below(i)) \in Nat /\ Cardinality(Below(k)) \in Nat
    BY <1>2, <2>2
  <2> HIDE DEF Below
  <2>4. /\ Cardinality(Below(i)) <= Cardinality(Below(k))
        /\ Cardinality(Below(i)) # Cardinality(Below(k))
    BY <2>1, <2>3, FS_Subset
  <2> QED
    BY <2>3, <2>4
<1>4. f \in Injection(T, 0 .. n - 1)
  <2>1. \A i \in T : f[i] = Cardinality(Below(i)) /\ f[i] \in Nat /\ f[i] < n
    BY <1>1, <1>2
  <2>2. f \in [T -> 0 .. n - 1]
    <3>1. \A i \in T : Cardinality(Below(i)) \in 0 .. n - 1
      BY <1>1, <1>2
    <3> QED
      BY <3>1
  <2>3. ASSUME NEW i \in T, NEW k \in T, f[i] = f[k] PROVE i = k
    <3>1. i \in Nat /\ k \in Nat
      BY <1>1 DEF Image
    <3>2. ~(i < k) /\ ~(k < i)
      BY <1>3, <2>1, <2>3
    <3> QED
      BY <3>1, <3>2
  <2> HIDE DEF f
  <2> QED
    BY <2>2, <2>3 DEF Injection, IsInjective
<1>5. IsFiniteSet(0 .. n - 1) /\ Cardinality(0 .. n - 1) = n
  BY FS_Interval
<1> HIDE DEF f, T
<1>6. IsFiniteSet(T) /\ Cardinality(T) <= n
  BY <1>4, <1>5, FS_Injection
<1>7. Cardinality(T) \in Nat
  BY <1>6, FS_CardinalityType
<1> QED
  BY <1>1, <1>6, <1>7 DEF T

\* With the next user, or at the end of the pass.
LEMMA NextUserFields ==
  ASSUME NEW s, s.old \subseteq Image, s.users \subseteq Author, NEW left \in 0 .. Batch
  PROVE  NextUser(s, left) \in SweepState /\ NextUser(s, left).at \in {"asleep", "user"}
<1>1. Batch \in Nat
  BY ImagesAssumption
<1>2. CASE s.users = {} \/ left = 0
  BY <1>2 DEF NextUser, SweepState, Asleep
<1>3. CASE ~(s.users = {} \/ left = 0)
  <2>1. left \in Lefts
    BY <1>1, <1>3 DEF Lefts
  <2> QED
    BY <1>3, <2>1 DEF NextUser, SweepState
<1> QED
  BY <1>2, <1>3

\* The steps of the sweep that only read, or fail.
LEMMA KeepSweepReads ==
  ASSUME ImagesInv, SweepInv', faults' \in 0 .. MaxFaults, UNCHANGED <<author, image, page, upload>>
  PROVE  ImagesInv'
<1>1. ImagesTypeOK'
  BY ImagesFacts, KeepImageTypes
<1>2. UploadsInv'
  BY SameImages, KeepUploads
<1>3. PagesInv'
  BY DEF ImagesInv, PagesInv
<1> QED
  BY <1>1, <1>2, <1>3 DEF ImagesInv

LEMMA Resting ==
  ASSUME sweep' \in SweepState, sweep'.at \in {"asleep", "user"}
  PROVE  SweepInv'
  BY DEF SweepInv

LEMMA KeepSweepUsers == ASSUME ImagesInv, SweepUsers PROVE ImagesInv'
<1> DEFINE old == UNION {AgedOf(a) : a \in Author}
           users == {image[i].owner : i \in old}
<1>1. /\ sweep' = [at |-> "user", old |-> old, left |-> Batch, users |-> users]
      /\ UNCHANGED <<author, image, page, upload, faults>>
  BY DEF SweepUsers
<1>2. old \subseteq Image /\ users \subseteq Author
  BY DEF AgedOf, ImagesOf
<1>3. Batch \in Lefts
  BY ImagesAssumption DEF Lefts
<1> HIDE DEF old, users
<1>4. sweep' \in SweepState /\ sweep'.at = "user"
  BY <1>1, <1>2, <1>3 DEF SweepState
<1> QED
  BY <1>1, <1>4, Resting, KeepSweepReads, ImagesFacts

LEMMA KeepSweepFails == ASSUME ImagesInv, SweepFails PROVE ImagesInv'
<1>1. sweep' = Asleep /\ UNCHANGED <<author, image, page, upload>>
  BY DEF SweepFails
<1>2. faults' \in 0 .. MaxFaults
  <2>1. faults \in 0 .. MaxFaults /\ faults < MaxFaults /\ faults' = faults + 1 /\ MaxFaults \in Nat
    BY ImagesFacts, ImagesAssumption DEF SweepFails
  <2> QED
    BY <2>1
<1>3. sweep' \in SweepState /\ sweep'.at = "asleep"
  BY <1>1 DEF SweepState, Asleep
<1> QED
  BY <1>1, <1>2, <1>3, Resting, KeepSweepReads

LEMMA KeepSweepCandidates ==
  ASSUME ImagesInv, NEW a \in Author, SweepCandidates(a) PROVE ImagesInv'
<1> DEFINE rest == [sweep EXCEPT !.users = @ \ {a}]
           ids == Candidates(a)
           scan == [at |-> "scan", old |-> rest.old, left |-> rest.left, users |-> rest.users,
                    user |-> a, ids |-> ids]
<1>1. /\ sweep.at = "user"
      /\ sweep' = IF ids = {} THEN NextUser(rest, sweep.left) ELSE scan
      /\ UNCHANGED <<author, image, page, upload, faults>>
  BY DEF SweepCandidates
<1>2. sweep \in [at : {"user"}, old : SUBSET Image, left : Lefts, users : SUBSET Author]
  BY <1>1, ImagesFacts DEF SweepState, Asleep
<1>3. rest.old \subseteq Image /\ rest.users \subseteq Author /\ rest.left \in Lefts
  BY <1>2
<1>4. ids \subseteq Image /\ \A i \in ids : AgedOrGone(i, a)
  <2>1. sweep.old \subseteq Image
    BY <1>2
  <2> QED
    BY <2>1 DEF Candidates, AgedOf, ImagesOf, AgedOrGone
<1> HIDE DEF ids, rest
<1>5. SweepInv'
  <2>1. CASE ids = {}
    <3>1. sweep.left \in 0 .. Batch
      BY <1>2, ImagesAssumption DEF Lefts
    <3> QED
      BY <1>1, <1>3, <2>1, <3>1, NextUserFields, Resting
  <2>2. CASE ids # {}
    <3>1. /\ sweep' \in SweepState /\ sweep'.at = "scan" /\ sweep'.ids = ids /\ sweep'.user = a
      BY <1>1, <1>3, <1>4, <2>2 DEF SweepState
    <3>2. \A i \in ids : AgedOrGone(i, a)'
      BY <1>1, <1>4 DEF AgedOrGone
    <3>3. \A i \in sweep'.ids : AgedOrGone(i, sweep.user)'
      BY <3>1, <3>2 DEF AgedOrGone
    <3> QED
      BY <3>1, <3>3 DEF SweepInv
  <2> QED
    BY <2>1, <2>2
<1> QED
  BY <1>1, <1>5, KeepSweepReads, ImagesFacts

LEMMA KeepSweepScan == ASSUME ImagesInv, SweepScan PROVE ImagesInv'
<1> DEFINE a == sweep.user
           orphans == sweep.ids \ UNION {page[p].refs : p \in Scanned(a)}
           ids == Oldest(orphans, sweep.left)
           delete == [at |-> "delete", old |-> sweep.old, left |-> sweep.left,
                      users |-> sweep.users, user |-> a, ids |-> ids, late |-> {}]
<1>1. /\ sweep.at = "scan"
      /\ sweep' = IF orphans = {} THEN NextUser(sweep, sweep.left) ELSE delete
      /\ UNCHANGED <<author, image, page, upload, faults>>
  BY DEF SweepScan
<1>2. /\ sweep.old \subseteq Image /\ sweep.users \subseteq Author /\ sweep.left \in Lefts
      /\ a \in Author /\ sweep.ids \subseteq Image
  BY <1>1, ImagesFacts, SweepFields DEF Asleep
<1>3. sweep.left \in 0 .. Batch /\ sweep.left \in Nat
  BY <1>2, ImagesAssumption DEF Lefts
<1>4. orphans \in SUBSET Image /\ orphans \subseteq sweep.ids
  BY <1>2
<1>5. \A i \in orphans, p \in PagesOf(a) : i \notin page[p].refs
  BY DEF Scanned
<1> HIDE DEF orphans
<1>6. ids \subseteq orphans /\ ids \subseteq Image /\ Cardinality(ids) <= sweep.left
  BY <1>3, <1>4, OldestAreFew
<1> HIDE DEF ids
<1>7. SweepInv'
  <2>1. CASE orphans = {}
    BY <1>1, <1>2, <1>3, <2>1, NextUserFields, Resting
  <2>2. CASE orphans # {}
    <3>1. /\ sweep' \in SweepState /\ sweep'.at = "delete" /\ sweep'.ids = ids
          /\ sweep'.left = sweep.left /\ sweep'.user = sweep.user
      BY <1>1, <1>2, <1>6, <2>2 DEF SweepState
    <3>2. ASSUME NEW i \in ids PROVE AgedOrGone(i, sweep.user)'
      <4>1. AgedOrGone(i, sweep.user)
        BY <1>1, <1>4, <1>6 DEF ImagesInv, SweepInv
      <4> QED
        BY <1>1, <3>1, <4>1 DEF AgedOrGone
    <3>3. ASSUME NEW i \in ids, NEW p \in PagesOf(sweep.user)' PROVE i \notin page'[p].refs
      <4>1. p \in PagesOf(sweep.user)
        BY <1>1, <3>1 DEF PagesOf
      <4> QED
        BY <1>1, <1>5, <1>6, <4>1
    <3>4. Cardinality(sweep'.ids) <= sweep'.left
      BY <1>6, <3>1
    <3> QED
      BY <3>1, <3>2, <3>3, <3>4 DEF SweepInv
  <2> QED
    BY <2>1, <2>2
<1> QED
  BY <1>1, <1>7, KeepSweepReads, ImagesFacts

\* A chunk is deleted; what is left of the pass is enough for the others.
LEMMA KeepSweepDelete == ASSUME ImagesInv, SweepDelete PROVE ImagesInv'
<1> DEFINE a == sweep.user
           chunk == Oldest(sweep.ids, Chunk)
           hit == chunk \cap ImagesOf(a)
           rest == sweep.ids \ chunk
           left == sweep.left - Cardinality(hit)
<1>1. /\ sweep.at = "delete"
      /\ image' = [i \in Image |-> IF i \in hit THEN Gone ELSE image[i]]
      /\ sweep' = IF sweep.ids = chunk THEN NextUser(sweep, left)
                  ELSE [sweep EXCEPT !.ids = rest, !.left = left]
      /\ UNCHANGED <<author, page, upload, faults>>
  BY DEF SweepDelete
<1>2. /\ sweep.old \subseteq Image /\ sweep.users \subseteq Author /\ sweep.left \in Lefts
      /\ a \in Author /\ sweep.ids \in SUBSET Image
  BY <1>1, ImagesFacts, SweepFields DEF Asleep
<1>3. chunk \subseteq sweep.ids /\ hit \subseteq chunk
  BY DEF Oldest
<1>4. /\ Cardinality(sweep.ids) <= sweep.left
      /\ sweep.left \in Nat /\ sweep.left <= Batch /\ Batch \in Nat
  BY <1>1, <1>2, ImagesAssumption DEF ImagesInv, SweepInv, Lefts
<1> HIDE DEF chunk
<1>5. /\ IsFiniteSet(sweep.ids) /\ IsFiniteSet(chunk) /\ IsFiniteSet(hit) /\ IsFiniteSet(rest)
      /\ Cardinality(rest) = Cardinality(sweep.ids) - Cardinality(chunk)
      /\ Cardinality(hit) <= Cardinality(chunk)
  <2>1. IsFiniteSet(sweep.ids)
    BY <1>2, ImagesAreFinite
  <2>2. IsFiniteSet(chunk) /\ sweep.ids \cap chunk = chunk
    BY <1>3, <2>1, FS_Subset
  <2>3. IsFiniteSet(rest) /\ Cardinality(rest) = Cardinality(sweep.ids) - Cardinality(chunk)
    BY <2>1, <2>2, FS_Difference
  <2>4. hit \in SUBSET chunk
    BY <1>3
  <2> HIDE DEF hit
  <2>5. IsFiniteSet(hit) /\ Cardinality(hit) <= Cardinality(chunk)
    BY <2>2, <2>4, FS_Subset
  <2> QED
    BY <2>1, <2>2, <2>3, <2>5
<1>6. /\ Cardinality(sweep.ids) \in Nat /\ Cardinality(chunk) \in Nat
      /\ Cardinality(hit) \in Nat /\ Cardinality(rest) \in Nat
  BY <1>5, FS_CardinalityType
<1>7. rest # {} => Cardinality(rest) # 0
  BY <1>5, FS_EmptySet
<1>8. rest = {} <=> sweep.ids = chunk
  BY <1>3
<1>9. hit \subseteq ImagesOf(a) /\ rest \cap hit = {} /\ rest \subseteq sweep.ids
  BY <1>3
<1> HIDE DEF hit, rest
<1>10. left \in 0 .. Batch /\ Cardinality(rest) <= left
  BY <1>4, <1>5, <1>6
<1>11. rest # {} => left \in Lefts
  BY <1>6, <1>7, <1>10, <1>4 DEF Lefts
<1> HIDE DEF left
<1>12. \A i \in Image : image'[i] = IF i \in hit THEN Gone ELSE image[i]
  BY <1>1
<1>13. SweepInv'
  <2>1. CASE rest = {}
    BY <1>1, <1>2, <1>8, <1>10, <2>1, NextUserFields, Resting
  <2>2. CASE rest # {}
    <3>1. sweep \in [at : {"delete"}, old : SUBSET Image, left : Lefts, users : SUBSET Author,
                     user : Author, ids : SUBSET Image, late : SUBSET (Page \X Image)]
      BY <1>1, ImagesFacts DEF SweepState, Asleep
    <3>2. sweep' = [sweep EXCEPT !.ids = rest, !.left = left] /\ left \in Lefts /\ rest \subseteq Image
      BY <1>1, <1>2, <1>8, <1>9, <1>11, <2>2
    <3>3. /\ sweep' \in SweepState /\ sweep'.at = "delete" /\ sweep'.ids = rest
          /\ sweep'.left = left /\ sweep'.user = sweep.user /\ sweep'.late = sweep.late
      BY <3>1, <3>2 DEF SweepState
    <3>4. ASSUME NEW i \in rest PROVE AgedOrGone(i, sweep.user)'
      <4>1. AgedOrGone(i, sweep.user) /\ i \in Image /\ i \notin hit
        BY <1>1, <1>9, <3>2 DEF ImagesInv, SweepInv
      <4> QED
        BY <1>12, <3>3, <4>1 DEF AgedOrGone
    <3>5. ASSUME NEW i \in rest, NEW p \in PagesOf(sweep.user)', i \in page'[p].refs
          PROVE  <<p, i>> \in sweep.late
      <4>1. p \in PagesOf(sweep.user) /\ i \in page[p].refs /\ i \in sweep.ids
        BY <1>1, <1>9, <3>3, <3>5 DEF PagesOf
      <4> QED
        BY <1>1, <4>1 DEF ImagesInv, SweepInv
    <3> QED
      BY <1>10, <3>3, <3>4, <3>5 DEF SweepInv
  <2> QED
    BY <2>1, <2>2
<1>14. image' \in [Image -> ImageRow(author')]
  <2>1. Gone \in ImageRow(author)
    BY DEF ImageRow
  <2> QED
    BY <1>1, <2>1, ImagesFacts
<1>15. ImagesTypeOK'
  BY <1>1, <1>13, <1>14, ImagesFacts, KeepImageTypes
<1>16. UploadsInv'
  <2>1. \A b \in Author : ImagesOf(b)' \subseteq ImagesOf(b)
    BY <1>12 DEF ImagesOf, Stored, Gone
  <2>2. Taken \subseteq Taken'
    BY <1>12 DEF Taken, Unused, Gone
  <2> QED
    BY <1>1, <2>1, <2>2, KeepUploads
<1>17. PagesInv'
  BY <1>1 DEF ImagesInv, PagesInv
<1> QED
  BY <1>13, <1>15, <1>16, <1>17 DEF ImagesInv

-----------------------------------------------------------------------------
LEMMA ImagesStart == ImagesInit => ImagesInv
<1> SUFFICES ASSUME ImagesInit PROVE ImagesInv
  OBVIOUS
<1>1. /\ NoPage \in PageRow /\ ~NoPage.row /\ NoPage.refs = {} /\ Unused \in ImageRow(author)
      /\ NoUpload \in UploadRow /\ NoUpload.at = "free"
  BY DEF PageRow, NoPage, ImageRow, UploadRow, NoUpload
<1>2. sweep \in SweepState /\ sweep.at = "asleep" /\ sweep = Asleep
  BY DEF ImagesInit, SweepState, Asleep
<1>3. 0 \in 0 .. MaxFaults
  BY ImagesAssumption
<1>4. ImagesTypeOK
  BY <1>1, <1>2, <1>3, ImagesTypes DEF ImagesInit
<1> QED
  BY <1>1, <1>2, <1>4 DEF ImagesInit, ImagesInv, UploadsInv, PagesInv, SweepInv

LEMMA ImagesStep == ImagesInv /\ [ImagesNext]_imagesVars => ImagesInv'
<1> SUFFICES ASSUME ImagesInv, [ImagesNext]_imagesVars PROVE ImagesInv'
  OBVIOUS
<1>1. ASSUME NEW u \in Upload, UploadInsert(u) PROVE ImagesInv'
  BY <1>1, KeepUploadInsert
<1>2. ASSUME NEW u \in Upload, UploadCancelled(u) PROVE ImagesInv'
  BY <1>2, KeepUploadEnds DEF UploadCancelled
<1>3. ASSUME NEW u \in Upload, NEW a \in Author, UploadCheck(u, a) PROVE ImagesInv'
  BY <1>3, KeepUploadCheck
<1>4. ASSUME NEW i \in Image, ImageAges(i) PROVE ImagesInv'
  BY <1>4, KeepImageAges
<1>5. ASSUME NEW p \in Page, TrashPage(p) \/ RestorePage(p) \/ DestroyPage(p) PROVE ImagesInv'
  BY <1>5, KeepTrashPage, KeepRestorePage, KeepDestroyPage
<1>6. ASSUME NEW p \in Page, NEW refs \in SUBSET Image, SavePage(p, refs) PROVE ImagesInv'
  BY <1>6, KeepSavePage
<1>7. ASSUME NEW a \in Author, DeleteAuthor(a) PROVE ImagesInv'
  BY <1>7, KeepDeleteAuthor
<1>8. ASSUME Sweep PROVE ImagesInv'
  BY <1>8, KeepSweepUsers, KeepSweepScan, KeepSweepDelete, KeepSweepCandidates DEF Sweep
<1>9. ASSUME SweepFails PROVE ImagesInv'
  BY <1>9, KeepSweepFails
<1>10. ASSUME UNCHANGED imagesVars PROVE ImagesInv'
  <2>1. UNCHANGED <<author, image, page, upload, sweep, faults>>
    BY <1>10 DEF imagesVars
  <2>2. SweepInv'
    BY <2>1, KeepSweep
  <2> QED
    BY <2>1, <2>2, KeepSweepReads, ImagesFacts
<1> QED
  BY <1>1, <1>2, <1>3, <1>4, <1>5, <1>6, <1>7, <1>8, <1>9, <1>10 DEF ImagesNext

LEMMA ImagesInvariant == ImagesSpec => []ImagesInv
  BY ImagesStart, ImagesStep, PTL DEF ImagesSpec

\* Images, notes, uploads and the sweep's bookkeeping always have their types
\* (backend/internal/images), and no image is kept for a user who is gone.
THEOREM ImagesTypeCorrect == ImagesSpec => []ImagesTypeOK
<1>1. ImagesInv => ImagesTypeOK
  BY DEF ImagesInv
<1> QED
  BY <1>1, ImagesInvariant, PTL

\* However many uploads run at the same time, one that is stored beyond the
\* quota is beyond it by no more than other uploads of the user have stored since
\* it was found to have room (handler.go:157).
THEOREM UploadsKeepTheQuota == ImagesSpec => OverrunsAreCrossings
<1>1. ASSUME ImagesInv, [ImagesNext]_imagesVars, NEW u \in Upload, NEW a \in Author,
             upload[u].at = "insert", upload[u].owner = a, upload'[u] = NoUpload,
             ImagesOf(a)' # ImagesOf(a)
      PROVE  Cardinality(ImagesOf(a)') <= Quota + upload[u].crossed
  <2>1. a \in Author /\ upload[u] # NoUpload /\ upload[u].crossed \in Nat
    BY <1>1, ImagesFacts, UploadRowFields DEF Crossings
  <2>2. /\ Cardinality(ImagesOf(a)) + 1 <= Quota + upload[u].crossed
        /\ Cardinality(ImagesOf(a)) \in Nat /\ Quota \in Nat
    <3>1. ImagesOf(a) \in SUBSET Image
      BY DEF ImagesOf
    <3> QED
      BY <1>1, <3>1, ImagesAreFinite, ImagesAssumption DEF ImagesInv, UploadsInv
  <2>3. upload'[u] # upload[u]
    BY <1>1, <2>1
  <2>4. image' # image
    BY <1>1 DEF ImagesOf, Stored
  <2>5. PICK v \in Upload : UploadInsert(v)
    BY <1>1, <2>3, <2>4 DEF ImagesNext, imagesVars, UploadCheck, UploadCancelled, ImageAges, TrashPage,
         RestorePage, DestroyPage, SavePage, DeleteAuthor, Sweep, SweepUsers, SweepScan, SweepDelete,
         SweepCandidates, SweepFails
  <2>6. PICK i \in Image :
          /\ upload[v].owner \in author
          /\ image[i] = Unused /\ image' = [image EXCEPT ![i] = Fresh(upload[v].owner)]
    BY <2>4, <2>5 DEF UploadInsert
  <2>7. /\ Cardinality(Kept(image', upload[v].owner)) = Cardinality(Kept(image, upload[v].owner)) + 1
        /\ \A b : b # upload[v].owner => Kept(image', b) = Kept(image, b)
    BY <1>1, <2>6, StoredImages
  <2>8. ImagesOf(a) = Kept(image, a) /\ ImagesOf(a)' = Kept(image', a)
    BY DEF ImagesOf, Stored, Kept
  <2>9. a = upload[v].owner
    BY <1>1, <2>7, <2>8
  <2> QED
    BY <2>1, <2>2, <2>7, <2>8, <2>9
<1>2. ImagesInv /\ [ImagesNext]_imagesVars =>
        [\A u \in Upload, a \in Author :
           (upload[u].at = "insert" /\ upload[u].owner = a /\ upload'[u] = NoUpload
              /\ ImagesOf(a)' # ImagesOf(a)) =>
             Cardinality(ImagesOf(a)') <= Quota + upload[u].crossed]_imagesVars
  BY <1>1
<1> QED
  BY <1>2, ImagesInvariant, PTL DEF ImagesSpec, OverrunsAreCrossings

\* Whatever is written while the sweep runs, it deletes no image that its owner's
\* notes mention, trashed ones included, but for mentions saved after the
\* sweep has read the notes (sweep.go:67), and none within its grace period.
THEOREM SweepKeepsTheMentioned == ImagesSpec => MentionedImagesStay
<1>1. ASSUME ImagesInv, [ImagesNext]_imagesVars, NEW i \in Image, Stored(i),
             image[i].owner \in author', image'[i] = Gone
      PROVE  /\ image[i].at = "aged"
             /\ \A p \in PagesOf(image[i].owner) : i \in page[p].refs => <<p, i>> \in sweep.late
  <2>1. image'[i] # image[i]
    BY <1>1 DEF Stored, Gone
  <2>2. Gone.at = "gone" /\ image[i].at # "unused"
    BY <1>1 DEF Stored, Gone
  <2>3. SweepDelete
    <3>1. ASSUME NEW u \in Upload, UploadInsert(u) PROVE FALSE
      <4>1. PICK j \in Image : image[j] = Unused
                                 /\ image' = [image EXCEPT ![j] = Fresh(upload[u].owner)]
        BY <2>1, <3>1 DEF UploadInsert
      <4>2. j # i
        BY <2>2, <4>1 DEF Unused
      <4> QED
        BY <1>1, <2>1, <4>1, <4>2, ImagesFacts
    <3>2. ASSUME NEW j \in Image, ImageAges(j) PROVE FALSE
      <4>1. image' = [image EXCEPT ![j] = Aged(image[j].owner)] /\ Aged(image[j].owner).at = "aged"
        BY <3>2 DEF ImageAges, Aged
      <4> QED
        BY <1>1, <2>1, <2>2, <4>1, ImagesFacts
    <3>3. ASSUME NEW a \in Author, DeleteAuthor(a) PROVE FALSE
      <4>1. i \in ImagesOf(a) /\ author' = author \ {a}
        BY <2>1, <3>3 DEF DeleteAuthor
      <4> QED
        BY <1>1, <4>1 DEF ImagesOf
    <3> QED
      BY <1>1, <2>1, <3>1, <3>2, <3>3 DEF ImagesNext, imagesVars, UploadCheck, UploadCancelled, TrashPage,
           RestorePage, DestroyPage, SavePage, Sweep, SweepUsers, SweepScan, SweepCandidates, SweepFails
  <2>4. sweep.at = "delete" /\ i \in sweep.ids /\ i \in ImagesOf(sweep.user)
    BY <2>1, <2>3 DEF SweepDelete, Oldest
  <2>5. image[i].owner = sweep.user
    BY <2>4 DEF ImagesOf
  <2>6. image[i].at = "aged"
    BY <1>1, <2>4 DEF ImagesInv, SweepInv, AgedOrGone, Stored
  <2> QED
    BY <1>1, <2>4, <2>5, <2>6 DEF ImagesInv, SweepInv
<1>2. ImagesInv /\ [ImagesNext]_imagesVars =>
        [\A i \in Image :
           (Stored(i) /\ image[i].owner \in author' /\ image'[i] = Gone) =>
             /\ image[i].at = "aged"
             /\ \A p \in PagesOf(image[i].owner) : i \in page[p].refs => <<p, i>> \in sweep.late]_imagesVars
  BY <1>1
<1> QED
  BY <1>2, ImagesInvariant, PTL DEF ImagesSpec, MentionedImagesStay

-----------------------------------------------------------------------------
\* The shelves share no variable (each package writes its own tables), so a
\* behaviour of MCLibrary is one of each of them.
THEOREM ShelvesStandApart == Spec => PinsSpec /\ ImagesSpec /\ TagsSpec /\ ExportSpec
<1>1. Init => PinsInit /\ ImagesInit /\ TagsInit /\ ExportInit
  BY DEF Init
<1>2. [Next]_vars => [PinsNext]_pinVars
  BY DEF Next, vars
<1>3. [Next]_vars => [ImagesNext]_imagesVars
  BY DEF Next, vars
<1>4. [Next]_vars => [TagsNext]_tagsVars
  BY DEF Next, vars
<1>5. [Next]_vars => [ExportNext]_exportVars
  BY DEF Next, vars
<1> QED
  BY <1>1, <1>2, <1>3, <1>4, <1>5, PTL DEF Spec, PinsSpec, ImagesSpec, TagsSpec, ExportSpec

\* Slots, images, links and archives are well formed, whatever their handlers do.
THEOREM LibraryTypeCorrect == Spec => []TypeOK
<1>1. PinsTypeOK /\ ImagesTypeOK /\ TagsTypeOK /\ ExportTypeOK => TypeOK
  BY DEF TypeOK
<1> QED
  BY <1>1, ShelvesStandApart, PinsTypeCorrect, ImagesTypeCorrect, TagsTypeCorrect, ExportTypeCorrect, PTL
=============================================================================
