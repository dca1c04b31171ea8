------------------------------- MODULE Tags -------------------------------
(***************************************************************************)
(* Tags and the links between tags and notes (backend/internal/tags).      *)
(* Adding a tag to a note reads the note's user, reads the tag and inserts *)
(* the link, taking one off reads the note's user and deletes the link:    *)
(* statements of their own, between which notes, tags and users go away    *)
(* and new ones are created.                                               *)
(***************************************************************************)
EXTENDS Naturals, FiniteSets

CONSTANTS
  Person,    \* users
  Memo,      \* ids of notes
  TagId,     \* ids of tags
  TagName,
  Link       \* slots for requests on links running at the same time

ASSUME TagsAssumption == IsFiniteSet(Memo) /\ IsFiniteSet(TagId) /\ Memo \cap TagId = {}

VARIABLES person, memo, tag, used, links, link

tagsVars == <<person, memo, tag, used, links, link>>

\* A row is its user, a tag's with its name; `none' when there is none.
None == [owner |-> "none"]
NoLink == [at |-> "free"]

TagsInit ==
  /\ person = Person
  /\ memo = [m \in Memo |-> None]
  /\ tag = [t \in TagId |-> None]
  /\ used = {}
  /\ links = {}
  /\ link = [l \in Link |-> NoLink]

Notes(p)  == {m \in Memo : memo[m] # None /\ memo[m].owner = p}
TagsOf(p) == {t \in TagId : tag[t] # None /\ tag[t].owner = p}

\* UNIQUE(user_id, name).
NameTaken(p, name, except) == \E t \in TagsOf(p) \ except : tag[t].name = name

-----------------------------------------------------------------------------
(* Single statements.                                                      *)

\* Faulty variant: the id of a deleted row is handed out again.
Free_Reused(id) == IF id \in Memo THEN memo[id] = None ELSE tag[id] = None

\* AUTOINCREMENT: an id is never handed out twice.
Free(id) == id \notin used

CreateMemo(p, m) ==
  /\ p \in person /\ Free(m)
  /\ memo' = [memo EXCEPT ![m] = [owner |-> p]]
  /\ used' = used \cup {m}
  /\ UNCHANGED <<person, tag, links, link>>

CreateTag(p, t, name) ==
  /\ p \in person /\ Free(t) /\ ~NameTaken(p, name, {})
  /\ tag' = [tag EXCEPT ![t] = [owner |-> p, name |-> name]]
  /\ used' = used \cup {t}
  /\ UNCHANGED <<person, memo, links, link>>

RenameTag(p, t, name) ==
  /\ p \in person /\ t \in TagsOf(p) /\ ~NameTaken(p, name, {t})
  /\ tag' = [tag EXCEPT ![t].name = name]
  /\ UNCHANGED <<person, memo, used, links, link>>

\* ON DELETE CASCADE of note_tags, and of users.
DeleteMemo(m) ==
  /\ memo[m] # None
  /\ memo' = [memo EXCEPT ![m] = None]
  /\ links' = {k \in links : k[1] # m}
  /\ UNCHANGED <<person, tag, used, link>>

DeleteTag(p, t) ==
  /\ p \in person /\ t \in TagsOf(p)
  /\ tag' = [tag EXCEPT ![t] = None]
  /\ links' = {k \in links : k[2] # t}
  /\ UNCHANGED <<person, memo, used, link>>

DeletePerson(p) ==
  /\ p \in person
  /\ person' = person \ {p}
  /\ memo' = [m \in Memo |-> IF m \in Notes(p) THEN None ELSE memo[m]]
  /\ tag' = [t \in TagId |-> IF t \in TagsOf(p) THEN None ELSE tag[t]]
  /\ links' = {k \in links : k[1] \notin Notes(p) /\ k[2] \notin TagsOf(p)}
  /\ UNCHANGED <<used, link>>

-----------------------------------------------------------------------------
(* AddToNote and RemoveFromNote, statement by statement.                   *)

\* SELECT user_id FROM notes: any id may be asked for.
LinkFindNote(l, p, op, m, t) ==
  /\ link[l] = NoLink /\ p \in person
  /\ m \in Notes(p)
  /\ link' = [link EXCEPT ![l] = [at |-> IF op = "add" THEN "tag" ELSE "delete",
                                  user |-> p, memo |-> m, tag |-> t]]
  /\ UNCHANGED <<person, memo, tag, used, links>>

\* FindByID.
LinkFindTag(l) ==
  /\ link[l].at = "tag"
  /\ link' = [link EXCEPT ![l] = IF link[l].tag \in TagsOf(link[l].user)
                                   THEN [@ EXCEPT !.at = "insert"] ELSE NoLink]
  /\ UNCHANGED <<person, memo, tag, used, links>>

\* INSERT OR IGNORE: nothing is said of the users, the foreign keys only ask
\* for the two rows, and fail when one is gone.
LinkInsert(l) ==
  /\ link[l].at = "insert"
  /\ links' = IF memo[link[l].memo] # None /\ tag[link[l].tag] # None
                THEN links \cup {<<link[l].memo, link[l].tag>>} ELSE links
  /\ link' = [link EXCEPT ![l] = NoLink]
  /\ UNCHANGED <<person, memo, tag, used>>

LinkDelete(l) ==
  /\ link[l].at = "delete"
  /\ links' = links \ {<<link[l].memo, link[l].tag>>}
  /\ link' = [link EXCEPT ![l] = NoLink]
  /\ UNCHANGED <<person, memo, tag, used>>

\* The client goes away.
LinkCancelled(l) ==
  /\ link[l] # NoLink
  /\ link' = [link EXCEPT ![l] = NoLink]
  /\ UNCHANGED <<person, memo, tag, used, links>>

TagsNext ==
  \/ \E p \in Person :
       \/ DeletePerson(p)
       \/ \E m \in Memo : CreateMemo(p, m)
       \/ \E t \in TagId :
            DeleteTag(p, t) \/ \E name \in TagName : CreateTag(p, t, name) \/ RenameTag(p, t, name)
       \/ \E l \in Link, op \in {"add", "remove"}, m \in Memo, t \in TagId :
            LinkFindNote(l, p, op, m, t)
  \/ \E m \in Memo : DeleteMemo(m)
  \/ \E l \in Link : LinkFindTag(l) \/ LinkInsert(l) \/ LinkDelete(l) \/ LinkCancelled(l)

TagsSpec == TagsInit /\ [][TagsNext]_tagsVars

-----------------------------------------------------------------------------
(* Properties.                                                             *)

TagsTypeOK ==
  /\ person \subseteq Person
  /\ memo \in [Memo -> {None} \cup [owner : person]]
  /\ tag \in [TagId -> {None} \cup [owner : person, name : TagName]]
  /\ used \subseteq Memo \cup TagId
  /\ links \subseteq Memo \X TagId
  /\ link \in [Link -> {NoLink} \cup
       [at : {"tag", "insert", "delete"}, user : Person, memo : Memo, tag : TagId]]

\* A link joins a note and a tag of the same user, whatever has been deleted
\* and created between the checks and the insert (repository.go:114-133).
LinksStayWithAUser ==
  \A k \in links : \E p \in person : k[1] \in Notes(p) /\ k[2] \in TagsOf(p)
=============================================================================
