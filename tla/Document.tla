------------------------------ MODULE Document ------------------------------
(***************************************************************************)
(* The index document of server/document.js as a value: what normalize()   *)
(* keeps, how far the document reaches (its exposure), which rows of the   *)
(* side tables and of the full-text table it gives rise to, and the two    *)
(* independent tests of who may see it - canView() in server/api/query.js, *)
(* written in JavaScript over the stored document, and the SQL predicate   *)
(* of server/engine/pg.js, written over the row and the doc_acl table.     *)
(***************************************************************************)
EXTENDS Integers

CONSTANTS
  Owners,        \* services that publish documents
  Ids,           \* <type>/<id> inside one owner
  Subjects,      \* people and services an ACL or a viewer can name
  Groups,        \* group names
  Entitlements,  \* entitlement names
  Facets,        \* facet key=value pairs
  Urls,          \* canonical URLs
  NoUrl,         \* canonical_url absent
  Texts,         \* title, summary and body, told apart by identity only
  NoText,        \* the text of a tombstone
  OwnerReasons,  \* noindex reasons an owner may send itself
  NoSubject,     \* a viewer who is not signed in
  NoRow          \* no row of the documents table

Key == Owners \X Ids
OwnerOf(k) == k[1]

Principal == ({"s"} \X Subjects) \cup ({"g"} \X Groups) \cup ({"e"} \X Entitlements)
FacetRow == {"f"} \X Facets

Visibility == {"public", "unlisted", "members", "private", "draft"}

\* Exposure, lowest first: a drop is a removal.
None == 0
Restricted == 1
PublicUnlisted == 2
PublicListed == 3
Exposure == None .. PublicListed

Tombstone(k, rev) ==
  [key |-> k, revision |-> rev, deleted |-> TRUE, visibility |-> "none",
   published |-> FALSE, decision |-> "noindex", reasons |-> {}, stub |-> FALSE,
   url |-> NoUrl, acl |-> {}, facets |-> {}, text |-> NoText]

LiveDocument ==
  [key : Key, revision : Nat, deleted : {FALSE}, visibility : Visibility,
   published : BOOLEAN, decision : {"index", "noindex"},
   reasons : SUBSET OwnerReasons, stub : BOOLEAN, url : Urls \cup {NoUrl},
   acl : SUBSET Principal, facets : SUBSET FacetRow, text : Texts]

TombstoneDocument ==
  [key : Key, revision : Nat, deleted : {TRUE}, visibility : {"none"},
   published : {FALSE}, decision : {"noindex"}, reasons : {{}}, stub : {FALSE},
   url : {NoUrl}, acl : {{}}, facets : {{}}, text : {NoText}]

Doc == LiveDocument \cup TombstoneDocument

ASSUME NoValueAssumption ==
  /\ NoUrl \notin Urls
  /\ NoText \notin Texts
  /\ NoSubject \notin Subjects
  /\ NoRow \notin Doc

\* What the store keeps of a valid input. The hash covers every stored field, so two
\* normalized documents have the same hash exactly when they are equal.
Normalize(d) == IF d.deleted THEN Tombstone(d.key, d.revision) ELSE d

-----------------------------------------------------------------------------
\* The owner's reasons and the ones Search adds by itself.
Reasons(d) ==
  d.reasons \cup
  {r \in {"deleted", "draft", "private", "members_only", "unlisted",
          "not_published", "stub_provider", "missing_canonical_url"} :
     \/ r = "deleted" /\ d.deleted
     \/ /\ ~d.deleted
        /\ \/ r = "draft" /\ d.visibility = "draft"
           \/ r = "private" /\ d.visibility = "private"
           \/ r = "members_only" /\ d.visibility = "members"
           \/ r = "unlisted" /\ d.visibility = "unlisted"
           \/ r = "not_published" /\ ~d.published
           \/ r = "stub_provider" /\ d.stub
           \/ r = "missing_canonical_url" /\ d.visibility = "public" /\ d.url = NoUrl}

EffectiveDecision(d) ==
  IF d.decision = "index" /\ Reasons(d) = {} THEN "index" ELSE "noindex"

Servable(d) == ~d.deleted /\ d.visibility # "draft" /\ d.published

ExposureOf(d) ==
  IF ~Servable(d) THEN None
  ELSE IF d.visibility # "public" THEN Restricted
  ELSE IF EffectiveDecision(d) = "index" THEN PublicListed
  ELSE PublicUnlisted

\* The exposure of the stored row, none when there is none.
RowExposure(row) == IF row = NoRow THEN None ELSE ExposureOf(row)

\* store.writeSideRows: the doc_acl and doc_facets rows of a document.
SideRows(d) ==
  IF ExposureOf(d) = None THEN {}
  ELSE (IF ExposureOf(d) = Restricted THEN d.acl ELSE {}) \cup d.facets

\* engine.put: the search_fts row of a document, if it is searchable at all.
FtsRows(d) ==
  IF ExposureOf(d) \in {PublicListed, Restricted}
  THEN {[audience |-> ExposureOf(d), text |-> d.text]}
  ELSE {}

-----------------------------------------------------------------------------
Viewer ==
  [subject : Subjects \cup {NoSubject}, groups : SUBSET Groups,
   entitlements : SUBSET Entitlements]

\* The people, groups and entitlements a viewer holds, as ACL principals.
HeldBy(v) ==
  {<<"s", v.subject>>} \cup ({"g"} \X v.groups) \cup ({"e"} \X v.entitlements)

\* canView: may this viewer open the stored document by its exact id?
CanView(v, row) ==
  /\ ~row.deleted
  /\ ExposureOf(row) # None
  /\ \/ ExposureOf(row) >= PublicUnlisted
     \/ /\ v.subject # NoSubject
        /\ \/ row.visibility = "private" /\ <<"s", v.subject>> \in row.acl
           \/ row.visibility = "unlisted"
           \/ row.visibility = "members" /\ HeldBy(v) \cap row.acl # {}

\* A variant that forgets to tell private documents from members' ones.
AclClauseWithoutVisibility(v, row, aclRows) ==
  v.subject # NoSubject /\ HeldBy(v) \cap aclRows # {}

\* aclClause: the SQL predicate over the document's row and its doc_acl rows.
AclClause(v, row, aclRows) ==
  /\ v.subject # NoSubject
  /\ \/ row.visibility = "private" /\ <<"s", v.subject>> \in aclRows
     \/ row.visibility \in {"members", "unlisted"} /\ HeldBy(v) \cap aclRows # {}

\* visibleSet (browse): no text query, so only the row and its doc_acl rows count.
Browsable(v, row, aclRows) ==
  /\ row # NoRow
  /\ ~row.deleted
  /\ \/ ExposureOf(row) = PublicListed
     \/ ExposureOf(row) = Restricted /\ AclClause(v, row, aclRows)

\* matchedSet (search): the search_fts row's audience has to agree with the row, too.
Searchable(v, row, aclRows, ftsRows) ==
  /\ row # NoRow
  /\ ~row.deleted
  /\ \E f \in ftsRows :
       \/ f.audience = PublicListed /\ ExposureOf(row) = PublicListed
       \/ /\ f.audience = Restricted
          /\ ExposureOf(row) = Restricted
          /\ AclClause(v, row, aclRows)
=============================================================================
