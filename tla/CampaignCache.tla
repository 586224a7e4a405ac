---------------------------- MODULE CampaignCache ----------------------------
(***************************************************************************)
(* internal/campaign/cache.go over repository.go, driven by the admin      *)
(* handlers and by the bid path: the read-through Redis cache of campaigns *)
(* with its two kinds of keys, campaigns:active and campaign:<id>.         *)
(*                                                                         *)
(* Every Redis command and every group of SQL queries whose results cannot *)
(* change in between is a step, so that calls interleave between them.  A  *)
(* call in Faults = {"redis", "db"} may fail; a write of the database may  *)
(* then be applied although it reports an error, and the result set of a   *)
(* query may be cut short unnoticed, because rows.Err is never looked at.  *)
(***************************************************************************)
EXTENDS Naturals, FiniteSets

CONSTANTS
  Ids,             \* campaign ids
  InitialIds,      \* campaigns stored at the start
  Budgets,         \* values of budget_cents
  Rules, Creatives,
  Admins,          \* concurrent admin calls that change a campaign
  Getters,         \* concurrent GET /admin/campaigns/:id
  Listers,         \* concurrent GetActiveCampaigns, of bids and of the admin
  MaxChanges,      \* bound on the admin calls made
  Faults,          \* subset of {"redis", "db"}
  None             \* a missing row, key or field

Statuses == {"active", "paused"}
Rows     == [status : Statuses, budget : Budgets]
Calls    == Admins \cup Getters \cup Listers

ASSUME InitialIdsAssumption == InitialIds \subseteq Ids
ASSUME FaultsAssumption == Faults \subseteq {"redis", "db"}
ASSUME MaxChangesAssumption == MaxChanges \in Nat

\* A Campaign struct: the row with what belongs to it.
Campaigns == [row : Rows, creatives : SUBSET Creatives, rules : SUBSET Rules]

ASSUME NoneAssumption ==
  None \notin Rows \cup Campaigns \cup Statuses \cup Budgets

VARIABLES
  rows,        \* table campaigns
  creatives,   \* table creatives, by campaign
  rules,       \* table targeting_rules, by campaign
  stored,      \* every row that each campaign has had
  listKey,     \* campaigns:active: campaigns by id, or None
  campKey,     \* campaign:<id>
  call,        \* the calls under way, with their local variables
  changes      \* admin calls made

dbVars    == <<rows, creatives, rules, stored>>
redisVars == <<listKey, campKey>>
vars      == <<dbVars, redisVars, call, changes>>

NoCamp == [row |-> None, creatives |-> {}, rules |-> {}]

\* at is the next step; the fields up to creative are the request; written says
\* that the call has changed the database; camp and list are what it has read.
NoCall == [at |-> "idle", op |-> "none", id |-> None, status |-> None,
           budget |-> None, creative |-> None, written |-> FALSE,
           camp |-> NoCamp, list |-> <<>>]

Init ==
  /\ rows \in [Ids -> Rows \cup {None}]
  /\ \A id \in Ids : rows[id] # None <=> id \in InitialIds
  /\ creatives = [id \in Ids |-> {}]
  /\ rules = [id \in Ids |-> IF id \in InitialIds THEN Rules ELSE {}]
  /\ stored = [id \in Ids |-> {rows[id]} \ {None}]
  /\ listKey = None
  /\ campKey = [id \in Ids |-> None]
  /\ call = [p \in Calls |-> NoCall]
  /\ changes = 0

\* Call p goes on as c; a call that returns forgets its locals.
Continue(p, c) ==
  call' = [call EXCEPT ![p] = IF c.at = "idle" THEN NoCall ELSE c]
Goto(p, label) == Continue(p, [call[p] EXCEPT !.at = label])
Return(p)      == Goto(p, "idle")

Start(p, c) ==
  /\ call[p].at = "idle"
  /\ Continue(p, c)
  /\ UNCHANGED <<dbVars, redisVars>>

\* What a query may return of a set of rows.
Reads(set) == IF "db" \in Faults THEN SUBSET set ELSE {set}

-----------------------------------------------------------------------------
(* RedisCache.GetActiveCampaigns and pgRepository.GetActiveCampaigns.      *)

StartList(p) ==
  /\ p \in Listers
  /\ Start(p, [NoCall EXCEPT !.at = "lookupList", !.op = "list"])
  /\ UNCHANGED changes

\* Mutant of LookupList: a hit is written back, to renew its TTL.
LookupListRenewing(p) ==
  /\ call[p].at = "lookupList"
  /\ \/ /\ listKey # None
        /\ Continue(p, [call[p] EXCEPT !.at = "fillList", !.list = listKey])
     \/ /\ listKey = None \/ "redis" \in Faults
        /\ Goto(p, "queryRows")
  /\ UNCHANGED <<dbVars, redisVars, changes>>

\* A hit is returned; a miss, and a failing Redis, goes to the database.
LookupList(p) ==
  /\ call[p].at = "lookupList"
  /\ \/ listKey # None /\ Return(p)
     \/ /\ listKey = None \/ "redis" \in Faults
        /\ Goto(p, "queryRows")
  /\ UNCHANGED <<dbVars, redisVars, changes>>

ActiveIds == {id \in Ids : rows[id] # None /\ rows[id].status = "active"}

\* Query 1; no further query when it returns nothing.
QueryRows(p) ==
  /\ call[p].at = "queryRows"
  /\ \E ids \in Reads(ActiveIds) :
       Continue(p, [call[p] EXCEPT
         !.at   = IF ids = {} THEN "fillList" ELSE "queryParts",
         !.list = [id \in ids |-> [NoCamp EXCEPT !.row = rows[id]]]])
  /\ UNCHANGED <<dbVars, redisVars, changes>>

PairsOf(parts, set) == {q \in Ids \X set : q[2] \in parts[q[1]]}
PartsOf(id, pairs) == {pair[2] : pair \in {q \in pairs : q[1] = id}}

\* Queries 2a and 2b; the rules of a campaign never change.
QueryParts(p) ==
  LET c == call[p]
  IN  /\ c.at = "queryParts"
      /\ \E crs \in Reads(PairsOf(creatives, Creatives)),
            trs \in Reads(PairsOf(rules, Rules)) :
           Continue(p, [c EXCEPT
             !.at   = "fillList",
             !.list = [id \in DOMAIN c.list |-> [row       |-> c.list[id].row,
                                                creatives |-> PartsOf(id, crs),
                                                rules     |-> PartsOf(id, trs)]]])
      /\ UNCHANGED <<dbVars, redisVars, changes>>

\* SetEX of the list; its error is ignored.
FillList(p) ==
  /\ call[p].at = "fillList"
  /\ \/ listKey' = call[p].list
     \/ "redis" \in Faults /\ UNCHANGED listKey
  /\ Return(p)
  /\ UNCHANGED <<dbVars, campKey, changes>>

\* A query fails: GetActiveCampaigns and the first GetCampaignByID of a call
\* return the error; UpdateCampaign and AddCreative ignore it.  No key is set.
FailQuery(p) ==
  /\ "db" \in Faults
  /\ call[p].at \in {"queryRows", "queryParts", "readRow", "readParts"}
  /\ Return(p)
  /\ UNCHANGED <<dbVars, redisVars, changes>>

-----------------------------------------------------------------------------
(* RedisCache.GetCampaignByID, for HandleGetCampaign and as the first half *)
(* of HandleUpdateCampaign; its reads of the database are also how         *)
(* UpdateCampaign and AddCreative refresh campaign:<id>.                   *)

StartGet(p) ==
  /\ p \in Getters
  /\ \E id \in Ids :
       Start(p, [NoCall EXCEPT !.at = "lookup", !.op = "get", !.id = id])
  /\ UNCHANGED changes

\* With the campaign in hand a GET returns it and a PATCH merges its fields.
AfterFound(op) == IF op = "patch" THEN "write" ELSE "idle"

Lookup(p) ==
  LET c == call[p]
      cached == campKey[c.id]
  IN  /\ c.at = "lookup"
      /\ \/ /\ cached # None
            /\ Continue(p, [c EXCEPT !.at = AfterFound(c.op), !.camp = cached])
         \/ /\ cached = None \/ "redis" \in Faults
            /\ Goto(p, "readRow")
      /\ UNCHANGED <<dbVars, redisVars, changes>>

\* Mutant of ReadRow: a missing row is not told from a row.
ReadRowAnyway(p) ==
  LET c == call[p]
  IN  /\ c.at = "readRow"
      /\ Continue(p, [c EXCEPT !.at = "readParts",
                               !.camp = [NoCamp EXCEPT !.row = rows[c.id]]])
      /\ UNCHANGED <<dbVars, redisVars, changes>>

\* No row is ErrNotFound.
ReadRow(p) ==
  LET c == call[p]
      row == rows[c.id]
  IN  /\ c.at = "readRow"
      /\ Continue(p, [c EXCEPT !.at = IF row = None THEN "idle" ELSE "readParts",
                               !.camp = [NoCamp EXCEPT !.row = row]])
      /\ UNCHANGED <<dbVars, redisVars, changes>>

ReadParts(p) ==
  LET c == call[p]
  IN  /\ c.at = "readParts"
      /\ \E crs \in Reads(creatives[c.id]), trs \in Reads(rules[c.id]) :
           Continue(p, [c EXCEPT !.at = "cache", !.camp.creatives = crs,
                                 !.camp.rules = trs])
      /\ UNCHANGED <<dbVars, redisVars, changes>>

\* setCampaignCache; its error is ignored.  AddCreative goes on to Delete.
CacheCamp(p) ==
  LET c == call[p]
  IN  /\ c.at = "cache"
      /\ \/ campKey' = [campKey EXCEPT ![c.id] = c.camp]
         \/ "redis" \in Faults /\ UNCHANGED campKey
      /\ Goto(p, IF ~c.written THEN AfterFound(c.op)
                 ELSE IF c.op = "addCreative" THEN "invalidate" ELSE "idle")
      /\ UNCHANGED <<dbVars, listKey, changes>>

-----------------------------------------------------------------------------
(* The admin calls that change a campaign. *)

StartChange(p, c) ==
  /\ p \in Admins
  /\ changes < MaxChanges
  /\ Start(p, c)
  /\ changes' = changes + 1

\* HandleUpdateCampaign: either field, or both, may be absent from the body.
StartPatch(p) ==
  \E id \in Ids, st \in Statuses \cup {None}, b \in Budgets \cup {None} :
    StartChange(p, [NoCall EXCEPT !.at = "lookup", !.op = "patch", !.id = id,
                                  !.status = st, !.budget = b])

StartAddCreative(p) ==
  \E id \in Ids, cr \in Creatives :
    StartChange(p, [NoCall EXCEPT !.at = "insert", !.op = "addCreative",
                                  !.id = id, !.creative = cr])

\* HandleCreateCampaign: a body without a status means active; it may list
\* creatives.
StartCreate(p) ==
  \E id \in Ids, st \in Statuses, b \in Budgets, cr \in Creatives \cup {None} :
    StartChange(p, [NoCall EXCEPT !.at = "insert", !.op = "create", !.id = id,
                                  !.status = st, !.budget = b,
                                  !.creative = cr])

\* The outcomes of a write: applied or not, reported as success or as an error.
\* On an error the call returns it and touches no key.
Outcomes == {[applied |-> TRUE, ok |-> TRUE]} \cup
            IF "db" \in Faults
            THEN {[applied |-> a, ok |-> FALSE] : a \in BOOLEAN} ELSE {}

Merge(old, c) ==
  [status |-> IF c.status = None THEN old.status ELSE c.status,
   budget |-> IF c.budget = None THEN old.budget ELSE c.budget]

StoreRow(id, row) ==
  /\ rows' = [rows EXCEPT ![id] = row]
  /\ stored' = [stored EXCEPT ![id] = @ \cup {row}]

\* Mutant of WriteRow: the error of the UPDATE is not looked at, and the merged
\* struct is what gets cached.
WriteRowUnchecked(p) ==
  LET c == call[p]
      merged == Merge(c.camp.row, c)
  IN  /\ c.at = "write"
      /\ \E out \in Outcomes :
           /\ IF out.applied /\ rows[c.id] # None THEN StoreRow(c.id, merged)
              ELSE UNCHANGED <<rows, stored>>
           /\ Continue(p, [c EXCEPT !.at = "cache", !.camp.row = merged,
                                    !.written = TRUE])
      /\ UNCHANGED <<creatives, rules, redisVars, changes>>

\* UPDATE ... SET status, budget_cents: both columns are written.  No row
\* affected is ErrNotFound.
WriteRow(p) ==
  LET c == call[p]
      merged == Merge(c.camp.row, c)
      found == rows[c.id] # None
  IN  /\ c.at = "write"
      /\ \E out \in Outcomes :
           /\ IF out.applied /\ found THEN StoreRow(c.id, merged)
              ELSE UNCHANGED <<rows, stored>>
           /\ Continue(p, [c EXCEPT
                !.at = IF out.ok /\ found THEN "invalidate" ELSE "idle",
                !.camp.row = merged, !.written = TRUE])
      /\ UNCHANGED <<creatives, rules, redisVars, changes>>

\* Mutant of InsertCampaign: the row and the rules are inserted without a
\* transaction around them.
InsertCampaignInTwo(p) ==
  LET c   == call[p]
      row == [status |-> c.status, budget |-> c.budget]
  IN  /\ c.at = "insert" /\ c.op = "create"
      /\ \/ /\ ~c.written /\ rows[c.id] = None
            /\ StoreRow(c.id, row)
            /\ Continue(p, [c EXCEPT !.written = TRUE])
            /\ UNCHANGED rules
         \/ /\ c.written
            /\ rules' = [rules EXCEPT ![c.id] = Rules]
            /\ Continue(p, [c EXCEPT !.at = "invalidate",
                 !.camp = [row |-> row, rules |-> Rules, creatives |-> {}]])
            /\ UNCHANGED <<rows, stored>>
      /\ UNCHANGED <<creatives, redisVars, changes>>

\* INSERT of a campaign with its rules, in a transaction that a taken id fails;
\* the creatives of the body are not inserted.
InsertCampaign(p) ==
  LET c    == call[p]
      row  == [status |-> c.status, budget |-> c.budget]
      free == rows[c.id] = None
  IN  /\ c.at = "insert" /\ c.op = "create"
      /\ \E out \in Outcomes :
           /\ IF out.applied /\ free
              THEN /\ StoreRow(c.id, row)
                   /\ rules' = [rules EXCEPT ![c.id] = Rules]
              ELSE UNCHANGED <<rows, stored, rules>>
           /\ Continue(p, [c EXCEPT
                !.at = IF out.ok /\ free THEN "invalidate" ELSE "idle",
                !.camp = [row |-> row, rules |-> Rules,
                          creatives |-> {c.creative} \ {None}],
                !.written = TRUE])
      /\ UNCHANGED <<creatives, redisVars, changes>>

\* INSERT of a creative; the foreign key refuses an unknown campaign.
InsertCreative(p) ==
  LET c     == call[p]
      known == rows[c.id] # None
  IN  /\ c.at = "insert" /\ c.op = "addCreative"
      /\ \E out \in Outcomes :
           /\ creatives' = IF out.applied /\ known
                           THEN [creatives EXCEPT ![c.id] = @ \cup {c.creative}]
                           ELSE creatives
           /\ Continue(p, [c EXCEPT
                !.at = IF out.ok /\ known THEN "readRow" ELSE "idle",
                !.written = TRUE])
      /\ UNCHANGED <<rows, rules, stored, redisVars, changes>>

\* Mutant of AfterInvalidate: UpdateCampaign does not refresh campaign:<id>.
AfterInvalidateForgetful(op) == IF op = "create" THEN "cache" ELSE "idle"

AfterInvalidate(op) ==
  CASE op = "create"      -> "cache"
    [] op = "patch"       -> "readRow"
    [] op = "addCreative" -> "idle"

\* Delete of campaigns:active; its error is ignored.
InvalidateList(p) ==
  /\ call[p].at = "invalidate"
  /\ \/ listKey' = None
     \/ "redis" \in Faults /\ UNCHANGED listKey
  /\ Goto(p, AfterInvalidate(call[p].op))
  /\ UNCHANGED <<dbVars, campKey, changes>>

-----------------------------------------------------------------------------
(* TTLs: 30s for the list, 60s for a campaign. *)

ExpireList ==
  /\ listKey # None
  /\ listKey' = None
  /\ UNCHANGED <<dbVars, campKey, call, changes>>

ExpireCamp(id) ==
  /\ campKey[id] # None
  /\ campKey' = [campKey EXCEPT ![id] = None]
  /\ UNCHANGED <<dbVars, listKey, call, changes>>

-----------------------------------------------------------------------------
Step(p) ==
  \/ LookupList(p) \/ QueryRows(p) \/ QueryParts(p) \/ FillList(p)
  \/ FailQuery(p)
  \/ Lookup(p) \/ ReadRow(p) \/ ReadParts(p) \/ CacheCamp(p)
  \/ WriteRow(p) \/ InsertCampaign(p) \/ InsertCreative(p)
  \/ InvalidateList(p)

Begin(p) ==
  \/ StartList(p) \/ StartGet(p)
  \/ StartPatch(p) \/ StartAddCreative(p) \/ StartCreate(p)

Next ==
  \/ \E p \in Calls : Begin(p) \/ Step(p)
  \/ ExpireList
  \/ \E id \in Ids : ExpireCamp(id)

Spec == Init /\ [][Next]_vars

\* Every call makes progress, its waits being bounded by deadlines, and Redis
\* expires keys; nobody has to make a call.
FairSpec ==
  /\ Spec
  /\ \A p \in Calls : WF_vars(Step(p))
  /\ WF_vars(ExpireList)
  /\ \A id \in Ids : WF_vars(ExpireCamp(id))
-----------------------------------------------------------------------------
Labels == {"idle", "lookupList", "queryRows", "queryParts", "fillList",
           "lookup", "readRow", "readParts", "cache", "write", "insert",
           "invalidate"}

IsCampaign(c) == /\ c.row \in Rows \cup {None}
                 /\ c.creatives \subseteq Creatives
                 /\ c.rules \subseteq Rules

TypeOK ==
  /\ rows \in [Ids -> Rows \cup {None}]
  /\ creatives \in [Ids -> SUBSET Creatives]
  /\ rules \in [Ids -> SUBSET Rules]
  /\ listKey # None => \A id \in DOMAIN listKey :
                         id \in Ids /\ listKey[id] \in Campaigns
  /\ campKey \in [Ids -> Campaigns \cup {None}]
  /\ DOMAIN call = Calls
  /\ \A p \in Calls : /\ call[p].at \in Labels
                      /\ call[p].id \in Ids \cup {None}
                      /\ IsCampaign(call[p].camp)
  /\ changes \in 0..MaxChanges
  /\ stored \in [Ids -> SUBSET Rows]

(***************************************************************************)
(* Whatever fails, and however fills, refreshes, expiries and writes       *)
(* interleave, Redis never holds a campaign row that the database has not  *)
(* had, nor a list with a creative it does not have.                       *)
(***************************************************************************)
CachedWasStored ==
  /\ \A id \in Ids : campKey[id] # None => campKey[id].row \in stored[id]
  /\ listKey # None =>
       \A id \in DOMAIN listKey : /\ listKey[id].row \in stored[id]
                                  /\ listKey[id].creatives \subseteq creatives[id]

(***************************************************************************)
(* The rules of a campaign are read by a later query than its row, and yet *)
(* a list never holds a campaign without all of its rules.  (True as long  *)
(* as no result set is cut short; service.go:46 says "Campaign must match  *)
(* ALL defined rules (AND logic).")                                        *)
(***************************************************************************)
ListHasAllRules ==
  listKey # None => \A id \in DOMAIN listKey : listKey[id].rules = rules[id]

(***************************************************************************)
(* campaign.go:87 calls the body of a PATCH a "partial update": the field  *)
(* it does not name keeps the value it has in the database when the update *)
(* is written.  (True of admin calls made one at a time through a healthy  *)
(* Redis, while bids read the list.)                                       *)
(***************************************************************************)
PatchKeepsOtherFields ==
  [][\A p \in Admins :
       (call[p].at = "write" /\ call'[p].at # "write") =>
         LET c == call[p]
         IN  /\ c.status = None => rows'[c.id].status = rows[c.id].status
             /\ c.budget = None => rows'[c.id].budget = rows[c.id].budget]_vars

ListFresh == listKey # None => \A id \in DOMAIN listKey : listKey[id].row = rows[id]
CampFresh == \A id \in Ids : campKey[id] # None =>
               /\ campKey[id].row = rows[id]
               /\ campKey[id].creatives \subseteq creatives[id]

(***************************************************************************)
(* Staleness heals: once the admin calls stop, no key keeps a row that the *)
(* database no longer has, nor a creative it was never given (a POST       *)
(* caches those of its body), also when Redis refused some invalidations   *)
(* and refreshes and writes were applied that reported an error, because   *)
(* hits do not renew TTLs.                                                 *)
(***************************************************************************)
EventuallyFresh == <>[](ListFresh /\ CampFresh)
=============================================================================
