------------------------- MODULE CampaignCacheProofs -------------------------
(***************************************************************************)
(* Proofs about CampaignCache for any number of campaigns, of admin calls, *)
(* of readers and of keys.                                                 *)
(***************************************************************************)
EXTENDS CampaignCache, TLAPS

Ops   == {"none", "list", "get", "patch", "addCreative", "create"}
Camps == [row : Rows \cup {None}, creatives : SUBSET Creatives,
          rules : SUBSET Rules]
Lists == {<<>>} \cup UNION {[ids -> Campaigns] : ids \in SUBSET Ids}

CallStates ==
  [at : Labels, op : Ops, id : Ids \cup {None}, status : Statuses \cup {None},
   budget : Budgets \cup {None}, creative : Creatives \cup {None},
   written : BOOLEAN, camp : Camps, list : Lists]

Listing == {"idle", "lookupList", "queryRows", "queryParts", "fillList"}

\* A list holds rows that the database has had and creatives that it has.
Listed(list) ==
  \A id \in DOMAIN list :
    /\ id \in Ids /\ list[id] \in Campaigns
    /\ list[id].row \in stored[id] /\ list[id].creatives \subseteq creatives[id]

\* What a call knows at each of its steps: the row that it goes on to cache, or
\* to merge a PATCH into, is one that the database has had.
Sound(c) ==
  /\ c \in CallStates
  /\ c.at \notin Listing => c.id \in Ids
  /\ c.at \in {"queryParts", "fillList"} => Listed(c.list)
  /\ c.at \in {"readParts", "cache", "write"} => c.camp.row \in stored[c.id]
  /\ c.at = "write" => c.op = "patch"
  /\ c.at = "insert" /\ c.op = "create" =>
       c.status \in Statuses /\ c.budget \in Budgets
  /\ c.at = "insert" /\ c.op = "addCreative" => c.creative \in Creatives
  /\ c.at = "invalidate" =>
       /\ c.op \in {"patch", "addCreative", "create"}
       /\ c.op = "create" => c.camp.row \in stored[c.id]

Database ==
  /\ rows \in [Ids -> Rows \cup {None}]
  /\ creatives \in [Ids -> SUBSET Creatives]
  /\ rules \in [Ids -> SUBSET Rules]
  /\ stored \in [Ids -> SUBSET Rows]
  /\ \A id \in Ids : rows[id] # None => rows[id] \in stored[id]

Keys ==
  /\ listKey # None => Listed(listKey)
  /\ campKey \in [Ids -> Campaigns \cup {None}]
  /\ \A id \in Ids : campKey[id] # None => campKey[id].row \in stored[id]

Calling ==
  /\ DOMAIN call = Calls
  /\ \A p \in Calls : Sound(call[p])
  /\ changes \in 0..MaxChanges

CacheInv == Database /\ Keys /\ Calling

\* Rows and creatives are added to what there was.
Grows ==
  \A id \in Ids : /\ stored[id] \subseteq stored'[id]
                  /\ creatives[id] \subseteq creatives'[id]
-----------------------------------------------------------------------------
LEMMA NoCallSound == NoCall \in CallStates /\ NoCall.at = "idle"
BY DEF NoCall, NoCamp, CallStates, Camps, Lists, Labels, Ops

LEMMA IdleSound ==
  /\ Sound(NoCall) /\ Sound(NoCall)'
BY NoCallSound DEF Sound, Listing

\* Lists and calls stay sound while the database grows.
LEMMA StaysListed ==
  ASSUME Grows, NEW list, Listed(list)
  PROVE  \A id \in DOMAIN list :
           /\ id \in Ids /\ list[id] \in Campaigns
           /\ list[id].row \in stored'[id]
           /\ list[id].creatives \subseteq creatives'[id]
BY DEF Grows, Listed

LEMMA StaysSound ==
  ASSUME Grows, NEW p \in Calls, call'[p] = call[p], Sound(call[p])
  PROVE  Sound(call[p])'
<1>1. call[p].at \in {"queryParts", "fillList"} => Listed(call[p].list)'
  BY StaysListed DEF Sound, Listed
<1>2. call[p].id \in Ids => stored[call[p].id] \subseteq stored'[call[p].id]
  BY DEF Grows
<1> QED
  BY <1>1, <1>2 DEF Sound, Listing

\* A call goes on, and all the others are where they were.
LEMMA Continues ==
  ASSUME Calling, Grows, NEW p \in Calls, NEW d, Sound(d)', Continue(p, d),
         changes' \in 0..MaxChanges
  PROVE  Calling'
<1>1. /\ DOMAIN call' = Calls
      /\ \A q \in Calls : call'[q] = IF q = p
                                     THEN IF d.at = "idle" THEN NoCall ELSE d
                                     ELSE call[q]
  BY DEF Continue, Calling
<1>2. ASSUME NEW q \in Calls PROVE Sound(call[q])'
  <2>1. CASE q = p
    BY <1>1, <2>1, IdleSound DEF Sound, Listed
  <2>2. CASE q # p
    BY <1>1, <2>2, StaysSound DEF Calling
  <2> QED
    BY <2>1, <2>2
<1> QED
  BY <1>1, <1>2 DEF Calling

-----------------------------------------------------------------------------
(* Steps that only read, and those with which a call begins. *)

LEMMA OnlyReads ==
  ASSUME CacheInv, UNCHANGED <<dbVars, redisVars>>, changes' \in 0..MaxChanges,
         NEW p \in Calls, NEW d \in CallStates, Sound(d), Continue(p, d)
  PROVE  CacheInv'
<1>1. Grows /\ Database' /\ Keys'
  BY DEF CacheInv, Database, Keys, Listed, Grows, dbVars, redisVars
<1>2. Sound(d)'
  BY DEF Sound, Listed, dbVars
<1> QED
  BY <1>1, <1>2, Continues DEF CacheInv

LEMMA StartKeeps ==
  ASSUME CacheInv, NEW p \in Calls, NEW d \in CallStates, Sound(d),
         Start(p, d), changes' \in 0..MaxChanges
  PROVE  CacheInv'
BY OnlyReads DEF Start

\* The requests.
LEMMA Begins ==
  ASSUME CacheInv, NEW p \in Calls, Begin(p)
  PROVE  \E d \in CallStates :
           /\ \/ d.at = "lookupList"
              \/ d.at = "lookup" /\ d.id \in Ids
              \/ /\ d.at = "insert" /\ d.id \in Ids
                 /\ d.op = "addCreative" => d.creative \in Creatives
                 /\ d.op = "create" =>
                      d.status \in Statuses /\ d.budget \in Budgets
           /\ Start(p, d) /\ changes' \in 0..MaxChanges
<1>1. NoCall \in CallStates /\ changes \in 0..MaxChanges
  BY NoCallSound DEF CacheInv, Calling
<1>2. CASE StartList(p)
  BY <1>1, <1>2 DEF StartList, CallStates, Labels, Ops
<1>3. CASE StartGet(p)
  BY <1>1, <1>3 DEF StartGet, CallStates, Labels, Ops
<1>4. ASSUME NEW d, StartChange(p, d)
      PROVE  Start(p, d) /\ changes' \in 0..MaxChanges
  BY <1>1, <1>4, MaxChangesAssumption DEF StartChange
<1>5. CASE StartPatch(p)
  BY <1>1, <1>4, <1>5 DEF StartPatch, CallStates, Labels, Ops
<1>6. CASE StartAddCreative(p)
  BY <1>1, <1>4, <1>6 DEF StartAddCreative, CallStates, Labels, Ops
<1>7. CASE StartCreate(p)
  BY <1>1, <1>4, <1>7 DEF StartCreate, CallStates, Labels, Ops
<1> QED
  BY <1>2, <1>3, <1>5, <1>6, <1>7 DEF Begin

LEMMA BeginKeeps ==
  ASSUME CacheInv, NEW p \in Calls, Begin(p)
  PROVE  CacheInv'
BY Begins, StartKeeps DEF Sound, Listing

LEMMA LookupKeeps ==
  ASSUME CacheInv, NEW p \in Calls, Lookup(p)
  PROVE  CacheInv'
<1> DEFINE c == call[p]
<1>1. /\ c \in CallStates /\ c.at = "lookup" /\ c.id \in Ids
      /\ UNCHANGED <<dbVars, redisVars, changes>>
      /\ changes \in 0..MaxChanges
  BY DEF Lookup, CacheInv, Calling, Sound, Listing
<1>2. \E d \in CallStates :
        /\ d.id = c.id
        /\ \/ /\ d.at = "write" /\ d.op = "patch"
              /\ d.camp.row \in stored[c.id]
           \/ d.at \in {"idle", "readRow"}
        /\ Continue(p, d)
  BY <1>1 DEF Lookup, Goto, AfterFound, CacheInv, Keys, CallStates, Labels,
              Camps, Campaigns
<1> QED
  BY <1>1, <1>2, OnlyReads DEF Sound, Listing

LEMMA ReadKeeps ==
  ASSUME CacheInv, NEW p \in Calls, ReadRow(p) \/ ReadParts(p) \/ FailQuery(p)
  PROVE  CacheInv'
<1> DEFINE c == call[p]
<1>1. /\ c \in CallStates
      /\ UNCHANGED <<dbVars, redisVars, changes>>
      /\ changes \in 0..MaxChanges
  BY DEF ReadRow, ReadParts, FailQuery, CacheInv, Calling, Sound
<1>2. \E d \in CallStates :
        /\ \/ d.at = "idle"
           \/ /\ d.at \in {"readParts", "cache"} /\ d.id \in Ids
              /\ d.camp.row \in stored[d.id]
        /\ Continue(p, d)
  <2>1. CASE ReadRow(p)
    <3>1. c.id \in Ids /\ rows[c.id] \in Rows \cup {None}
          /\ (rows[c.id] # None => rows[c.id] \in stored[c.id])
      BY <1>1, <2>1 DEF ReadRow, CacheInv, Calling, Sound, Listing, Database
    <3>2. NoCamp \in Camps
      BY DEF NoCamp, Camps
    <3> QED
      BY <1>1, <2>1, <3>1, <3>2 DEF ReadRow, CallStates, Labels, Camps
  <2>2. CASE ReadParts(p)
    <3>1. /\ c.id \in Ids /\ c.camp.row \in stored[c.id]
          /\ creatives[c.id] \subseteq Creatives /\ rules[c.id] \subseteq Rules
      BY <1>1, <2>2 DEF ReadParts, CacheInv, Calling, Sound, Listing, Database
    <3>2. PICK crs \in SUBSET Creatives, trs \in SUBSET Rules :
            Continue(p, [c EXCEPT !.at = "cache", !.camp.creatives = crs,
                                  !.camp.rules = trs])
      BY <2>2, <3>1 DEF ReadParts, Reads
    <3> QED
      BY <1>1, <3>1, <3>2 DEF CallStates, Labels, Camps
  <2>3. CASE FailQuery(p)
    BY <1>1, <2>3 DEF FailQuery, Return, Goto, CallStates, Labels
  <2> QED
    BY <2>1, <2>2, <2>3
<1> QED
  BY <1>1, <1>2, OnlyReads DEF Sound, Listing

\* What a query of campaigns or of what belongs to them returns.
LEMMA ReadsLess ==
  ASSUME NEW set, NEW result \in Reads(set)
  PROVE  result \subseteq set
BY DEF Reads

LEMMA ListTyped ==
  ASSUME NEW ids, ids \subseteq Ids, NEW list \in [ids -> Campaigns]
  PROVE  list \in Lists
BY DEF Lists

\* A list that is looked up or put together stays sound.
LEMMA ListGoesOn ==
  ASSUME CacheInv, NEW p \in Calls,
         LookupList(p) \/ QueryRows(p) \/ QueryParts(p)
  PROVE  \E d \in CallStates :
           d.at \in Listing /\ Sound(d) /\ Continue(p, d)
<1> DEFINE c == call[p]
           Goal == \E d \in CallStates :
                     d.at \in Listing /\ Sound(d) /\ Continue(p, d)
<1>1. c \in CallStates
  BY DEF CacheInv, Calling, Sound
<1> SUFFICES Goal
  OBVIOUS
<1> HIDE DEF Goal
<1>2. CASE LookupList(p)
  <2>1. \E d \in CallStates : d.at \in {"idle", "queryRows"} /\ Continue(p, d)
    BY <1>1, <1>2 DEF LookupList, Return, Goto, CallStates, Labels
  <2> QED
    BY <2>1 DEF Goal, Sound, Listing
<1>3. ASSUME NEW ids, ids \subseteq Ids, NEW list \in [ids -> Campaigns],
             Listed(list), NEW at \in {"queryParts", "fillList"},
             Continue(p, [c EXCEPT !.at = at, !.list = list])
      PROVE  Goal
  <2>1. \E d \in CallStates : d.at = at /\ d.list = list /\ Continue(p, d)
    BY <1>1, <1>3, ListTyped DEF CallStates, Labels
  <2> QED
    BY <1>3, <2>1 DEF Goal, Sound, Listing
<1>4. CASE QueryRows(p)
  <2>1. PICK ids \in Reads(ActiveIds) :
          Continue(p, [c EXCEPT
            !.at   = IF ids = {} THEN "fillList" ELSE "queryParts",
            !.list = [id \in ids |-> [NoCamp EXCEPT !.row = rows[id]]]])
    BY <1>4 DEF QueryRows
  <2> DEFINE list == [id \in ids |-> [NoCamp EXCEPT !.row = rows[id]]]
  <2>2. \A id \in ids : id \in Ids /\ rows[id] \in Rows /\ rows[id] \in stored[id]
    BY ReadsLess DEF ActiveIds, CacheInv, Database
  <2>3. ASSUME NEW row \in Rows
        PROVE  /\ [NoCamp EXCEPT !.row = row] \in Campaigns
               /\ [NoCamp EXCEPT !.row = row].row = row
               /\ [NoCamp EXCEPT !.row = row].creatives = {}
    BY DEF NoCamp, Campaigns
  <2>4. list \in [ids -> Campaigns] /\ Listed(list) /\ ids \subseteq Ids
    BY <2>2, <2>3 DEF Listed
  <2> HIDE DEF list
  <2>5. Continue(p, [c EXCEPT
          !.at = IF ids = {} THEN "fillList" ELSE "queryParts", !.list = list])
    BY <2>1 DEF list
  <2> QED
    BY <1>3, <2>4, <2>5
<1>5. CASE QueryParts(p)
  <2>1. PICK crs \in Reads(PairsOf(creatives, Creatives)),
             trs \in Reads(PairsOf(rules, Rules)) :
          Continue(p, [c EXCEPT
            !.at   = "fillList",
            !.list = [id \in DOMAIN c.list |-> [row       |-> c.list[id].row,
                                               creatives |-> PartsOf(id, crs),
                                               rules     |-> PartsOf(id, trs)]]])
    BY <1>5 DEF QueryParts
  <2> DEFINE list == [id \in DOMAIN c.list |->
                        [row       |-> c.list[id].row,
                         creatives |-> PartsOf(id, crs),
                         rules     |-> PartsOf(id, trs)]]
  <2>2. Listed(c.list)
    BY <1>5 DEF QueryParts, CacheInv, Calling, Sound
  <2>3. ASSUME NEW id \in DOMAIN c.list
        PROVE  /\ id \in Ids /\ c.list[id].row \in Rows
               /\ c.list[id].row \in stored[id]
               /\ PartsOf(id, crs) \subseteq Creatives
               /\ PartsOf(id, crs) \subseteq creatives[id]
               /\ PartsOf(id, trs) \subseteq Rules
    <3>1. id \in Ids /\ c.list[id].row \in Rows /\ c.list[id].row \in stored[id]
      BY <2>2 DEF Listed, Campaigns
    <3>2. crs \subseteq PairsOf(creatives, Creatives)
          /\ trs \subseteq PairsOf(rules, Rules)
      BY ReadsLess
    <3>3. /\ PartsOf(id, crs) \subseteq Creatives
          /\ PartsOf(id, crs) \subseteq creatives[id]
          /\ PartsOf(id, trs) \subseteq Rules
      BY <3>1, <3>2 DEF PartsOf, PairsOf
    <3> QED
      BY <3>1, <3>3
  <2>4. list \in [DOMAIN c.list -> Campaigns] /\ Listed(list)
        /\ DOMAIN c.list \subseteq Ids
    BY <2>3 DEF Listed, Campaigns
  <2> HIDE DEF list
  <2>5. Continue(p, [c EXCEPT !.at = "fillList", !.list = list])
    BY <2>1 DEF list
  <2> QED
    BY <1>3, <2>4, <2>5
<1> QED
  BY <1>2, <1>4, <1>5

LEMMA ListKeeps ==
  ASSUME CacheInv, NEW p \in Calls,
         LookupList(p) \/ QueryRows(p) \/ QueryParts(p)
  PROVE  CacheInv'
<1>1. UNCHANGED <<dbVars, redisVars, changes>> /\ changes \in 0..MaxChanges
  BY DEF LookupList, QueryRows, QueryParts, CacheInv, Calling
<1> QED
  BY <1>1, ListGoesOn, OnlyReads
-----------------------------------------------------------------------------
(* Steps that change a key or the database. *)

LEMMA KeyStepsKeep ==
  ASSUME CacheInv, NEW p \in Calls,
         FillList(p) \/ CacheCamp(p) \/ InvalidateList(p)
  PROVE  CacheInv'
<1> DEFINE c == call[p]
<1>1. /\ c \in CallStates /\ UNCHANGED <<dbVars, changes>>
      /\ changes \in 0..MaxChanges
  BY DEF FillList, CacheCamp, InvalidateList, CacheInv, Calling, Sound
<1>2. Grows /\ Database'
  BY <1>1 DEF CacheInv, Database, Grows, dbVars
<1>3. ASSUME Keys', NEW d \in CallStates, Sound(d), Continue(p, d)
      PROVE  CacheInv'
  <2>1. Sound(d)'
    BY <1>1, <1>3 DEF Sound, Listed, dbVars
  <2> QED
    BY <1>1, <1>2, <1>3, <2>1, Continues DEF CacheInv
<1>4. CASE FillList(p)
  <2>1. Listed(c.list)
    BY <1>4 DEF FillList, CacheInv, Calling, Sound
  <2>2. Keys'
    BY <1>1, <1>4, <2>1 DEF FillList, CacheInv, Keys, Listed, dbVars
  <2>3. \E d \in CallStates : d.at = "idle" /\ Continue(p, d)
    BY <1>1, <1>4 DEF FillList, Return, Goto, CallStates, Labels
  <2> QED
    BY <1>3, <2>2, <2>3 DEF Sound, Listing
<1>5. CASE CacheCamp(p)
  <2>1. c.id \in Ids /\ c.camp.row \in stored[c.id] /\ c.camp \in Campaigns
    BY <1>1, <1>5 DEF CacheCamp, CacheInv, Calling, Sound, Listing, Database,
                      CallStates, Camps, Campaigns
  <2>2. Keys'
    BY <1>1, <1>5, <2>1 DEF CacheCamp, CacheInv, Keys, Listed, dbVars
  <2>3. \E d \in CallStates :
          /\ d.at \in {"write", "invalidate", "idle"} /\ d.id = c.id
          /\ d.at = "write" => d.op = "patch" /\ d.camp.row \in stored[d.id]
          /\ d.at = "invalidate" => d.op = "addCreative"
          /\ Continue(p, d)
    BY <1>1, <1>5, <2>1 DEF CacheCamp, Goto, AfterFound, CallStates, Labels
  <2> QED
    BY <1>3, <2>1, <2>2, <2>3 DEF Sound, Listing
<1>6. CASE InvalidateList(p)
  <2>1. /\ c.id \in Ids /\ c.op \in {"patch", "addCreative", "create"}
        /\ c.op = "create" => c.camp.row \in stored[c.id]
    BY <1>6 DEF InvalidateList, CacheInv, Calling, Sound, Listing
  <2>2. Keys'
    BY <1>1, <1>6 DEF InvalidateList, CacheInv, Keys, Listed, dbVars
  <2>3. \E d \in CallStates :
          /\ d.at \in {"cache", "readRow", "idle"} /\ d.id = c.id
          /\ d.at = "cache" => d.camp.row \in stored[d.id]
          /\ Continue(p, d)
    BY <1>1, <1>6, <2>1 DEF InvalidateList, Goto, AfterInvalidate, CallStates,
                            Labels
  <2> QED
    BY <1>3, <2>1, <2>2, <2>3 DEF Sound, Listing
<1> QED
  BY <1>4, <1>5, <1>6

\* The keys stay good while the database grows.
LEMMA KeysStay ==
  ASSUME Keys, Grows, UNCHANGED redisVars
  PROVE  Keys'
<1>1. listKey # None => Listed(listKey)'
  BY StaysListed DEF Keys, Listed, redisVars
<1> QED
  BY <1>1 DEF Keys, Grows, redisVars

LEMMA WritesKeep ==
  ASSUME CacheInv, NEW p \in Calls,
         WriteRow(p) \/ InsertCampaign(p) \/ InsertCreative(p)
  PROVE  CacheInv'
<1> DEFINE c == call[p]
<1>1. /\ c \in CallStates /\ UNCHANGED <<redisVars, changes>>
      /\ changes \in 0..MaxChanges /\ c.id \in Ids
  BY DEF WriteRow, InsertCampaign, InsertCreative, CacheInv, Calling, Sound,
         Listing
<1>2. ASSUME Grows, Database', NEW d \in CallStates, Sound(d)', Continue(p, d)
      PROVE  CacheInv'
  BY <1>1, <1>2, KeysStay, Continues DEF CacheInv
<1>3. ASSUME NEW row \in Rows, StoreRow(c.id, row) \/ UNCHANGED <<rows, stored>>
      PROVE  /\ \A id \in Ids : stored[id] \subseteq stored'[id]
             /\ rows' \in [Ids -> Rows \cup {None}]
             /\ stored' \in [Ids -> SUBSET Rows]
             /\ \A id \in Ids : rows'[id] # None => rows'[id] \in stored'[id]
             /\ StoreRow(c.id, row) => row \in stored'[c.id]
  BY <1>1, <1>3 DEF StoreRow, CacheInv, Database
<1>4. CASE WriteRow(p)
  <2> DEFINE row == Merge(c.camp.row, c)
  <2>1. /\ UNCHANGED <<creatives, rules>>
        /\ c.op = "patch" /\ c.camp.row \in Rows
    BY <1>1, <1>4 DEF WriteRow, CacheInv, Calling, Sound, Listing, Database
  <2>2. row \in Rows
    BY <1>1, <2>1 DEF Merge, Rows, CallStates
  <2> HIDE DEF row
  <2>3. PICK out \in Outcomes :
          /\ StoreRow(c.id, row) \/ UNCHANGED <<rows, stored>>
          /\ Continue(p, [c EXCEPT
               !.at = IF out.ok /\ rows[c.id] # None THEN "invalidate" ELSE "idle",
               !.camp.row = row, !.written = TRUE])
    BY <1>4 DEF WriteRow, row
  <2>4. Grows /\ Database'
    BY <1>3, <2>1, <2>2, <2>3 DEF Grows, CacheInv, Database
  <2>5. \E d \in CallStates :
          /\ d.at \in {"invalidate", "idle"} /\ d.id = c.id /\ d.op = "patch"
          /\ Continue(p, d)
    BY <1>1, <2>1, <2>2, <2>3 DEF CallStates, Labels, Camps
  <2> QED
    BY <1>1, <1>2, <2>4, <2>5 DEF Sound, Listing
<1>5. CASE InsertCampaign(p)
  <2> DEFINE row == [status |-> c.status, budget |-> c.budget]
             camp == [row |-> row, rules |-> Rules,
                      creatives |-> {c.creative} \ {None}]
  <2>1. /\ UNCHANGED creatives /\ c.op = "create"
        /\ c.status \in Statuses /\ c.budget \in Budgets
    BY <1>5 DEF InsertCampaign, CacheInv, Calling, Sound
  <2>2. row \in Rows /\ camp \in Camps /\ camp.row = row
    BY <1>1, <2>1 DEF Rows, Camps, CallStates
  <2> HIDE DEF row
  <2>3. PICK out \in Outcomes :
          /\ IF out.applied /\ rows[c.id] = None
             THEN /\ StoreRow(c.id, row)
                  /\ rules' = [rules EXCEPT ![c.id] = Rules]
             ELSE UNCHANGED <<rows, stored, rules>>
          /\ Continue(p, [c EXCEPT
               !.at = IF out.ok /\ rows[c.id] = None THEN "invalidate" ELSE "idle",
               !.camp = camp, !.written = TRUE])
    BY <1>5 DEF InsertCampaign, row
  <2> HIDE DEF camp
  <2>4. rules' \in [Ids -> SUBSET Rules]
    BY <2>3 DEF CacheInv, Database
  <2>5. Grows /\ Database'
    BY <1>3, <2>1, <2>2, <2>3, <2>4 DEF Grows, CacheInv, Database
  <2>6. out.ok => out.applied
    BY DEF Outcomes
  <2>7. out.ok /\ rows[c.id] = None => row \in stored'[c.id]
    BY <1>3, <2>2, <2>3, <2>6
  <2>8. \E d \in CallStates :
          /\ d.at \in {"invalidate", "idle"} /\ d.id = c.id /\ d.op = "create"
          /\ d.at = "invalidate" => d.camp.row \in stored'[d.id]
          /\ Continue(p, d)
    BY <1>1, <2>1, <2>2, <2>3, <2>7 DEF CallStates, Labels
  <2> QED
    BY <1>1, <1>2, <2>5, <2>8 DEF Sound, Listing
<1>6. CASE InsertCreative(p)
  <2>1. /\ UNCHANGED <<rows, rules, stored>> /\ c.op = "addCreative"
        /\ c.creative \in Creatives
    BY <1>6 DEF InsertCreative, CacheInv, Calling, Sound
  <2>2. creatives' \in {creatives, [creatives EXCEPT ![c.id] = @ \cup {c.creative}]}
    BY <1>6 DEF InsertCreative
  <2>3. Grows /\ Database'
    BY <1>1, <2>1, <2>2 DEF Grows, CacheInv, Database
  <2>4. \E d \in CallStates :
          /\ d.at \in {"readRow", "idle"} /\ d.id = c.id
          /\ Continue(p, d)
    BY <1>1, <1>6 DEF InsertCreative, CallStates, Labels
  <2> QED
    BY <1>1, <1>2, <2>3, <2>4 DEF Sound, Listing
<1> QED
  BY <1>4, <1>5, <1>6

LEMMA ExpiryKeeps ==
  ASSUME CacheInv, ExpireList \/ \E id \in Ids : ExpireCamp(id)
  PROVE  CacheInv'
<1>1. UNCHANGED <<dbVars, call, changes>>
  BY DEF ExpireList, ExpireCamp
<1>2. Database' /\ Grows
  BY <1>1 DEF CacheInv, Database, Grows, dbVars
<1>3. Calling'
  BY <1>1, <1>2, StaysSound DEF CacheInv, Calling
<1>4. Keys'
  BY <1>1 DEF ExpireList, ExpireCamp, CacheInv, Keys, Listed, dbVars
<1> QED
  BY <1>2, <1>3, <1>4 DEF CacheInv

LEMMA InitCache == Init => CacheInv
<1> SUFFICES ASSUME Init PROVE CacheInv
  OBVIOUS
<1>1. Database
  BY InitialIdsAssumption DEF Init, Database
<1>2. Keys
  BY DEF Init, Keys
<1>3. Calling
  BY IdleSound, MaxChangesAssumption DEF Init, Calling
<1> QED
  BY <1>1, <1>2, <1>3 DEF CacheInv

LEMMA NextCache == CacheInv /\ [Next]_vars => CacheInv'
<1> SUFFICES ASSUME CacheInv, [Next]_vars PROVE CacheInv'
  OBVIOUS
<1>1. CASE UNCHANGED vars
  <2>1. UNCHANGED <<dbVars, redisVars, call, changes>>
    BY <1>1 DEF vars
  <2>2. Database' /\ Grows
    BY <2>1 DEF CacheInv, Database, Grows, dbVars
  <2>3. Keys' /\ Calling'
    BY <2>1, <2>2, KeysStay, StaysSound DEF CacheInv, Calling
  <2> QED
    BY <2>2, <2>3 DEF CacheInv
<1>2. CASE Next
  BY <1>2, BeginKeeps, ListKeeps, LookupKeeps, ReadKeeps, KeyStepsKeep,
     WritesKeep, ExpiryKeeps DEF Next, Step
<1> QED
  BY <1>1, <1>2

LEMMA CacheInvariant == Spec => []CacheInv
BY InitCache, NextCache, PTL DEF Spec

(***************************************************************************)
(* Tables, keys and the locals of the calls hold what their columns and    *)
(* fields may hold: no call goes on from a missing row.                    *)
(***************************************************************************)
THEOREM CacheTypeCorrect == Spec => []TypeOK
<1>1. CacheInv => TypeOK
  <2> SUFFICES ASSUME CacheInv PROVE TypeOK
    OBVIOUS
  <2>1. ASSUME NEW p \in Calls
        PROVE  /\ call[p].at \in Labels /\ call[p].id \in Ids \cup {None}
               /\ IsCampaign(call[p].camp)
    <3>1. call[p] \in CallStates
      BY DEF CacheInv, Calling, Sound
    <3> QED
      BY <3>1 DEF CallStates, Camps, IsCampaign
  <2>2. listKey # None => \A id \in DOMAIN listKey :
                            id \in Ids /\ listKey[id] \in Campaigns
    BY DEF CacheInv, Keys, Listed
  <2> QED
    BY <2>1, <2>2 DEF CacheInv, Database, Keys, Calling, TypeOK
<1> QED
  BY <1>1, CacheInvariant, PTL

(***************************************************************************)
(* Whatever fails, and however the calls interleave, Redis holds no row    *)
(* that the database has not had: a fill, a refresh or a create caches     *)
(* what was read or written, never what an update that failed would have.  *)
(***************************************************************************)
THEOREM OnlyStoredRowsAreCached == Spec => []CachedWasStored
<1>1. CacheInv => CachedWasStored
  BY DEF CacheInv, Keys, Listed, CachedWasStored
<1> QED
  BY <1>1, CacheInvariant, PTL
-----------------------------------------------------------------------------
(* The rules in a list, when no result set is cut short. *)

Known(list) == \A id \in DOMAIN list : id \in Ids /\ rows[id] # None
Ruled(list) == /\ Known(list)
               /\ \A id \in DOMAIN list : list[id].rules = rules[id]

\* The rules of a campaign are there before its row can be read.
RuleInv ==
  /\ listKey # None => Ruled(listKey)
  /\ \A p \in Calls :
       /\ call[p].at = "queryParts" => Known(call[p].list)
       /\ call[p].at = "fillList" => Ruled(call[p].list)

\* Neither rows nor rules are taken away.
RulesStay ==
  \A id \in Ids : rows[id] # None => rows'[id] # None /\ rules'[id] = rules[id]

LEMMA StaysRuled ==
  ASSUME RulesStay, NEW list
  PROVE  /\ Known(list) => \A id \in DOMAIN list : id \in Ids /\ rows'[id] # None
         /\ Ruled(list) =>
              \A id \in DOMAIN list : /\ id \in Ids /\ rows'[id] # None
                                      /\ list[id].rules = rules'[id]
BY DEF RulesStay, Known, Ruled

\* A step after which no other call, and no key, has another list.
LEMMA ListsStay ==
  ASSUME RuleInv, RulesStay, listKey' \in {listKey, None},
         \A q \in Calls : call'[q].at \in {"queryParts", "fillList"} =>
                            call'[q] = call[q]
  PROVE  RuleInv'
<1>1. listKey' # None => Ruled(listKey)'
  BY StaysRuled DEF RuleInv, Ruled, Known
<1>2. ASSUME NEW q \in Calls
      PROVE  /\ call'[q].at = "queryParts" => Known(call[q].list)'
             /\ call'[q].at = "fillList" => Ruled(call[q].list)'
  BY StaysRuled DEF RuleInv, Ruled, Known
<1> QED
  BY <1>1, <1>2 DEF RuleInv

LEMMA ElsewhereStay ==
  ASSUME Calling, NEW p \in Calls, NEW d, Continue(p, d),
         d.at \notin {"queryParts", "fillList"}
  PROVE  \A q \in Calls : call'[q].at \in {"queryParts", "fillList"} =>
                            call'[q] = call[q]
BY NoCallSound DEF Continue, Calling

LEMMA RowsAreKept ==
  ASSUME CacheInv, [Next]_vars
  PROVE  RulesStay
<1>1. CASE UNCHANGED dbVars
  BY <1>1 DEF RulesStay, dbVars
<1>2. ASSUME NEW p \in Calls, WriteRow(p) PROVE RulesStay
  <2> DEFINE c == call[p]
  <2>1. c \in CallStates /\ c.id \in Ids /\ c.camp.row \in Rows
    BY <1>2 DEF WriteRow, CacheInv, Calling, Sound, Listing, Database
  <2>2. Merge(c.camp.row, c) \in Rows
    BY <2>1 DEF Merge, Rows, CallStates
  <2>3. Merge(c.camp.row, c) # None
    BY <2>2, NoneAssumption
  <2> QED
    BY <1>2, <2>1, <2>3 DEF WriteRow, StoreRow, RulesStay, CacheInv, Database
<1>3. ASSUME NEW p \in Calls, InsertCampaign(p) PROVE RulesStay
  <2> DEFINE c == call[p]
  <2>1. \/ UNCHANGED <<rows, rules>>
        \/ /\ rows[c.id] = None
           /\ \E row : rows' = [rows EXCEPT ![c.id] = row]
           /\ rules' = [rules EXCEPT ![c.id] = Rules]
    BY <1>3 DEF InsertCampaign, StoreRow
  <2> QED
    BY <2>1 DEF RulesStay, CacheInv, Database
<1>4. ASSUME NEW p \in Calls, InsertCreative(p) PROVE RulesStay
  BY <1>4 DEF InsertCreative, RulesStay
<1>5. CASE UNCHANGED vars
  BY <1>1, <1>5 DEF vars
<1>6. ASSUME NEW p \in Calls, Begin(p) \/ Step(p),
             ~WriteRow(p), ~InsertCampaign(p), ~InsertCreative(p)
      PROVE  UNCHANGED dbVars
  BY <1>6 DEF Begin, Step, StartList, StartGet, StartPatch, StartAddCreative,
              StartCreate, StartChange, Start, LookupList, QueryRows,
              QueryParts, FillList, FailQuery, Lookup, ReadRow, ReadParts,
              CacheCamp, InvalidateList
<1>7. CASE ExpireList \/ \E id \in Ids : ExpireCamp(id)
  BY <1>1, <1>7 DEF ExpireList, ExpireCamp
<1> QED
  BY <1>1, <1>2, <1>3, <1>4, <1>5, <1>6, <1>7 DEF Next

\* Only the queries give a call a list.
LEMMA NoNewList ==
  ASSUME CacheInv, NEW p \in Calls, Begin(p) \/ Step(p),
         ~QueryRows(p), ~QueryParts(p)
  PROVE  \A q \in Calls : call'[q].at \in {"queryParts", "fillList"} =>
                            call'[q] = call[q]
<1> DEFINE c == call[p]
<1>1. c \in CallStates /\ NoCall \in CallStates /\ Calling
  BY NoCallSound DEF CacheInv, Calling, Sound
<1>2. \E d : d.at \notin {"queryParts", "fillList"} /\ Continue(p, d)
  <2>1. CASE Begin(p)
    BY <1>1, <2>1 DEF Begin, StartList, StartGet, StartPatch, StartAddCreative,
                      StartCreate, StartChange, Start, CallStates
  <2>2. CASE \/ LookupList(p) \/ FillList(p) \/ FailQuery(p) \/ CacheCamp(p)
             \/ InvalidateList(p)
    BY <1>1, <2>2 DEF LookupList, FillList, FailQuery, CacheCamp,
                      InvalidateList, Return, Goto, AfterFound,
                      AfterInvalidate, CallStates, CacheInv, Calling, Sound
  <2>3. CASE Lookup(p) \/ ReadRow(p) \/ ReadParts(p)
    BY <1>1, <2>3 DEF Lookup, ReadRow, ReadParts, Goto, AfterFound, CallStates
  <2>4. CASE WriteRow(p) \/ InsertCampaign(p) \/ InsertCreative(p)
    BY <1>1, <2>4 DEF WriteRow, InsertCampaign, InsertCreative, CallStates
  <2> QED
    BY <2>1, <2>2, <2>3, <2>4 DEF Step
<1> QED
  BY <1>1, <1>2, ElsewhereStay

\* A call gets another list, the right one for the query to come.
LEMMA NewList ==
  ASSUME CacheInv, RuleInv, UNCHANGED <<dbVars, redisVars>>, NEW p \in Calls,
         NEW list, NEW d, Continue(p, d), d.list = list,
         \/ d.at = "queryParts" /\ Known(list)
         \/ d.at = "fillList" /\ Ruled(list)
  PROVE  RuleInv'
<1>1. \A q \in Calls : call'[q] = IF q = p THEN d ELSE call[q]
  BY DEF Continue, CacheInv, Calling
<1>2. Known(list)' = Known(list) /\ Ruled(list)' = Ruled(list)
  BY DEF Known, Ruled, dbVars
<1>3. listKey' # None => Ruled(listKey)'
  BY DEF RuleInv, Known, Ruled, dbVars, redisVars
<1>4. ASSUME NEW q \in Calls
      PROVE  /\ call'[q].at = "queryParts" => Known(call[q].list)'
             /\ call'[q].at = "fillList" => Ruled(call[q].list)'
  <2>1. CASE q = p
    BY <1>1, <2>1 DEF Known, Ruled, dbVars
  <2>2. CASE q # p
    BY <1>1, <2>2 DEF RuleInv, Known, Ruled, dbVars
  <2> QED
    BY <2>1, <2>2
<1> QED
  BY <1>3, <1>4 DEF RuleInv

LEMMA QueryRowsRules ==
  ASSUME "db" \notin Faults, CacheInv, RuleInv, NEW p \in Calls, QueryRows(p)
  PROVE  RuleInv'
<1> DEFINE ids == ActiveIds
           list == [id \in ids |-> [NoCamp EXCEPT !.row = rows[id]]]
           at == IF ids = {} THEN "fillList" ELSE "queryParts"
           d == [call[p] EXCEPT !.at = at, !.list = list]
<1>1. UNCHANGED <<dbVars, redisVars>> /\ call[p] \in CallStates
  BY DEF QueryRows, CacheInv, Calling, Sound
<1>2. Continue(p, d)
  BY DEF QueryRows, Reads
<1>3. DOMAIN list = ids /\ \A id \in ids : id \in Ids /\ rows[id] # None
  BY DEF ActiveIds
<1> HIDE DEF ids, list
<1>4. d.at = at /\ d.list = list
  BY <1>1 DEF CallStates
<1>5. Known(list) /\ (ids = {} => Ruled(list))
  BY <1>3 DEF Known, Ruled
<1> HIDE DEF d
<1> QED
  BY <1>1, <1>2, <1>4, <1>5, NewList

LEMMA AllParts ==
  ASSUME NEW parts \in [Ids -> SUBSET Rules], NEW id \in Ids
  PROVE  PartsOf(id, PairsOf(parts, Rules)) = parts[id]
<1>1. \A x \in parts[id] : <<id, x>> \in PairsOf(parts, Rules)
  BY DEF PairsOf
<1> DEFINE pairs == PairsOf(parts, Rules)
<1>2. \A q \in pairs : q[1] = id => q[2] \in parts[id]
  BY DEF PairsOf
<1> HIDE DEF pairs
<1>3. \A x \in parts[id] : <<id, x>> \in {q \in pairs : q[1] = id}
  BY <1>1 DEF pairs
<1>4. PartsOf(id, pairs) \subseteq parts[id]
  BY <1>2 DEF PartsOf
<1>5. \A x \in parts[id] : <<id, x>>[2] \in PartsOf(id, pairs)
  BY <1>3 DEF PartsOf
<1> QED
  BY <1>4, <1>5 DEF pairs

LEMMA QueryPartsRules ==
  ASSUME "db" \notin Faults, CacheInv, RuleInv, NEW p \in Calls, QueryParts(p)
  PROVE  RuleInv'
<1> DEFINE c == call[p]
           crs == PairsOf(creatives, Creatives)
           trs == PairsOf(rules, Rules)
           list == [id \in DOMAIN c.list |->
                      [row |-> c.list[id].row, creatives |-> PartsOf(id, crs),
                       rules |-> PartsOf(id, trs)]]
           d == [c EXCEPT !.at = "fillList", !.list = list]
<1>1. UNCHANGED <<dbVars, redisVars>> /\ c \in CallStates
  BY DEF QueryParts, CacheInv, Calling, Sound
<1>2. Continue(p, d)
  BY DEF QueryParts, Reads
<1>3. Known(c.list)
  BY DEF QueryParts, RuleInv
<1>4. \A id \in Ids : PartsOf(id, trs) = rules[id]
  BY AllParts DEF CacheInv, Database
<1>5. DOMAIN list = DOMAIN c.list
      /\ \A id \in DOMAIN list : list[id].rules = PartsOf(id, trs)
  OBVIOUS
<1> HIDE DEF list, trs, crs
<1>6. Ruled(list)
  BY <1>3, <1>4, <1>5 DEF Known, Ruled
<1>7. d.at = "fillList" /\ d.list = list
  BY <1>1 DEF CallStates
<1> HIDE DEF d
<1> QED
  BY <1>1, <1>2, <1>6, <1>7, NewList

LEMMA FillListRules ==
  ASSUME CacheInv, RuleInv, RulesStay, NEW p \in Calls, FillList(p)
  PROVE  RuleInv'
<1>1. \A q \in Calls : call'[q].at \in {"queryParts", "fillList"} =>
                         call'[q] = call[q]
  BY NoNewList DEF Step, FillList, QueryRows, QueryParts
<1>2. UNCHANGED dbVars /\ (listKey' = call[p].list \/ listKey' = listKey)
  BY DEF FillList
<1>3. listKey' # None => Ruled(listKey)'
  <2>1. Ruled(call[p].list) /\ (listKey # None => Ruled(listKey))
    BY DEF FillList, RuleInv
  <2> QED
    BY <1>2, <2>1 DEF Ruled, Known, dbVars
<1>4. ASSUME NEW q \in Calls
      PROVE  /\ call'[q].at = "queryParts" => Known(call[q].list)'
             /\ call'[q].at = "fillList" => Ruled(call[q].list)'
  BY <1>1, StaysRuled DEF RuleInv, Ruled, Known
<1> QED
  BY <1>3, <1>4 DEF RuleInv

LEMMA InitRules == Init => RuleInv
BY NoCallSound DEF Init, RuleInv

LEMMA NextRules ==
  ASSUME "db" \notin Faults, CacheInv, RuleInv, [Next]_vars
  PROVE  RuleInv'
<1>1. RulesStay
  BY RowsAreKept
<1>2. ASSUME listKey' \in {listKey, None},
             \A q \in Calls : call'[q].at \in {"queryParts", "fillList"} =>
                                call'[q] = call[q]
      PROVE  RuleInv'
  BY <1>1, <1>2, ListsStay
<1>3. CASE UNCHANGED vars \/ ExpireList \/ \E id \in Ids : ExpireCamp(id)
  BY <1>2, <1>3 DEF vars, redisVars, ExpireList, ExpireCamp
<1>4. ASSUME NEW p \in Calls, Begin(p) \/ Step(p)
      PROVE  RuleInv'
  <2>1. CASE QueryRows(p)
    BY <2>1, QueryRowsRules
  <2>2. CASE QueryParts(p)
    BY <2>2, QueryPartsRules
  <2>3. CASE FillList(p)
    BY <1>1, <2>3, FillListRules
  <2>4. CASE ~QueryRows(p) /\ ~QueryParts(p) /\ ~FillList(p)
    <3>1. listKey' \in {listKey, None}
      BY <1>4, <2>4 DEF Begin, Step, StartList, StartGet, StartPatch,
           StartAddCreative, StartCreate, StartChange, Start, LookupList,
           FailQuery, Lookup, ReadRow, ReadParts, CacheCamp, WriteRow,
           InsertCampaign, InsertCreative, InvalidateList, redisVars
    <3> QED
      BY <1>2, <1>4, <2>4, <3>1, NoNewList
  <2> QED
    BY <2>1, <2>2, <2>3, <2>4
<1> QED
  BY <1>3, <1>4 DEF Next

(***************************************************************************)
(* As long as no result set is cut short, campaigns:active never holds a   *)
(* campaign without all of its rules, though they are read by a query of   *)
(* their own and campaigns are inserted between the two: a campaign is     *)
(* inserted in one transaction with its rules, which never change.         *)
(***************************************************************************)
THEOREM ListsHaveAllRules ==
  ASSUME "db" \notin Faults
  PROVE  Spec => []ListHasAllRules
<1>1. RuleInv => ListHasAllRules
  BY DEF RuleInv, Ruled, ListHasAllRules
<1>2. CacheInv /\ RuleInv /\ [Next]_vars => RuleInv'
  BY NextRules
<1> QED
  BY <1>1, <1>2, InitRules, CacheInvariant, PTL DEF Spec
-----------------------------------------------------------------------------
(* One admin call at a time, no GET of a campaign, and a healthy Redis and *)
(* database: the setting in which a PATCH is the partial update it claims  *)
(* to be.                                                                  *)

Serial(a) == Admins = {a} /\ Getters = {} /\ Faults = {}

\* The call has written the row and is yet to refresh campaign:<id>.
Refreshing(c, id) ==
  /\ c.op = "patch" /\ c.written /\ c.id = id /\ rows[id] # None
  /\ c.at \in {"invalidate", "readRow", "readParts", "cache"}

\* With c the state of the admin call: no key is stale but the one it is
\* refreshing, and no row that it has read is.
Current(c) ==
  /\ \A id \in Ids :
       campKey[id] # None => campKey[id].row = rows[id] \/ Refreshing(c, id)
  /\ \/ c.at \in {"readParts", "cache", "write"}
     \/ c.at = "invalidate" /\ c.op = "create"
     => c.camp.row = rows[c.id]

SerialInv(a) ==
  /\ Current(call[a])
  /\ \A p \in Calls \ {a} : call[p].at \in Listing

LEMMA AdminContinues ==
  ASSUME CacheInv, NEW a \in Calls, SerialInv(a), NEW d,
         Continue(a, d), Current(d)'
  PROVE  SerialInv(a)'
<1>1. \A q \in Calls : call'[q] = IF q = a
                                  THEN IF d.at = "idle" THEN NoCall ELSE d
                                  ELSE call[q]
  BY DEF Continue, CacheInv, Calling
<1>2. Current(call[a])'
  <2>1. CASE d.at = "idle"
    BY <1>1, <2>1, NoCallSound DEF Current, Refreshing
  <2>2. CASE d.at # "idle"
    BY <1>1, <2>2 DEF Current, Refreshing
  <2> QED
    BY <2>1, <2>2
<1>3. \A p \in Calls \ {a} : call'[p].at \in Listing
  BY <1>1 DEF SerialInv
<1> QED
  BY <1>2, <1>3 DEF SerialInv

LEMMA ListingGoesOn ==
  ASSUME CacheInv, NEW p \in Calls,
         LookupList(p) \/ QueryRows(p) \/ QueryParts(p) \/ FillList(p)
  PROVE  /\ call[p].at \in Listing /\ UNCHANGED <<rows, campKey>>
         /\ \E d \in CallStates : d.at \in Listing /\ Continue(p, d)
<1>1. call[p].at \in Listing /\ UNCHANGED <<rows, campKey>>
  BY DEF LookupList, QueryRows, QueryParts, FillList, Listing, dbVars, redisVars
<1>2. CASE FillList(p)
  <2>1. call[p] \in CallStates
    BY DEF CacheInv, Calling, Sound
  <2>2. \E d \in CallStates : d.at = "idle" /\ Continue(p, d)
    BY <1>2, <2>1 DEF FillList, Return, Goto, CallStates, Labels
  <2> QED
    BY <1>1, <2>2 DEF Listing
<1> QED
  BY <1>1, <1>2, ListGoesOn

LEMMA OthersOnlyList ==
  ASSUME CacheInv, NEW a \in Calls, Serial(a), SerialInv(a),
         NEW p \in Calls \ {a}, Begin(p) \/ Step(p)
  PROVE  SerialInv(a)' /\ call'[a] = call[a]
<1>1. call[p].at \in Listing /\ call[p] \in CallStates /\ p \notin Admins
      /\ p \notin Getters
  BY DEF Serial, SerialInv, CacheInv, Calling, Sound
<1>2. UNCHANGED <<rows, campKey>>
      /\ \E d : d.at \in Listing /\ Continue(p, d)
  <2>1. CASE Begin(p)
    <3>1. StartList(p)
      BY <1>1, <2>1 DEF Begin, StartGet, StartPatch, StartAddCreative,
         StartCreate, StartChange
    <3>2. \E d \in CallStates : d.at = "lookupList" /\ Start(p, d)
      BY <3>1, NoCallSound DEF StartList, CallStates, Labels, Ops
    <3> QED
      BY <3>2 DEF Start, Listing, dbVars, redisVars
  <2>2. CASE Step(p)
    <3>1. LookupList(p) \/ QueryRows(p) \/ QueryParts(p) \/ FillList(p)
      BY <1>1, <2>2 DEF Step, Listing, Serial, FailQuery, Lookup, ReadRow,
         ReadParts, CacheCamp, WriteRow, InsertCampaign, InsertCreative,
         InvalidateList
    <3> QED
      BY <3>1, ListingGoesOn
  <2> QED
    BY <2>1, <2>2
<1>3. \A q \in Calls : /\ q # p => call'[q] = call[q]
                       /\ q = p => call'[q].at \in Listing
  BY <1>2, NoCallSound DEF Continue, CacheInv, Calling, Listing
<1>4. Current(call[a])'
  BY <1>2, <1>3 DEF SerialInv, Current, Refreshing
<1> QED
  BY <1>3, <1>4 DEF SerialInv

\* The admin call reads.
LEMMA AdminReads ==
  ASSUME CacheInv, NEW a \in Calls, Serial(a), SerialInv(a),
         UNCHANGED <<rows, campKey>>, Begin(a) \/ Step(a),
         ~CacheCamp(a), ~WriteRow(a), ~InsertCampaign(a)
  PROVE  SerialInv(a)'
<1> DEFINE c == call[a]
<1>1. /\ c \in CallStates /\ NoCall \in CallStates /\ Current(c)
      /\ c.at \notin Listing => c.id \in Ids
  BY NoCallSound DEF CacheInv, Calling, Sound, SerialInv
<1>2. ASSUME NEW d \in CallStates, Continue(a, d),
             \A id \in Ids : Refreshing(c, id) => Refreshing(d, id),
             \/ d.at \in {"readParts", "cache", "write"}
             \/ d.at = "invalidate" /\ d.op = "create"
             => d.camp.row = rows[d.id]
      PROVE  SerialInv(a)'
  <2>1. Current(d)'
    BY <1>1, <1>2 DEF Current, Refreshing
  <2> QED
    BY <1>2, <2>1, AdminContinues
<1>3. CASE Begin(a)
  <2>1. PICK d \in CallStates :
          d.at \in {"lookupList", "lookup", "insert"} /\ Start(a, d)
    BY <1>3, Begins
  <2> QED
    BY <1>2, <2>1 DEF Start, Refreshing
<1>4. CASE LookupList(a) \/ QueryRows(a) \/ QueryParts(a) \/ FillList(a)
  <2>1. PICK d : d.at \in Listing /\ Continue(a, d)
    BY <1>4, ListingGoesOn
  <2>2. c.at \in Listing
    BY <1>4, ListingGoesOn
  <2>3. Current(d)'
    BY <1>1, <2>1, <2>2 DEF Current, Refreshing, Listing
  <2> QED
    BY <2>1, <2>3, AdminContinues
<1>5. CASE Lookup(a)
  <2>1. c.at = "lookup" /\ c.id \in Ids
    BY <1>1, <1>5 DEF Lookup, Listing
  <2>2. campKey[c.id] # None =>
          campKey[c.id] \in Camps /\ campKey[c.id].row = rows[c.id]
    BY <1>1, <2>1 DEF Current, Refreshing, CacheInv, Keys, Camps, Campaigns
  <2>3. \E d \in CallStates :
          /\ d.at \in {"idle", "write", "readRow"} /\ d.id = c.id
          /\ d.at = "write" => d.camp.row = rows[d.id]
          /\ Continue(a, d)
    BY <1>1, <1>5, <2>1, <2>2 DEF Lookup, Goto, AfterFound, CallStates, Labels
  <2> QED
    BY <1>2, <2>1, <2>3 DEF Refreshing
<1>6. CASE ReadRow(a)
  <2>1. c.at = "readRow" /\ c.id \in Ids /\ rows[c.id] \in Rows \cup {None}
    BY <1>1, <1>6 DEF ReadRow, Listing, CacheInv, Database
  <2>2. NoCamp \in Camps
    BY DEF NoCamp, Camps
  <2>3. \E d \in CallStates :
          /\ d.at = IF rows[c.id] = None THEN "idle" ELSE "readParts"
          /\ d.id = c.id /\ d.op = c.op /\ d.written = c.written
          /\ d.camp.row = rows[d.id] /\ Continue(a, d)
    BY <1>1, <1>6, <2>1, <2>2 DEF ReadRow, CallStates, Labels, Camps
  <2> QED
    BY <1>2, <2>3 DEF Refreshing
<1>7. CASE ReadParts(a)
  <2>1. /\ c.at = "readParts" /\ c.id \in Ids /\ c.camp.row = rows[c.id]
        /\ creatives[c.id] \subseteq Creatives /\ rules[c.id] \subseteq Rules
    BY <1>1, <1>7 DEF ReadParts, Listing, Current, CacheInv, Database
  <2>2. PICK crs \in SUBSET Creatives, trs \in SUBSET Rules :
          Continue(a, [c EXCEPT !.at = "cache", !.camp.creatives = crs,
                                !.camp.rules = trs])
    BY <1>7, <2>1 DEF ReadParts, Reads
  <2>3. \E d \in CallStates :
          /\ d.at = "cache"
          /\ d.id = c.id /\ d.op = c.op /\ d.written = c.written
          /\ d.camp.row = rows[d.id] /\ Continue(a, d)
    BY <1>1, <2>1, <2>2 DEF CallStates, Labels, Camps
  <2> QED
    BY <1>2, <2>1, <2>3 DEF Refreshing
<1>8. CASE InsertCreative(a)
  <2>1. c.at = "insert"
    BY <1>8 DEF InsertCreative
  <2>2. \E d \in CallStates : d.at \in {"readRow", "idle"} /\ Continue(a, d)
    BY <1>1, <1>8 DEF InsertCreative, CallStates, Labels
  <2> QED
    BY <1>2, <2>1, <2>2 DEF Refreshing
<1>9. CASE InvalidateList(a)
  <2>1. /\ c.at = "invalidate" /\ c.op \in {"patch", "addCreative", "create"}
        /\ c.op = "create" => c.camp.row = rows[c.id]
    BY <1>1, <1>9 DEF InvalidateList, CacheInv, Calling, Sound, Current
  <2>2. \E d \in CallStates :
          /\ d.at = IF c.op = "patch" THEN "readRow"
                    ELSE IF c.op = "create" THEN "cache" ELSE "idle"
          /\ d.id = c.id /\ d.op = c.op /\ d.written = c.written
          /\ d.camp = c.camp /\ Continue(a, d)
    BY <1>1, <1>9, <2>1 DEF InvalidateList, Goto, AfterInvalidate, CallStates,
                            Labels
  <2> QED
    BY <1>2, <2>1, <2>2 DEF Refreshing
<1>10. ~FailQuery(a)
  BY DEF Serial, FailQuery
<1> QED
  BY <1>3, <1>4, <1>5, <1>6, <1>7, <1>8, <1>9, <1>10 DEF Step

\* The admin call caches what it has read, or writes.
LEMMA AdminCaches ==
  ASSUME CacheInv, NEW a \in Calls, Serial(a), SerialInv(a), CacheCamp(a)
  PROVE  SerialInv(a)'
<1> DEFINE c == call[a]
<1>1. /\ c \in CallStates /\ Current(c) /\ c.id \in Ids /\ c.at = "cache"
      /\ c.camp.row = rows[c.id] /\ UNCHANGED rows
      /\ campKey' = [campKey EXCEPT ![c.id] = c.camp]
  BY DEF CacheCamp, CacheInv, Calling, Sound, Listing, SerialInv, Current,
         Serial, dbVars
<1>2. PICK d \in CallStates :
        /\ d.at \in {"idle", "write", "invalidate"} /\ d.id = c.id
        /\ d.op = c.op /\ d.camp = c.camp
        /\ Continue(a, d)
  BY <1>1 DEF CacheCamp, Goto, AfterFound, CallStates, Labels
<1>3. \A id \in Ids : campKey'[id] # None => campKey'[id].row = rows'[id]
  BY <1>1 DEF Current, Refreshing, CacheInv, Keys
<1>4. Current(d)'
  BY <1>1, <1>2, <1>3 DEF Current
<1> QED
  BY <1>2, <1>4, AdminContinues

LEMMA AdminWrites ==
  ASSUME CacheInv, NEW a \in Calls, Serial(a), SerialInv(a),
         WriteRow(a) \/ InsertCampaign(a)
  PROVE  SerialInv(a)'
<1> DEFINE c == call[a]
<1>1. /\ c \in CallStates /\ Current(c) /\ c.id \in Ids
      /\ c.at \in {"write", "insert"} /\ UNCHANGED campKey
  BY DEF WriteRow, InsertCampaign, CacheInv, Calling, Sound, Listing,
         SerialInv, redisVars
<1>2. \A id \in Ids : campKey[id] # None =>
        campKey[id].row = rows[id] /\ rows[id] # None
  BY <1>1, NoneAssumption DEF Current, Refreshing, CacheInv, Keys, Campaigns
<1>3. Outcomes = {[applied |-> TRUE, ok |-> TRUE]}
  BY DEF Outcomes, Serial
<1>4. CASE WriteRow(a)
  <2> DEFINE row == Merge(c.camp.row, c)
  <2>1. c.op = "patch" /\ c.camp.row \in Rows
    BY <1>1, <1>4 DEF WriteRow, CacheInv, Calling, Sound, Listing, Database
  <2>2. row \in Rows /\ row # None
    <3>1. row \in Rows
      BY <1>1, <2>1 DEF Merge, Rows, CallStates
    <3> QED
      BY <3>1, NoneAssumption
  <2> HIDE DEF row
  <2>3. /\ rows' = IF rows[c.id] # None THEN [rows EXCEPT ![c.id] = row] ELSE rows
        /\ Continue(a, [c EXCEPT
             !.at = IF rows[c.id] # None THEN "invalidate" ELSE "idle",
             !.camp.row = row, !.written = TRUE])
    BY <1>3, <1>4 DEF WriteRow, StoreRow, row
  <2>4. \E d \in CallStates :
          /\ d.at = IF rows[c.id] # None THEN "invalidate" ELSE "idle"
          /\ d.id = c.id /\ d.op = "patch" /\ d.written = TRUE
          /\ Continue(a, d)
    BY <1>1, <2>1, <2>2, <2>3 DEF CallStates, Labels, Camps
  <2>5. PICK d \in CallStates :
          /\ d.at = IF rows[c.id] # None THEN "invalidate" ELSE "idle"
          /\ d.id = c.id /\ d.op = "patch" /\ d.written = TRUE
          /\ Continue(a, d)
    BY <2>4
  <2>6. Current(d)'
    BY <1>1, <1>2, <2>2, <2>3, <2>5 DEF Current, Refreshing, CacheInv, Database
  <2> QED
    BY <2>5, <2>6, AdminContinues
<1>5. CASE InsertCampaign(a)
  <2> DEFINE row == [status |-> c.status, budget |-> c.budget]
             camp == [row |-> row, rules |-> Rules,
                      creatives |-> {c.creative} \ {None}]
  <2>1. /\ c.op = "create"
        /\ c.status \in Statuses /\ c.budget \in Budgets
    BY <1>5 DEF InsertCampaign, CacheInv, Calling, Sound
  <2>2. row \in Rows /\ camp \in Camps /\ camp.row = row
    BY <1>1, <2>1 DEF Rows, Camps, CallStates
  <2> HIDE DEF row
  <2>3. /\ rows' = IF rows[c.id] = None THEN [rows EXCEPT ![c.id] = row] ELSE rows
        /\ Continue(a, [c EXCEPT
             !.at = IF rows[c.id] = None THEN "invalidate" ELSE "idle",
             !.camp = camp, !.written = TRUE])
    BY <1>3, <1>5 DEF InsertCampaign, StoreRow, row
  <2> HIDE DEF camp
  <2>4. PICK d \in CallStates :
          /\ d.at = IF rows[c.id] = None THEN "invalidate" ELSE "idle"
          /\ d.id = c.id /\ d.op = "create" /\ d.camp.row = row
          /\ Continue(a, d)
    BY <1>1, <2>1, <2>2, <2>3 DEF CallStates, Labels
  <2>5. Current(d)'
    BY <1>1, <1>2, <2>2, <2>3, <2>4 DEF Current, Refreshing, CacheInv, Database
  <2> QED
    BY <2>4, <2>5, AdminContinues
<1> QED
  BY <1>4, <1>5

LEMMA NextSerial ==
  ASSUME CacheInv, NEW a \in Calls, Serial(a), SerialInv(a), [Next]_vars
  PROVE  SerialInv(a)'
<1>1. CASE UNCHANGED vars \/ ExpireList \/ \E id \in Ids : ExpireCamp(id)
  <2>1. /\ UNCHANGED <<rows, call>>
        /\ \A id \in Ids : campKey'[id] # None => campKey'[id] = campKey[id]
    BY <1>1 DEF vars, dbVars, redisVars, ExpireList, ExpireCamp, CacheInv, Keys
  <2> QED
    BY <2>1 DEF SerialInv, Current, Refreshing
<1>2. ASSUME Begin(a) \/ Step(a), ~CacheCamp(a), ~WriteRow(a),
             ~InsertCampaign(a)
      PROVE  UNCHANGED <<rows, campKey>>
  BY <1>2 DEF Begin, Step, StartList, StartGet, StartPatch, StartAddCreative,
       StartCreate, StartChange, Start, LookupList, QueryRows, QueryParts,
       FillList, FailQuery, Lookup, ReadRow, ReadParts, InsertCreative,
       InvalidateList, dbVars, redisVars
<1>3. CASE Begin(a) \/ Step(a)
  BY <1>2, <1>3, AdminReads, AdminCaches, AdminWrites
<1> QED
  BY <1>1, <1>3, OthersOnlyList DEF Next

LEMMA InitSerial ==
  ASSUME NEW a \in Calls, Init
  PROVE  SerialInv(a)
BY NoCallSound DEF Init, SerialInv, Current, Refreshing, Listing

\* The step that leaves "write" is the UPDATE of the call.
LEMMA UpdateKeeps ==
  ASSUME CacheInv, NEW a \in Calls, Serial(a), SerialInv(a), [Next]_vars,
         call[a].at = "write", call'[a].at # "write"
  PROVE  LET c == call[a]
         IN  /\ c.status = None => rows'[c.id].status = rows[c.id].status
             /\ c.budget = None => rows'[c.id].budget = rows[c.id].budget
<1> DEFINE c == call[a]
<1>1. WriteRow(a)
  <2>1. ~(UNCHANGED vars \/ ExpireList \/ \E id \in Ids : ExpireCamp(id))
    BY DEF vars, ExpireList, ExpireCamp
  <2>2. PICK p \in Calls : Begin(p) \/ Step(p)
    BY <2>1 DEF Next
  <2>3. p = a
    BY <2>2, OthersOnlyList
  <2> QED
    BY <2>2, <2>3 DEF Begin, Step, StartList, StartGet, StartPatch,
       StartAddCreative, StartCreate, StartChange, Start, LookupList,
       QueryRows, QueryParts, FillList, FailQuery, Lookup, ReadRow, ReadParts,
       CacheCamp, InsertCampaign, InsertCreative, InvalidateList
<1>2. c.camp.row = rows[c.id] /\ c.id \in Ids
  BY DEF SerialInv, Current, CacheInv, Calling, Sound, Listing
<1>3. rows' = rows \/ rows' = [rows EXCEPT ![c.id] = Merge(rows[c.id], c)]
  BY <1>1, <1>2 DEF WriteRow, StoreRow
<1> QED
  BY <1>2, <1>3 DEF Merge, CacheInv, Database

(***************************************************************************)
(* With one admin call at a time, no GET of a campaign in between, and a   *)
(* Redis and a database that answer, a PATCH keeps the fields its body     *)
(* does not name: though it merges its body into the cached campaign, that *)
(* is the stored one, since every change refreshes campaign:<id> before    *)
(* the call returns.  Any number of bids may read the list meanwhile.      *)
(***************************************************************************)
THEOREM SerialPatchIsPartial ==
  ASSUME NEW a, Admins = {a}, Getters = {}, Faults = {}
  PROVE  Spec => PatchKeepsOtherFields
<1>1. a \in Calls /\ Serial(a)
  BY DEF Calls, Serial
<1>2. Init => SerialInv(a)
  BY <1>1, InitSerial
<1>3. CacheInv /\ SerialInv(a) /\ [Next]_vars => SerialInv(a)'
  BY <1>1, NextSerial
<1> DEFINE Partial ==
      \A p \in Admins :
        (call[p].at = "write" /\ call'[p].at # "write") =>
          LET c == call[p]
          IN  /\ c.status = None => rows'[c.id].status = rows[c.id].status
              /\ c.budget = None => rows'[c.id].budget = rows[c.id].budget
<1>4. CacheInv /\ SerialInv(a) /\ [Next]_vars => [Partial]_vars
  <2> SUFFICES ASSUME CacheInv, SerialInv(a), [Next]_vars PROVE Partial
    OBVIOUS
  <2>1. ASSUME call[a].at = "write", call'[a].at # "write"
        PROVE  LET c == call[a]
               IN  /\ c.status = None => rows'[c.id].status = rows[c.id].status
                   /\ c.budget = None => rows'[c.id].budget = rows[c.id].budget
    BY <1>1, <2>1, UpdateKeeps
  <2> QED
    BY <2>1
<1> QED
  BY <1>2, <1>3, <1>4, CacheInvariant, PTL DEF Spec, PatchKeepsOtherFields
=============================================================================
