----------------------------- MODULE McpSession -----------------------------
(***************************************************************************)
(* One session of guild-mcp-server: a client talks JSON-RPC over stdio to  *)
(* a server that executes skills and serves the records of a registry root *)
(* which other processes write to at the same time.  The server handles    *)
(* one message after the other; it reads records from the root whenever it *)
(* needs them, but it loads the installed skills only once, at startup.    *)
(*                                                                         *)
(* A message is its method with the parameters that matter, a reply an     *)
(* error code or none.  The text of replies, schemas and descriptions is   *)
(* left out; links and URIs are kept.  How an execution runs and persists  *)
(* its record is modelled in Execution and ObjectStore: here a call ends   *)
(* with an outcome.                                                        *)
(***************************************************************************)
EXTENDS Naturals, Sequences, FiniteSets, Functions

CONSTANTS
    SUPPORTED_PROTOCOL_VERSIONS,    \* sequence of versions
    Requested,          \* the versions that clients ask for
    ExecutionIds,       \* bound: the identifiers that executions are given, numbers
    EvidenceIds,        \* bound: the identifiers of evidence records, numbers
    Builds,             \* bound: the builds of the skill that get installed, by version
    RecentLimit,        \* DEFAULT_RECENT_EXECUTION_RESOURCE_LIMIT and its twin for evidence
    QueryLimits,        \* the limits that clients put into query URIs
    RESOURCES_LIST_PAGE_SIZE, TOOLS_LIST_PAGE_SIZE, RESOURCE_TEMPLATES_LIST_PAGE_SIZE,
    None

\* Identifiers are numbers here and the first build is number 1, limits and sizes are usize
\* in the code, the list of supported versions has a last one, and None is none of these.
ASSUME BoundsAssumption ==
    /\ ExecutionIds \subseteq Nat /\ EvidenceIds \subseteq Nat
    /\ RecentLimit \in Nat /\ QueryLimits \subseteq Nat
    /\ {RESOURCES_LIST_PAGE_SIZE, TOOLS_LIST_PAGE_SIZE, RESOURCE_TEMPLATES_LIST_PAGE_SIZE} \subseteq Nat
    /\ SUPPORTED_PROTOCOL_VERSIONS \in Seq(Range(SUPPORTED_PROTOCOL_VERSIONS)) \ {<<>>}
    /\ 1 \in Builds
    /\ None \notin Nat \cup Range(SUPPORTED_PROTOCOL_VERSIONS)
    /\ None \notin [v : {1}, list : {"tools", "resource-templates", "resources"}, offset : Nat]

VARIABLES
    state, protocol_version,    \* SessionState
    loaded,         \* the builds that LocalRegistry::load saw
    installed,      \* the builds on disk
    executions,     \* the whole execution records of the root
    evidence,       \* the whole evidence records of the root
    partial,        \* identifiers of execution records that are only half written
    clock,
    call,           \* the tools/call that is being executed, or None
    ran,            \* the builds that the session executed
    reply,          \* the last reply
    goal,           \* what a behaviour is about (a bound): the client keeps a URI, it walks
                    \* through a list, or skills are installed meanwhile
    held,           \* the URI it keeps, or None
    paging          \* the client's walk through the pages of a list, from the first one

store == <<executions, evidence, partial, clock, installed>>
session == <<state, protocol_version, loaded, goal>>
vars == <<session, store, call, ran, reply, held, paging>>

Methods == {"tools/list", "tools/call", "resources/list", "resources/read",
            "resources/templates/list", "unknown"}

Uri(kind, id) == [kind |-> kind, id |-> id]

-----------------------------------------------------------------------------
(* What the registry reads from its root *)

\* sort_by: each member comes before those that follow it.
Sorted(S, before(_, _)) ==
    CHOOSE s \in [1..Cardinality(S) -> S] : \A i, j \in DOMAIN s : i < j => before(s[i], s[j])

\* compare_execution_records_for_query: latest end first, then latest start, then the
\* larger identifier.
compare_execution_records_for_query(r, s) ==
    \/ r.finished > s.finished
    \/ r.finished = s.finished /\ r.started > s.started
    \/ r.finished = s.finished /\ r.started = s.started /\ r.id > s.id

\* A file that is half written fails the whole scan.
load_execution_records_sorted ==
    IF partial # {} THEN None
    ELSE Sorted(executions, compare_execution_records_for_query)

\* compare_evidence_records_desc: the larger URI first.
compare_evidence_records_desc(d, e) == d > e

load_evidence_records_sorted == Sorted(evidence, compare_evidence_records_desc)

Take(s, n) == SubSeq(s, 1, IF n < Len(s) THEN n ELSE Len(s))

Skip(s, n) == SubSeq(s, n + 1, Len(s))

execution_record_matches_query(r, kind) ==
    CASE kind = "recent" -> TRUE
      [] kind = "failures" -> r.status \in {"failed", "rejected"}
      [] kind = "by-status" -> r.status = "succeeded"
      [] kind = "by-skill" -> r.skill = "ours"

\* The records are filtered in the order they were sorted in.
query_execution_records(kind, limit) ==
    LET filtered == Sorted({r \in executions : execution_record_matches_query(r, kind)},
                           compare_execution_records_for_query)
        results == Take(filtered, limit)
    IN  [results |-> results, total_matches |-> Len(filtered),
         truncated |-> Len(filtered) > Len(results)]

QueryKinds == {"recent", "failures", "by-status", "by-skill"}

Record(id) == CHOOSE r \in executions : r.id = id

read_execution_resource(id) == \E r \in executions : r.id = id

read_execution_query_resource == partial = {}

read_evidence(id) == id \in evidence

\* read_resource finds something to read.
Readable(uri) ==
    IF uri.kind \in QueryKinds THEN read_execution_query_resource
    ELSE IF uri.kind = "execution" THEN read_execution_resource(uri.id)
    ELSE read_evidence(uri.id)

execution_resource_link(r) == Uri("execution", r.id)

\* Mutant: the link is made from the number of the child, not from its identifier.
child_execution_content_blocks_by_number(r) == {Uri("execution", 1) : c \in r.children}

child_execution_content_blocks(r) == {Uri("execution", c) : c \in r.children}

evidence_content_blocks(r) == {Uri(k, e) : k \in {"payload", "metadata"}, e \in r.evidence}

\* The links in the content of a tools/call reply, whether the call succeeded or failed.
inspect_content(r) ==
    {execution_resource_link(r)} \cup child_execution_content_blocks(r)
        \cup evidence_content_blocks(r)

-----------------------------------------------------------------------------
(* Lists and cursors *)

Cursor(list, offset) == [v |-> 1, list |-> list, offset |-> offset]

\* decode_list_cursor: the offset, or None when the cursor is refused.
decode_list_cursor(cursor, list, total) ==
    IF cursor.v # 1 \/ cursor.list # list THEN None
    ELSE IF (total = 0 /\ cursor.offset = 0) \/ cursor.offset < total THEN cursor.offset
    ELSE None

list_offset_from_params(cursor, list, total) ==
    IF cursor = None THEN 0 ELSE decode_list_cursor(cursor, list, total)

\* Mutant: the next page starts one further.
paginate_list_skips(items, offset, size, list) ==
    LET page == Take(Skip(items, offset), size)
        next == offset + Len(page) + 1
    IN  [items |-> page, next |-> IF next < Len(items) THEN Cursor(list, next) ELSE None]

paginate_list(items, offset, size, list) ==
    LET page == Take(Skip(items, offset), size)
        next == offset + Len(page)
    IN  [items |-> page, next |-> IF next < Len(items) THEN Cursor(list, next) ELSE None]

recent_executions_query_resource == Uri("recent", 10)

recent_failures_query_resource == Uri("failures", 10)

list_recent_execution_records(limit) == Take(load_execution_records_sorted, limit)

list_recent_evidence_records(limit) == Take(load_evidence_records_sorted, limit)

execution_record_to_resource(r) == Uri("execution", r.id)

evidence_metadata_resource(e) == Uri("metadata", e)

\* What resources/list lists: two queries, then recent executions, then recent evidence.
Resources ==
    LET records == list_recent_execution_records(RecentLimit)
        proofs == list_recent_evidence_records(RecentLimit)
    IN  <<recent_executions_query_resource, recent_failures_query_resource>>
            \o [i \in DOMAIN records |-> execution_record_to_resource(records[i])]
            \o [i \in DOMAIN proofs |-> evidence_metadata_resource(proofs[i])]

tools == <<Uri("inspect", 0)>>

resource_templates_catalog ==
    <<Uri("execution", 0), Uri("payload", 0), Uri("metadata", 0), Uri("blob", 0),
      Uri("recent", 0), Uri("failures", 0), Uri("by-status", 0), Uri("by-skill", 0)>>

\* The cursors a client may send: none, the one it was given for this list or for another
\* one, and ones it made up.
Cursors(list) ==
    {None, paging.cursor, Cursor(list, 99), [Cursor(list, 0) EXCEPT !.v = 2], Cursor(list, 1)}

-----------------------------------------------------------------------------
(* Replies *)

Succeeds(method) == reply' = [to |-> method, error |-> None]

Fails(method, code) == reply' = [to |-> method, error |-> code]

\* A client that keeps a URI keeps the one it has or one of the reply's.
Hands(uris) == \E uri \in {held} \cup {u \in uris : goal = "keep"} : held' = uri

NoPaging == [cursor |-> None, start |-> <<>>, seen |-> <<>>, finish |-> None]

-----------------------------------------------------------------------------
TypeOK ==
    /\ state \in {"pre", "waiting", "ready"}
    /\ protocol_version \in Range(SUPPORTED_PROTOCOL_VERSIONS) \cup {None}
    /\ (protocol_version = None) = (state = "pre")
    /\ loaded \subseteq installed /\ installed \subseteq Builds
    /\ \A r \in executions : r.id \in ExecutionIds \ partial /\ r.finished <= clock
    /\ evidence \subseteq EvidenceIds /\ partial \subseteq ExecutionIds
    /\ call = None \/ call.id \in ExecutionIds

Init ==
    /\ goal \in {"keep", "walk", "install"}
    /\ state = "pre" /\ protocol_version = None
    /\ installed \in (IF goal = "install" THEN {{}, {1}} ELSE {{1}}) /\ loaded = installed
    /\ executions = {} /\ evidence = {} /\ partial = {} /\ clock = 0
    /\ call = None /\ ran = {} /\ reply = None /\ held = None /\ paging = NoPaging

Idle == call = None /\ reply = None

Ready == Idle /\ state = "ready"

\* handle_message: text that is no JSON, a batch, no request, or of another JSON-RPC.
HandleMalformed ==
    /\ Idle
    /\ \E code \in {"ERROR_PARSE", "ERROR_INVALID_REQUEST"} : Fails("malformed", code)
    /\ UNCHANGED <<session, store, call, ran, held, paging>>

\* A message without id is never answered, and only one of them has an effect.
HandleNotification ==
    /\ Idle
    /\ \E method \in {"notifications/initialized"} \cup Methods :
        state' = IF method = "notifications/initialized" /\ state = "waiting" THEN "ready" ELSE state
    /\ UNCHANGED <<protocol_version, loaded, goal, store, call, ran, reply, held, paging>>

negotiate_protocol_version(v) ==
    IF v \in Range(SUPPORTED_PROTOCOL_VERSIONS) THEN v
    ELSE SUPPORTED_PROTOCOL_VERSIONS[Len(SUPPORTED_PROTOCOL_VERSIONS)]

\* Mutant: a second initialize is accepted.
HandleInitialize_again ==
    /\ Idle
    /\ \E v \in Requested :
        /\ protocol_version' = negotiate_protocol_version(v) /\ state' = "waiting"
        /\ Succeeds("initialize")
    /\ UNCHANGED <<loaded, goal, store, call, ran, held, paging>>

HandleInitialize ==
    /\ Idle
    /\ \E v \in Requested \cup {None} :
        IF state # "pre" THEN Fails("initialize", "ERROR_INVALID_REQUEST") /\ UNCHANGED session
        ELSE IF v = None THEN Fails("initialize", "ERROR_INVALID_PARAMS") /\ UNCHANGED session
        ELSE /\ protocol_version' = negotiate_protocol_version(v) /\ state' = "waiting"
             /\ Succeeds("initialize") /\ UNCHANGED <<loaded, goal>>
    /\ UNCHANGED <<store, call, ran, held, paging>>

HandlePing ==
    /\ Idle /\ Succeeds("ping")
    /\ UNCHANGED <<session, store, call, ran, held, paging>>

HandleNotReady ==
    /\ Idle /\ state # "ready"
    /\ \E method \in Methods : Fails(method, "ERROR_SERVER_NOT_INITIALIZED")
    /\ UNCHANGED <<session, store, call, ran, held, paging>>

HandleUnknown ==
    /\ Ready /\ Fails("unknown", "ERROR_METHOD_NOT_FOUND")
    /\ UNCHANGED <<session, store, call, ran, held, paging>>

\* The client walks: it follows the cursor it was given, from the first page on.
Walk(items, cursor, page) ==
    LET first == cursor = None
    IN  paging' = IF goal # "walk" \/ (~first /\ cursor # paging.cursor) THEN paging
                  ELSE [cursor |-> page.next,
                        start |-> IF first THEN items ELSE paging.start,
                        seen |-> (IF first THEN <<>> ELSE paging.seen) \o page.items,
                        finish |-> IF page.next = None THEN items ELSE None]

\* One page of a list, or a refused cursor.
ListReply(method, list, items, size) ==
    \E cursor \in Cursors(list) :
        LET offset == list_offset_from_params(cursor, list, Len(items))
            page == paginate_list(items, offset, size, list)
        IN  IF offset = None
            THEN Fails(method, "ERROR_INVALID_PARAMS") /\ UNCHANGED <<held, paging>>
            ELSE /\ Succeeds(method) /\ Walk(items, cursor, page)
                 /\ Hands(IF list = "resources" THEN Range(page.items) ELSE {})

HandleToolsList ==
    /\ Ready /\ ListReply("tools/list", "tools", tools, TOOLS_LIST_PAGE_SIZE)
    /\ UNCHANGED <<session, store, call, ran>>

HandleTemplatesList ==
    /\ Ready /\ ListReply("resources/templates/list", "resource-templates",
                         resource_templates_catalog, RESOURCE_TEMPLATES_LIST_PAGE_SIZE)
    /\ UNCHANGED <<session, store, call, ran>>

HandleResourcesList ==
    /\ Ready
    /\ IF partial # {}
       THEN Fails("resources/list", "ERROR_SERVER") /\ UNCHANGED <<held, paging>>
       ELSE ListReply("resources/list", "resources", Resources, RESOURCES_LIST_PAGE_SIZE)
    /\ UNCHANGED <<session, store, call, ran>>

\* read_resource, for a record, its evidence or a query.  A query's result hands out the
\* records it lists.
HandleResourcesRead ==
    /\ Ready
    /\ \/ \E uri \in ({held} \ {None}) \cup {Uri("execution", i) : i \in ExecutionIds}
                            \cup [kind : QueryKinds, id : QueryLimits] :
            IF ~Readable(uri) THEN Fails("resources/read", "ERROR_SERVER") /\ UNCHANGED held
            ELSE IF uri.kind \in QueryKinds
            THEN LET result == query_execution_records(uri.kind, uri.id)
                 IN  /\ Succeeds("resources/read")
                     /\ Hands({Uri("execution", r.id) : r \in Range(result.results)})
            ELSE Succeeds("resources/read") /\ UNCHANGED held
       \/ Fails("resources/read", "ERROR_INVALID_PARAMS") /\ UNCHANGED held
    /\ UNCHANGED <<session, store, call, ran, paging>>

Newest(builds) == CHOOSE d \in builds : \A e \in builds : e <= d

FreshIds == ExecutionIds \ ({r.id : r \in executions} \cup partial)

CallId == IF call = None THEN {} ELSE {call.id}

Starts(builds) ==
    \E id \in FreshIds :
        /\ builds # {} /\ ran' = ran \cup {Newest(builds)}
        /\ call' = [id |-> id, started |-> clock, record |-> None]

\* Mutant: the newest build on disk is executed.
HandleToolsCall_reloads ==
    /\ Ready /\ Starts(installed) /\ UNCHANGED <<session, store, reply, held, paging>>

\* handle_tools_call up to the start of the guest: bad arguments or another tool, a skill
\* that was not there when the registry was loaded, or an execution.
HandleToolsCall ==
    /\ Ready
    /\ \/ Fails("tools/call", "ERROR_INVALID_PARAMS") /\ UNCHANGED <<call, ran>>
       \/ loaded = {} /\ Fails("tools/call", "ERROR_SERVER") /\ UNCHANGED <<call, ran>>
       \/ Starts(loaded) /\ UNCHANGED reply
    /\ UNCHANGED <<session, store, held, paging>>

\* The execution ends and its record, with its evidence and at most one child, is on disk.
CallPersists ==
    /\ call # None /\ call.record = None /\ call.id \in FreshIds
    /\ \E status \in {"succeeded", "failed"}, child \in {{}, {call.id + 1}},
          new \in {{}} \cup {{e} : e \in EvidenceIds \ evidence} :
        LET Rec(id, kids, evs) == [id |-> id, skill |-> "ours", status |-> status,
                                   started |-> call.started, finished |-> clock + 1,
                                   evidence |-> evs, children |-> kids]
        IN  /\ child \subseteq FreshIds
            /\ executions' = executions \cup {Rec(c, {}, {}) : c \in child}
                                        \cup {Rec(call.id, child, new)}
            /\ evidence' = evidence \cup new /\ clock' = clock + 1
            /\ call' = [call EXCEPT !.record = Rec(call.id, child, new)]
    /\ UNCHANGED <<session, partial, installed, ran, reply, held, paging>>

\* The reply to the call: from the record in memory when the execution succeeded, from the
\* record that the receipt names when it did not, and a plain error when there is none.
CallReplies ==
    /\ call # None
    /\ IF call.record # None
       THEN LET record == IF call.record.status = "succeeded" THEN call.record ELSE Record(call.id)
            IN  /\ Succeeds("tools/call") /\ Hands(inspect_content(record))
       ELSE Fails("tools/call", "ERROR_SERVER") /\ UNCHANGED held
    /\ call' = None
    /\ UNCHANGED <<session, store, ran, paging>>

\* The reply is written to stdout.
write_json_line ==
    /\ reply # None /\ reply' = None
    /\ UNCHANGED <<session, store, call, ran, held, paging>>

\* Other processes write while the server waits or executes; that they also write between
\* a reply and its way to stdout makes no difference to either.
Quiet == reply = None

\* Another process creates the file of its execution record, and then writes it, or dies
\* in between.
OtherCreates ==
    /\ Quiet /\ goal # "install"
    /\ \E id \in FreshIds \ CallId : partial' = partial \cup {id}
    /\ UNCHANGED <<session, executions, evidence, clock, installed, call, ran, reply, held, paging>>

OtherWrites ==
    /\ Quiet
    /\ \E id \in partial, t \in {clock, clock + 1} :
        /\ executions' = executions \cup
                {[id |-> id, skill |-> "other", status |-> "rejected", started |-> 0,
                  finished |-> t, evidence |-> {}, children |-> {}]}
        /\ partial' = partial \ {id} /\ clock' = t
    /\ UNCHANGED <<session, evidence, installed, call, ran, reply, held, paging>>

OtherInstalls ==
    /\ Quiet /\ goal = "install"
    /\ \E d \in Builds : installed' = installed \cup {d} /\ installed' # installed
    /\ UNCHANGED <<session, executions, evidence, partial, clock, call, ran, reply, held, paging>>

Next ==
    \/ HandleMalformed \/ HandleNotification \/ HandleInitialize \/ HandlePing
    \/ HandleNotReady \/ HandleUnknown \/ HandleToolsList \/ HandleTemplatesList
    \/ HandleResourcesList \/ HandleResourcesRead
    \/ HandleToolsCall \/ CallPersists \/ CallReplies \/ write_json_line
    \/ OtherCreates \/ OtherWrites \/ OtherInstalls

Spec == Init /\ [][Next]_vars

-----------------------------------------------------------------------------
\* The handshake goes one way: a session moves from its first state to waiting to ready
\* (handle_initialize, notifications/initialized), the version it negotiated never changes again,
\* and until it is ready no URI is handed out and nothing is executed for the client.
HandshakeHolds ==
    [][/\ <<state, state'>> \in {<<"pre", "waiting">>, <<"waiting", "ready">>} \/ state' = state
       /\ protocol_version # None => protocol_version' = protocol_version
       /\ state # "ready" => held' = held /\ call' = call]_vars

\* Whatever URI a reply handed out can be read from then on, however other processes
\* write to the root: records, their children and their evidence always, queries
\* as long as no execution record is half written.
HandedOutIsReadable ==
    held # None => Readable(held) \/ (held.kind \in QueryKinds /\ partial # {})

\* A client that follows the cursors of a list to the end has seen every item that was
\* listed when it began and still is listed when it ends, although the list changes under
\* its cursors; and if the list did not change it has seen each item once and in order.
PagesCoverTheList ==
    paging.finish # None =>
        /\ Range(paging.start) \cap Range(paging.finish) \subseteq Range(paging.seen)
        /\ paging.start = paging.finish => paging.seen = paging.start

\* A query replies with the front of what matches: nothing it left out comes before
\* something it holds, it holds as much as its limit allows, and it says how much there
\* is and whether it left something out.
QueriesAreHonest ==
    reply = [to |-> "resources/read", error |-> None] /\ partial = {} => \A kind \in QueryKinds, limit \in QueryLimits :
        LET q == query_execution_records(kind, limit)
            matching == {r \in executions : execution_record_matches_query(r, kind)}
            shown == Range(q.results)
        IN  /\ shown \subseteq matching /\ Cardinality(shown) = Len(q.results)
            /\ \A r \in shown, s \in matching \ shown : compare_execution_records_for_query(r, s)
            /\ Len(q.results) <= limit /\ (q.truncated => Len(q.results) = limit)
            /\ q.truncated = (shown # matching) /\ q.total_matches = Cardinality(matching)

\* What a session lists is what there is, page by page and query by query.
ListsAreComplete == PagesCoverTheList /\ QueriesAreHonest

\* One session executes one build of a skill: installing a newer one next to a running
\* server changes nothing for its clients until it is restarted.
SessionPinsSkill == Cardinality(ran) <= 1

=============================================================================
