---------------------------- MODULE MCAuthority ----------------------------
(***************************************************************************)
(* The two ways in which authority is made smaller: Policy, which reduces  *)
(* grants, and LiveProof, which searches for the grants that a skill can   *)
(* do without.  A behaviour is about one of them.  LiveProof runs over     *)
(* skills that log, read, fetch, invoke and emit, some of them choosing    *)
(* what to do by the grants they see.                                      *)
(***************************************************************************)
EXTENDS MCPolicy, LiveProof

MCFamilyOf ==
    [fetch |-> "http-request", fetch_tls |-> "http-request",
     execution |-> "read-resource", record |-> "read-resource", query |-> "read-resource",
     child |-> "invoke-skill",
     emit |-> "emit-evidence", emit_large |-> "emit-evidence",
     info |-> "log-write", warn |-> "log-write"]

Way(calls) == [calls |-> calls, says |-> "answer"]

Fixed(calls) == [ways |-> <<Way(calls)>>, adaptive |-> FALSE, timed |-> FALSE, echoes |-> FALSE,
                  required |-> {}]

Choosing(ways) == [Fixed(<<>>) EXCEPT !.ways = ways, !.adaptive = TRUE]

MCSkills ==
    [logs |-> Fixed(<<"info", "warn">>),
     idle |-> [Fixed(<<>>) EXCEPT !.echoes = TRUE],
     tells_time |-> [Fixed(<<"record", "warn">>) EXCEPT !.timed = TRUE],
     reads |-> Fixed(<<"execution", "record", "info">>),
     declares |-> [Fixed(<<"execution", "info">>) EXCEPT !.required = {"info", "warn"}],
     queries |-> Fixed(<<"query", "info">>),
     fetches |-> Fixed(<<"fetch", "execution">>),
     fetches_tls |-> Fixed(<<"fetch_tls", "info">>),
     invokes |-> Fixed(<<"child", "info">>),
     fans_out |-> Fixed(<<"child", "child">>),
     emits |-> [Fixed(<<"emit", "info">>) EXCEPT !.required = {"emit"}],
     emits_if_asked |-> Choosing(<<Way(<<"emit">>), Way(<<"info">>)>>),
     falls_back |-> Choosing(<<Way(<<"info">>), Way(<<"execution">>)>>),
     falls_back_to_less |-> Choosing(<<Way(<<"info", "warn">>), Way(<<"info">>)>>),
     tells |-> Choosing(<<Way(<<"info", "warn">>), [calls |-> <<"info">>, says |-> "less"]>>)]

Scoped(f, uses) == [family |-> f, scope |-> uses]

HttpGrants == {{}, {Scoped("http-request", {"fetch", "fetch_tls"})}}

ReadGrants == {{}, {Scoped("read-resource", {"execution", "record", "query"})},
               {Scoped("read-resource", {"execution"}), Scoped("read-resource", {"record"})}}

InvokeGrants == {{}, {Scoped("invoke-skill", {"child"})}}

EmitGrants == {{}, {Scoped("emit-evidence", {"emit"})}, {Scoped("emit-evidence", {"emit", "emit_large"})}}

LogGrants == {{}, {Scoped("log-write", {"info", "warn"})},
              {Scoped("log-write", {"info"}), Scoped("log-write", {"warn"})}}

MCEnvelopes ==
    {h \cup r \cup i \cup e \cup l :
        h \in HttpGrants, r \in ReadGrants, i \in InvokeGrants, e \in EmitGrants, l \in LogGrants}

MCImmutable == {"fetch", "execution", "record", "child", "emit", "emit_large", "info", "warn"}

MCProvable == MCImmutable

-----------------------------------------------------------------------------
VARIABLE concern    \* "policy" or "proof"

AuthorityInit ==
    \/ /\ concern = "policy"
       /\ proved = "idle" /\ comparator = "exact" /\ envelope = {}
       /\ Init /\ ProofInit
    \/ /\ concern = "proof"
       /\ case = CHOOSE c \in DOMAIN Cases : TRUE
       /\ Init /\ ProofInit

AuthorityNext ==
    \/ concern = "policy" /\ Next /\ UNCHANGED <<proof_vars, concern>>
    \/ concern = "proof" /\ ProofNext /\ UNCHANGED <<vars, concern>>

AuthoritySpec == AuthorityInit /\ [][AuthorityNext]_<<vars, proof_vars, concern>>
=============================================================================
