---------------------------- MODULE PolicyProofs ----------------------------
(***************************************************************************)
(* What an evaluation keeps for every set of grants, manifests and rules:  *)
(* it widens nothing, it stays within the manifest and within the caps of  *)
(* the rules, what it denies stays denied, what it reports as allowed is   *)
(* what was requested, and a capability that a skill requires can be used  *)
(* when it is not rejected.  A reduction of constraints is followed field  *)
(* by field to the operations that the reduced grant authorizes, and to    *)
(* the scopes that it must not leave empty.                                *)
(***************************************************************************)
EXTENDS Policy, TLAPS

-----------------------------------------------------------------------------
(* Fields *)

AllowsUnder(scope, name) == scope = Unbounded \/ IsUnder(name, scope)

AllowsUpTo(limit, n) == limit = Unbounded \/ n <= limit

\* A scope that reduce_required_enum_scope leaves allows only what both sides allow.
LEMMA EnumScope ==
    ASSUME NEW p \in Scope, NEW r \in Scope,
           NEW c, c = reduce_required_enum_scope(p, r), c # Mismatch
    PROVE  c \in Scope /\ \A v : AllowsIn(c, v) => AllowsIn(p, v) /\ AllowsIn(r, v)
  BY Zenon, MarksAssumption DEF Scope, reduce_required_enum_scope, AllowsIn

\* A scope that reduce_required_intersecting_enum_scope leaves allows only what both sides
\* allow, and where it leaves none they allow nothing in common.
LEMMA IntersectingScope ==
    ASSUME NEW p \in Scope, NEW r \in Scope,
           NEW c, c = reduce_required_intersecting_enum_scope(p, r)
    PROVE  /\ c # Mismatch => c \in Scope
           /\ c # Mismatch => \A v : AllowsIn(c, v) => AllowsIn(p, v) /\ AllowsIn(r, v)
           /\ c = Mismatch => \A v : ~(AllowsIn(p, v) /\ AllowsIn(r, v))
  <1> USE MarksAssumption DEF Scope, reduce_required_intersecting_enum_scope, AllowsIn, Nonempty
  <1>1. CASE r = Unbounded \/ p = Unbounded
    BY Zenon, <1>1
  <1>2. CASE r # Unbounded /\ p # Unbounded
    <2>1. c = IF r \cap p = {} THEN Mismatch ELSE r \cap p
      BY Zenon, <1>2
    <2>2. r \cap p \in SUBSET Name
      BY Zenon, <1>2
    <2> QED
      BY Zenon, <1>2, <2>1, <2>2
  <1> QED
    BY Zenon, <1>1, <1>2

\* A limit that reduce_required_max_bytes leaves allows only what both sides allow.
LEMMA MaxBytes ==
    ASSUME NEW p \in Limit, NEW r \in Limit,
           NEW c, c = reduce_required_max_bytes(p, r), c # Mismatch
    PROVE  /\ c \in Limit
           /\ c = Unbounded <=> p = Unbounded /\ r = Unbounded
           /\ \A n \in Nat : AllowsUpTo(c, n) => AllowsUpTo(p, n) /\ AllowsUpTo(r, n)
  <1> USE MarksAssumption DEF Limit, reduce_required_max_bytes, AllowsUpTo
  <1>1. CASE r = Unbounded \/ p = Unbounded
    BY Zenon, <1>1
  <1>2. CASE r \in Nat /\ p \in Nat
    BY <1>2
  <1> QED
    BY Zenon, <1>1, <1>2

\* What lies below a name below a scope lies below the scope.
LEMMA UnderUnder ==
    ASSUME NEW v, NEW S, NEW T, IsUnder(v, S), \A n \in S : IsUnder(n, T)
    PROVE  IsUnder(v, T)
  <1>1. PICK n \in S : <<v, n>> \in Under
    BY Zenon DEF IsUnder
  <1>2. PICK m \in T : <<n, m>> \in Under
    BY Zenon, <1>1 DEF IsUnder
  <1>3. <<v, m>> \in Under
    <2>1. <<v, n>>[2] = <<n, m>>[1]
      BY Zenon
    <2>2. <<<<v, n>>[1], <<n, m>>[2]>> \in Under
      BY <1>1, <1>2, <2>1, UnderAssumption, Zenon
    <2> QED
      BY Zenon, <2>2
  <1> QED
    BY Zenon, <1>2, <1>3 DEF IsUnder

\* Paths, and the suffixes of hosts: what reduce_required_path_prefix_scope leaves allows
\* only what both sides allow.
LEMMA PrefixScope ==
    ASSUME NEW p \in Scope, NEW r \in Scope,
           NEW c, c = reduce_required_path_prefix_scope(p, r), c # Mismatch
    PROVE  /\ c \in Scope
           /\ c = Unbounded <=> p = Unbounded /\ r = Unbounded
           /\ \A v : AllowsUnder(c, v) => AllowsUnder(p, v) /\ AllowsUnder(r, v)
  <1>1. CASE r = Unbounded \/ p = Unbounded
    BY Zenon, <1>1 DEF reduce_required_path_prefix_scope, AllowsUnder
  <1>2. CASE r # Unbounded /\ p # Unbounded
    <2> DEFINE kept == {n \in r : IsUnder(n, p)}
    <2>1. c = kept
      BY Zenon, <1>2 DEF reduce_required_path_prefix_scope, Nonempty
    <2>2. kept \in SUBSET Name
      BY Zenon, <1>2 DEF Scope
    <2>3. c \in Scope /\ c # Unbounded
      BY Zenon, <2>1, <2>2, MarksAssumption DEF Scope
    <2>4. ASSUME NEW v, IsUnder(v, c) PROVE IsUnder(v, p) /\ IsUnder(v, r)
      <3>1. \A n \in c : IsUnder(n, p)
        BY Zenon, <2>1
      <3>2. IsUnder(v, p)
        BY Zenon, <2>4, <3>1, UnderUnder
      <3>3. IsUnder(v, r)
        BY Zenon, <2>1, <2>4 DEF IsUnder
      <3> QED
        BY Zenon, <3>2, <3>3
    <2> QED
      BY Zenon, <1>2, <2>3, <2>4 DEF AllowsUnder
  <1> QED
    BY Zenon, <1>1, <1>2

-----------------------------------------------------------------------------
(* Hosts *)

\* HostFields of two constraints are equal, or those of one are empty.
Alike(c, d) ==
    \/ (c.hosts = Unbounded <=> d.hosts = Unbounded) /\ (c.suffixes = Unbounded <=> d.suffixes = Unbounded)
    \/ c.hosts = Unbounded /\ c.suffixes = Unbounded
    \/ d.hosts = Unbounded /\ d.suffixes = Unbounded

\* UniformHosts, for a pair.
LEMMA AlikeIsUniform ==
    ASSUME NEW c, NEW d, HostFields(c) = HostFields(d) \/ {} \in {HostFields(c), HostFields(d)}
    PROVE  Alike(c, d)
  <1>1. ASSUME NEW e
        PROVE  /\ "hosts" \in HostFields(e) <=> e.hosts # Unbounded
               /\ "suffixes" \in HostFields(e) <=> e.suffixes # Unbounded
    BY Zenon DEF HostFields
  <1> QED
    BY Zenon, <1>1 DEF Alike

\* Where both sides restrict hosts with the same fields, the reduced fields match only
\* hosts that both sides match.
LEMMA HostScope ==
    ASSUME NEW p \in HttpRequestConstraints, NEW r \in HttpRequestConstraints,
           NEW c, c.hosts = reduce_required_http_hosts(p, r), c.hosts # Mismatch,
           c.suffixes = reduce_required_http_host_suffixes(p, r), c.suffixes # Mismatch
    PROVE  /\ c.hosts \in Scope /\ c.suffixes \in Scope
           /\ c.hosts = Unbounded <=> p.hosts = Unbounded /\ r.hosts = Unbounded
           /\ c.suffixes = Unbounded <=> p.suffixes = Unbounded /\ r.suffixes = Unbounded
           /\ Alike(p, r) => \A h : matches_http_host(c, h) =>
                                matches_http_host(p, h) /\ matches_http_host(r, h)
  <1>1. /\ p.hosts \in Scope /\ r.hosts \in Scope
        /\ p.suffixes \in Scope /\ r.suffixes \in Scope
    BY Zenon DEF HttpRequestConstraints
  <1>2. /\ c.suffixes \in Scope
        /\ c.suffixes = Unbounded <=> p.suffixes = Unbounded /\ r.suffixes = Unbounded
        /\ \A v : AllowsUnder(c.suffixes, v) =>
                    AllowsUnder(p.suffixes, v) /\ AllowsUnder(r.suffixes, v)
    BY Zenon, <1>1, PrefixScope DEF reduce_required_http_host_suffixes
  <1>3. CASE r.hosts = Unbounded
    <2>1. c.hosts = p.hosts
      BY Zenon, <1>3 DEF reduce_required_http_hosts
    <2> QED
      BY Zenon, <1>1, <1>2, <1>3, <2>1 DEF Alike, matches_http_host, AllowsUnder, OrEmpty, IsUnder
  <1>4. CASE r.hosts # Unbounded /\ p.hosts = Unbounded /\ p.suffixes = Unbounded
    <2>1. c.hosts = r.hosts
      BY Zenon, <1>4 DEF reduce_required_http_hosts
    <2> QED
      BY Zenon, <1>1, <1>2, <1>4, <2>1 DEF Alike, matches_http_host, AllowsUnder, OrEmpty, IsUnder
  <1>5. CASE r.hosts # Unbounded /\ ~(p.hosts = Unbounded /\ p.suffixes = Unbounded)
    <2> DEFINE kept == {h \in r.hosts : h \in OrEmpty(p.hosts) \/ IsUnder(h, OrEmpty(p.suffixes))}
    <2>1. c.hosts = kept
      BY Zenon, <1>5 DEF reduce_required_http_hosts, Nonempty
    <2>2. kept \in SUBSET Name
      BY Zenon, <1>1, <1>5 DEF Scope
    <2>3. c.hosts \in Scope /\ c.hosts # Unbounded
      BY Zenon, <2>1, <2>2, MarksAssumption DEF Scope
    <2>4. ASSUME Alike(p, r), NEW h, matches_http_host(c, h)
          PROVE  matches_http_host(p, h) /\ matches_http_host(r, h)
      <3>1. CASE h \in kept
        BY Zenon, <1>5, <3>1 DEF matches_http_host, OrEmpty
      <3>2. CASE c.suffixes # Unbounded /\ IsUnder(h, c.suffixes)
        BY Zenon, <1>2, <1>5, <2>4, <3>2 DEF Alike, matches_http_host, AllowsUnder, OrEmpty
      <3> QED
        BY Zenon, <2>1, <2>3, <2>4, <3>1, <3>2 DEF matches_http_host, OrEmpty, IsUnder
    <2> QED
      BY Zenon, <1>2, <1>5, <2>3, <2>4
  <1> QED
    BY Zenon, <1>3, <1>4, <1>5

-----------------------------------------------------------------------------
(* The http-request family *)

\* What evaluate_http_request_constraints asks of the request before limits apply.
HttpMatches(c, op) ==
    \/ c = Unconstrained
    \/ /\ AllowsIn(c.methods, op.method)
       /\ matches_http_host(c, op.host)
       /\ AllowsUnder(c.paths, op.path)
       /\ op.loopback => c.allow_loopback = TRUE

\* Constraints that follow redirects bound them, as validate demands.
Bounded(c) == c.follow_redirects = TRUE => c.max_redirects # Unbounded

\* A request under c passes under d.
BelowHttp(c, d) ==
    \A op \in Operation : op.family = "http-request" =>
        /\ HttpMatches(c, op) => HttpMatches(d, op)
        /\ MayReceive(c, op.bytes) => MayReceive(d, op.bytes)
        /\ MayFollow(c, op.redirects) => MayFollow(d, op.redirects)

\* The fields that ReduceHttp leaves, none of which is a mismatch.
ReducedFields(c, p, r, follow, loopback) ==
    /\ c \in [methods : {c.methods}, hosts : {c.hosts}, suffixes : {c.suffixes},
              paths : {c.paths}, max_response_bytes : {c.max_response_bytes},
              follow_redirects : {follow}, max_redirects : {c.max_redirects},
              allow_loopback : {loopback}]
    /\ c.methods = reduce_required_enum_scope(p.methods, r.methods)
    /\ c.hosts = reduce_required_http_hosts(p, r)
    /\ c.suffixes = reduce_required_http_host_suffixes(p, r)
    /\ c.paths = reduce_required_path_prefix_scope(p.paths, r.paths)
    /\ c.max_response_bytes = reduce_required_max_bytes(p.max_response_bytes, r.max_response_bytes)
    /\ c.max_redirects = IF follow = TRUE
                         THEN reduce_required_max_bytes(p.max_redirects, r.max_redirects)
                         ELSE Unbounded
    /\ Mismatch \notin {c.methods, c.hosts, c.suffixes, c.paths, c.max_response_bytes,
                        follow, c.max_redirects, loopback}

\* Unless one field cannot be reduced, ReduceHttp leaves the reduced fields.
LEMMA HttpFields ==
    ASSUME NEW p, NEW r, NEW follow, NEW loopback,
           NEW c, c = ReduceHttp(p, r, follow, loopback), c # Mismatch
    PROVE  ReducedFields(c, p, r, follow, loopback)
  <1> DEFINE f == [methods |-> reduce_required_enum_scope(p.methods, r.methods),
                   hosts |-> reduce_required_http_hosts(p, r),
                   suffixes |-> reduce_required_http_host_suffixes(p, r),
                   paths |-> reduce_required_path_prefix_scope(p.paths, r.paths),
                   max_response_bytes |->
                        reduce_required_max_bytes(p.max_response_bytes, r.max_response_bytes),
                   follow_redirects |-> follow,
                   max_redirects |-> IF follow = TRUE
                       THEN reduce_required_max_bytes(p.max_redirects, r.max_redirects)
                       ELSE Unbounded,
                   allow_loopback |-> loopback]
  <1>1. c = f /\ \A field \in DOMAIN f : f[field] # Mismatch
    BY Zenon DEF ReduceHttp, OrMismatch
  <1>2. DOMAIN f = {"methods", "hosts", "suffixes", "paths", "max_response_bytes",
                    "follow_redirects", "max_redirects", "allow_loopback"}
    BY Zenon
  <1>3. /\ f.methods # Mismatch /\ f.hosts # Mismatch /\ f.suffixes # Mismatch
        /\ f.paths # Mismatch /\ f.max_response_bytes # Mismatch
        /\ f.follow_redirects # Mismatch /\ f.max_redirects # Mismatch
        /\ f.allow_loopback # Mismatch
    <2> HIDE DEF f
    <2> QED
      BY Zenon, <1>1, <1>2
  <1> QED
    BY <1>1, <1>3 DEF ReducedFields

\* The scopes, the size and the hosts of a reduced request, next to those of both sides.
ReducedScopes(c, p, r) ==
    /\ \A v : AllowsIn(c.methods, v) => AllowsIn(p.methods, v) /\ AllowsIn(r.methods, v)
    /\ Alike(p, r) => \A v : matches_http_host(c, v) =>
                         matches_http_host(p, v) /\ matches_http_host(r, v)
    /\ \A v : AllowsUnder(c.paths, v) => AllowsUnder(p.paths, v) /\ AllowsUnder(r.paths, v)
    /\ \A n \in Nat : AllowsUpTo(c.max_response_bytes, n) =>
         AllowsUpTo(p.max_response_bytes, n) /\ AllowsUpTo(r.max_response_bytes, n)

\* Reduced constraints restrict hosts with the fields of either side.
ReducedHosts(c, p, r) ==
    /\ c.hosts = Unbounded <=> p.hosts = Unbounded /\ r.hosts = Unbounded
    /\ c.suffixes = Unbounded <=> p.suffixes = Unbounded /\ r.suffixes = Unbounded

\* The scopes of reduced constraints allow only what both sides allow.
LEMMA HttpScopes ==
    ASSUME NEW p \in HttpRequestConstraints, NEW r \in HttpRequestConstraints,
           NEW follow \in AllowFlag, NEW loopback \in AllowFlag, NEW c,
           ReducedFields(c, p, r, follow, loopback)
    PROVE  /\ c \in HttpRequestConstraints
           /\ c.follow_redirects = follow /\ c.allow_loopback = loopback
           /\ ReducedHosts(c, p, r)
           /\ ReducedScopes(c, p, r)
  <1>1. /\ p.methods \in Scope /\ p.paths \in Scope /\ p.max_response_bytes \in Limit
        /\ p.max_redirects \in Limit
        /\ r.methods \in Scope /\ r.paths \in Scope /\ r.max_response_bytes \in Limit
        /\ r.max_redirects \in Limit
    BY Zenon DEF HttpRequestConstraints
  <1>2. c \in [methods : {c.methods}, hosts : {c.hosts}, suffixes : {c.suffixes},
               paths : {c.paths}, max_response_bytes : {c.max_response_bytes},
               follow_redirects : {follow}, max_redirects : {c.max_redirects},
               allow_loopback : {loopback}]
    BY Zenon DEF ReducedFields
  <1>3. /\ c.methods = reduce_required_enum_scope(p.methods, r.methods) /\ c.methods # Mismatch
        /\ c.paths = reduce_required_path_prefix_scope(p.paths, r.paths) /\ c.paths # Mismatch
        /\ c.max_response_bytes
                = reduce_required_max_bytes(p.max_response_bytes, r.max_response_bytes)
        /\ c.max_response_bytes # Mismatch
    BY Zenon DEF ReducedFields
  <1>4. /\ c.hosts = reduce_required_http_hosts(p, r) /\ c.hosts # Mismatch
        /\ c.suffixes = reduce_required_http_host_suffixes(p, r) /\ c.suffixes # Mismatch
    BY Zenon DEF ReducedFields
  <1>5. /\ c.max_redirects = IF follow = TRUE
                             THEN reduce_required_max_bytes(p.max_redirects, r.max_redirects)
                             ELSE Unbounded
        /\ c.max_redirects # Mismatch
    BY Zenon DEF ReducedFields
  <1>6. /\ c.methods \in Scope
        /\ \A v : AllowsIn(c.methods, v) => AllowsIn(p.methods, v) /\ AllowsIn(r.methods, v)
    BY Zenon, <1>1, <1>3, EnumScope
  <1>7. /\ c.paths \in Scope
        /\ \A v : AllowsUnder(c.paths, v) => AllowsUnder(p.paths, v) /\ AllowsUnder(r.paths, v)
    BY Zenon, <1>1, <1>3, PrefixScope
  <1>8. /\ c.max_response_bytes \in Limit
        /\ \A n \in Nat : AllowsUpTo(c.max_response_bytes, n) =>
             AllowsUpTo(p.max_response_bytes, n) /\ AllowsUpTo(r.max_response_bytes, n)
    BY Zenon, <1>1, <1>3, MaxBytes
  <1>9. /\ c.hosts \in Scope /\ c.suffixes \in Scope
        /\ c.hosts = Unbounded <=> p.hosts = Unbounded /\ r.hosts = Unbounded
        /\ c.suffixes = Unbounded <=> p.suffixes = Unbounded /\ r.suffixes = Unbounded
        /\ Alike(p, r) => \A v : matches_http_host(c, v) =>
                             matches_http_host(p, v) /\ matches_http_host(r, v)
    BY Zenon, <1>4, HostScope
  <1>10. c.max_redirects \in Limit
    <2>1. CASE follow = TRUE
      BY Zenon, <1>1, <1>5, <2>1, MaxBytes
    <2>2. CASE follow # TRUE
      BY Zenon, <1>5, <2>2 DEF Limit
    <2> QED
      BY Zenon, <2>1, <2>2
  <1>11. c.follow_redirects = follow /\ c.allow_loopback = loopback
    BY Zenon, <1>2
  <1>12. c \in HttpRequestConstraints
    BY Zenon, <1>2, <1>6, <1>7, <1>8, <1>9, <1>10 DEF HttpRequestConstraints
  <1> QED
    BY Zenon, <1>6, <1>7, <1>8, <1>9, <1>11, <1>12 DEF ReducedHosts, ReducedScopes

\* Constraints with the scopes of both sides, and flags that this side sets, are below it.
LEMMA HttpBelow ==
    ASSUME NEW c \in HttpRequestConstraints, NEW d \in HttpRequestConstraints,
           \A v : AllowsIn(c.methods, v) => AllowsIn(d.methods, v),
           \A v : matches_http_host(c, v) => matches_http_host(d, v),
           \A v : AllowsUnder(c.paths, v) => AllowsUnder(d.paths, v),
           \A n \in Nat : AllowsUpTo(c.max_response_bytes, n) => AllowsUpTo(d.max_response_bytes, n),
           c.allow_loopback = TRUE => d.allow_loopback = TRUE,
           \A n \in Nat : MayFollow(c, n) => MayFollow(d, n)
    PROVE  BelowHttp(c, d)
  <1>1. c # Unconstrained /\ d # Unconstrained
    BY Zenon, MarksAssumption
  <1>2. ASSUME NEW op \in Operation, op.family = "http-request"
        PROVE  /\ HttpMatches(c, op) => HttpMatches(d, op)
               /\ MayReceive(c, op.bytes) => MayReceive(d, op.bytes)
               /\ MayFollow(c, op.redirects) => MayFollow(d, op.redirects)
    <2>1. op.bytes \in Nat /\ op.redirects \in Nat
      BY Zenon, <1>2, OperationAssumption
    <2>2. HttpMatches(c, op) => HttpMatches(d, op)
      BY Zenon, <1>1 DEF HttpMatches
    <2>3. MayReceive(c, op.bytes) => MayReceive(d, op.bytes)
      BY Zenon, <1>1, <2>1 DEF MayReceive, AllowsUpTo
    <2> QED
      BY Zenon, <2>1, <2>2, <2>3
  <1> QED
    BY Zenon, <1>2 DEF BelowHttp

\* A grant that is reduced to a requirement stays below the grant.
LEMMA ChildHttp ==
    ASSUME NEW p \in HttpRequestConstraints, NEW r \in HttpRequestConstraints, Bounded(p),
           NEW c, c = reduce_child_http_request_constraints(p, r), c # Mismatch
    PROVE  /\ c \in HttpRequestConstraints /\ Bounded(c)
           /\ ReducedHosts(c, p, r)
           /\ Alike(p, r) => BelowHttp(c, p)
  <1> DEFINE follow == reduce_optional_allow_flag(p.follow_redirects, r.follow_redirects)
             loopback == reduce_optional_allow_flag(p.allow_loopback, r.allow_loopback)
  <1>1. ReducedFields(c, p, r, follow, loopback)
    BY Zenon, HttpFields DEF reduce_child_http_request_constraints
  <1>2. follow # Mismatch /\ loopback # Mismatch
    BY Zenon, <1>1 DEF ReducedFields
  <1>3. /\ p.follow_redirects \in AllowFlag /\ r.follow_redirects \in AllowFlag
        /\ p.allow_loopback \in AllowFlag /\ r.allow_loopback \in AllowFlag
        /\ p.max_redirects \in Limit /\ r.max_redirects \in Limit
    BY Zenon DEF HttpRequestConstraints
  <1>4. /\ follow \in AllowFlag /\ (follow = TRUE => p.follow_redirects = TRUE)
        /\ loopback \in AllowFlag /\ (loopback = TRUE => p.allow_loopback = TRUE)
    BY Zenon, <1>2, <1>3 DEF reduce_optional_allow_flag, AllowFlag
  <1> HIDE DEF follow, loopback
  <1>5. /\ c \in HttpRequestConstraints
        /\ c.follow_redirects = follow /\ c.allow_loopback = loopback
        /\ ReducedHosts(c, p, r) /\ ReducedScopes(c, p, r)
    BY <1>1, <1>4, HttpScopes
  <1>6. follow = TRUE =>
            /\ c.max_redirects = reduce_required_max_bytes(p.max_redirects, r.max_redirects)
            /\ c.max_redirects # Mismatch
    BY Zenon, <1>1 DEF ReducedFields
  <1>7. follow = TRUE =>
            /\ c.max_redirects = Unbounded <=> p.max_redirects = Unbounded /\ r.max_redirects = Unbounded
            /\ \A n \in Nat : AllowsUpTo(c.max_redirects, n) => AllowsUpTo(p.max_redirects, n)
    BY Zenon, <1>3, <1>6, MaxBytes
  <1>8. follow = TRUE => p.max_redirects # Unbounded /\ c.max_redirects # Unbounded
    BY Zenon, <1>4, <1>7 DEF Bounded
  <1>9. \A n \in Nat : MayFollow(c, n) => MayFollow(p, n)
    BY Zenon, <1>4, <1>5, <1>7, <1>8, MarksAssumption DEF MayFollow, AllowsUpTo
  <1>10. Alike(p, r) => BelowHttp(c, p)
    BY Zenon, <1>4, <1>5, <1>9, HttpBelow DEF ReducedScopes
  <1> QED
    BY Zenon, <1>5, <1>8, <1>10 DEF Bounded

\* A grant that is reduced to a cap stays below the grant.
LEMMA CapHttp ==
    ASSUME NEW p \in HttpRequestConstraints, NEW r \in HttpRequestConstraints, Bounded(r),
           NEW c, c = reduce_cap_http_request_constraints(p, r), c # Mismatch
    PROVE  /\ c \in HttpRequestConstraints /\ Bounded(c)
           /\ ReducedHosts(c, p, r)
           /\ Alike(p, r) => BelowHttp(c, r)
  <1> DEFINE follow == reduce_cap_allow_flag(p.follow_redirects, r.follow_redirects)
             loopback == reduce_cap_allow_flag(p.allow_loopback, r.allow_loopback)
  <1>1. ReducedFields(c, p, r, follow, loopback)
    BY Zenon, HttpFields DEF reduce_cap_http_request_constraints
  <1>3. /\ p.follow_redirects \in AllowFlag /\ r.follow_redirects \in AllowFlag
        /\ p.allow_loopback \in AllowFlag /\ r.allow_loopback \in AllowFlag
        /\ p.max_redirects \in Limit /\ r.max_redirects \in Limit
    BY Zenon DEF HttpRequestConstraints
  <1>4. /\ follow \in AllowFlag /\ (follow = TRUE => r.follow_redirects = TRUE)
        /\ loopback \in AllowFlag /\ (loopback = TRUE => r.allow_loopback = TRUE)
    BY Zenon, <1>3 DEF reduce_cap_allow_flag, AllowFlag
  <1> HIDE DEF follow, loopback
  <1>5. /\ c \in HttpRequestConstraints
        /\ c.follow_redirects = follow /\ c.allow_loopback = loopback
        /\ ReducedHosts(c, p, r) /\ ReducedScopes(c, p, r)
    BY <1>1, <1>4, HttpScopes
  <1>6. follow = TRUE =>
            /\ c.max_redirects = reduce_required_max_bytes(p.max_redirects, r.max_redirects)
            /\ c.max_redirects # Mismatch
    BY Zenon, <1>1 DEF ReducedFields
  <1>7. follow = TRUE =>
            /\ c.max_redirects = Unbounded <=> p.max_redirects = Unbounded /\ r.max_redirects = Unbounded
            /\ \A n \in Nat : AllowsUpTo(c.max_redirects, n) => AllowsUpTo(r.max_redirects, n)
    BY Zenon, <1>3, <1>6, MaxBytes
  <1>8. follow = TRUE => r.max_redirects # Unbounded /\ c.max_redirects # Unbounded
    BY Zenon, <1>4, <1>7 DEF Bounded
  <1>9. \A n \in Nat : MayFollow(c, n) => MayFollow(r, n)
    BY Zenon, <1>4, <1>5, <1>7, <1>8, MarksAssumption DEF MayFollow, AllowsUpTo
  <1>10. Alike(p, r) => BelowHttp(c, r)
    BY Zenon, <1>4, <1>5, <1>9, HttpBelow DEF ReducedScopes
  <1> QED
    BY Zenon, <1>5, <1>8, <1>10 DEF Bounded

-----------------------------------------------------------------------------
(* The other families *)

\* What authorize asks of constraints of a family other than http-request.
Allows(family, c, op) ==
    \/ c = Unconstrained
    \/ IF family = "read-resource"
       THEN AllowsIn(c.uri_prefixes, op.scope) /\ AllowsIn(c.resource_kinds, KindOf[op.scope])
       ELSE IF family = "invoke-skill" THEN AllowsIn(c.aliases, op.alias)
       ELSE IF family = "log-write" THEN AllowsIn(c.levels, op.level)
       ELSE AllowsUpTo(c.max_bytes, op.bytes) /\ AllowsIn(c.audiences, op.audience)

Intersected == {"read-resource", "invoke-skill", "log-write"}

\* What reducing p by r leaves of a family.
Reduces(family, c, p, r) ==
    /\ c # Mismatch =>
        /\ c \in CapabilityConstraints(family)
        /\ \A op \in Operation : op.family = family /\ Allows(family, c, op) =>
                Allows(family, p, op) /\ Allows(family, r, op)
    /\ c = Mismatch /\ family \in Intersected =>
        \A op : ~(Allows(family, p, op) /\ Allows(family, r, op))

\* Two scopes of read-resource.
LEMMA ReadReduces ==
    ASSUME NEW p \in ReadResourceConstraints, NEW r \in ReadResourceConstraints,
           NEW c, c = ReduceCommon("read-resource", p, r)
    PROVE  Reduces("read-resource", c, p, r)
  <1> DEFINE uris == reduce_required_intersecting_enum_scope(p.uri_prefixes, r.uri_prefixes)
             kinds == reduce_required_intersecting_enum_scope(p.resource_kinds, r.resource_kinds)
             f == [uri_prefixes |-> uris, resource_kinds |-> kinds]
  <1>1. c = IF \E field \in DOMAIN f : f[field] = Mismatch THEN Mismatch ELSE f
    BY Zenon DEF ReduceCommon, OrMismatch
  <1>2. p.uri_prefixes \in Scope /\ r.uri_prefixes \in Scope
        /\ p.resource_kinds \in Scope /\ r.resource_kinds \in Scope
    BY Zenon DEF ReadResourceConstraints
  <1>3. p # Unconstrained /\ r # Unconstrained
    BY Zenon, MarksAssumption
  <1>4. /\ uris # Mismatch => uris \in Scope
        /\ uris # Mismatch =>
            \A v : AllowsIn(uris, v) => AllowsIn(p.uri_prefixes, v) /\ AllowsIn(r.uri_prefixes, v)
        /\ uris = Mismatch =>
            \A v : ~(AllowsIn(p.uri_prefixes, v) /\ AllowsIn(r.uri_prefixes, v))
    BY Zenon, <1>2, IntersectingScope
  <1>5. /\ kinds # Mismatch => kinds \in Scope
        /\ kinds # Mismatch =>
            \A v : AllowsIn(kinds, v) => AllowsIn(p.resource_kinds, v) /\ AllowsIn(r.resource_kinds, v)
        /\ kinds = Mismatch =>
            \A v : ~(AllowsIn(p.resource_kinds, v) /\ AllowsIn(r.resource_kinds, v))
    BY Zenon, <1>2, IntersectingScope
  <1> HIDE DEF uris, kinds
  <1>6. DOMAIN f = {"uri_prefixes", "resource_kinds"} /\ f.uri_prefixes = uris /\ f.resource_kinds = kinds
    BY Zenon
  <1>7. CASE uris = Mismatch \/ kinds = Mismatch
    <2>1. c = Mismatch
      BY Zenon, <1>1, <1>6, <1>7
    <2> QED
      BY Zenon, <1>3, <1>4, <1>5, <1>7, <2>1 DEF Reduces, Allows
  <1>8. CASE uris # Mismatch /\ kinds # Mismatch
    <2>1. c = f
      BY Zenon, <1>1, <1>6, <1>8
    <2>2. f \in ReadResourceConstraints
      BY Zenon, <1>4, <1>5, <1>8 DEF ReadResourceConstraints
    <2>3. f # Unconstrained /\ f # Mismatch
      BY Zenon, <2>2, MarksAssumption DEF AnyConstraints
    <2>4. ASSUME NEW op \in Operation, Allows("read-resource", c, op)
          PROVE  Allows("read-resource", p, op) /\ Allows("read-resource", r, op)
      BY Zenon, <1>4, <1>5, <1>6, <1>8, <2>1, <2>3, <2>4 DEF Allows
    <2> QED
      BY Zenon, <2>1, <2>2, <2>3, <2>4 DEF Reduces, CapabilityConstraints
  <1> QED
    BY Zenon, <1>7, <1>8

\* The aliases of invoke-skill.
LEMMA InvokeReduces ==
    ASSUME NEW p \in InvokeDependencyConstraints, NEW r \in InvokeDependencyConstraints,
           NEW c, c = ReduceCommon("invoke-skill", p, r)
    PROVE  Reduces("invoke-skill", c, p, r)
  <1> DEFINE aliases == reduce_required_intersecting_enum_scope(p.aliases, r.aliases)
             f == [aliases |-> aliases]
  <1>1. c = IF \E field \in DOMAIN f : f[field] = Mismatch THEN Mismatch ELSE f
    BY Zenon DEF ReduceCommon, OrMismatch
  <1>2. p.aliases \in Scope /\ r.aliases \in Scope
    BY Zenon DEF InvokeDependencyConstraints
  <1>3. p # Unconstrained /\ r # Unconstrained
    BY Zenon, MarksAssumption
  <1>4. /\ aliases # Mismatch => aliases \in Scope
        /\ aliases # Mismatch =>
            \A v : AllowsIn(aliases, v) => AllowsIn(p.aliases, v) /\ AllowsIn(r.aliases, v)
        /\ aliases = Mismatch => \A v : ~(AllowsIn(p.aliases, v) /\ AllowsIn(r.aliases, v))
    BY Zenon, <1>2, IntersectingScope
  <1> HIDE DEF aliases
  <1>5. DOMAIN f = {"aliases"} /\ f.aliases = aliases
    BY Zenon
  <1>6. CASE aliases = Mismatch
    <2>1. c = Mismatch
      BY Zenon, <1>1, <1>5, <1>6
    <2> QED
      BY Zenon, <1>3, <1>4, <1>6, <2>1 DEF Reduces, Allows
  <1>7. CASE aliases # Mismatch
    <2>1. c = f
      BY Zenon, <1>1, <1>5, <1>7
    <2>2. f \in InvokeDependencyConstraints
      BY Zenon, <1>4, <1>7 DEF InvokeDependencyConstraints
    <2>3. f # Unconstrained /\ f # Mismatch
      BY Zenon, <2>2, MarksAssumption DEF AnyConstraints
    <2>4. ASSUME NEW op \in Operation, Allows("invoke-skill", c, op)
          PROVE  Allows("invoke-skill", p, op) /\ Allows("invoke-skill", r, op)
      BY Zenon, <1>4, <1>5, <1>7, <2>1, <2>3, <2>4 DEF Allows
    <2> QED
      BY Zenon, <2>1, <2>2, <2>3, <2>4 DEF Reduces, CapabilityConstraints
  <1> QED
    BY Zenon, <1>6, <1>7

\* The levels of log-write.
LEMMA LogReduces ==
    ASSUME NEW p \in LogConstraints, NEW r \in LogConstraints,
           NEW c, c = ReduceCommon("log-write", p, r)
    PROVE  Reduces("log-write", c, p, r)
  <1> DEFINE levels == reduce_required_intersecting_enum_scope(p.levels, r.levels)
             f == [levels |-> levels]
  <1>1. c = IF \E field \in DOMAIN f : f[field] = Mismatch THEN Mismatch ELSE f
    BY Zenon DEF ReduceCommon, OrMismatch
  <1>2. p.levels \in Scope /\ r.levels \in Scope
    BY Zenon DEF LogConstraints
  <1>3. p # Unconstrained /\ r # Unconstrained
    BY Zenon, MarksAssumption
  <1>4. /\ levels # Mismatch => levels \in Scope
        /\ levels # Mismatch =>
            \A v : AllowsIn(levels, v) => AllowsIn(p.levels, v) /\ AllowsIn(r.levels, v)
        /\ levels = Mismatch => \A v : ~(AllowsIn(p.levels, v) /\ AllowsIn(r.levels, v))
    BY Zenon, <1>2, IntersectingScope
  <1> HIDE DEF levels
  <1>5. DOMAIN f = {"levels"} /\ f.levels = levels
    BY Zenon
  <1>6. CASE levels = Mismatch
    <2>1. c = Mismatch
      BY Zenon, <1>1, <1>5, <1>6
    <2> QED
      BY Zenon, <1>3, <1>4, <1>6, <2>1 DEF Reduces, Allows
  <1>7. CASE levels # Mismatch
    <2>1. c = f
      BY Zenon, <1>1, <1>5, <1>7
    <2>2. f \in LogConstraints
      BY Zenon, <1>4, <1>7 DEF LogConstraints
    <2>3. f # Unconstrained /\ f # Mismatch
      BY Zenon, <2>2, MarksAssumption DEF AnyConstraints
    <2>4. ASSUME NEW op \in Operation, Allows("log-write", c, op)
          PROVE  Allows("log-write", p, op) /\ Allows("log-write", r, op)
      BY Zenon, <1>4, <1>5, <1>7, <2>1, <2>3, <2>4 DEF Allows
    <2> QED
      BY Zenon, <2>1, <2>2, <2>3, <2>4 DEF Reduces, CapabilityConstraints
  <1> QED
    BY Zenon, <1>6, <1>7

\* The size and the audiences of emit-evidence.
LEMMA EmitReduces ==
    ASSUME NEW p \in EmitEvidenceConstraints, NEW r \in EmitEvidenceConstraints,
           NEW c, c = ReduceCommon("emit-evidence", p, r)
    PROVE  Reduces("emit-evidence", c, p, r)
  <1> DEFINE bytes == reduce_required_max_bytes(p.max_bytes, r.max_bytes)
             audiences == reduce_required_enum_scope(p.audiences, r.audiences)
             f == [max_bytes |-> bytes, audiences |-> audiences]
  <1>1. c = IF \E field \in DOMAIN f : f[field] = Mismatch THEN Mismatch ELSE f
    BY Zenon DEF ReduceCommon, OrMismatch
  <1>2. p.max_bytes \in Limit /\ r.max_bytes \in Limit /\ p.audiences \in Scope /\ r.audiences \in Scope
    BY Zenon DEF EmitEvidenceConstraints
  <1>4. bytes # Mismatch =>
            /\ bytes \in Limit
            /\ \A n \in Nat : AllowsUpTo(bytes, n) => AllowsUpTo(p.max_bytes, n) /\ AllowsUpTo(r.max_bytes, n)
    BY <1>2, MaxBytes
  <1>5. audiences # Mismatch =>
            /\ audiences \in Scope
            /\ \A v : AllowsIn(audiences, v) => AllowsIn(p.audiences, v) /\ AllowsIn(r.audiences, v)
    BY Zenon, <1>2, EnumScope
  <1> HIDE DEF bytes, audiences
  <1>6. DOMAIN f = {"max_bytes", "audiences"} /\ f.max_bytes = bytes /\ f.audiences = audiences
    BY Zenon
  <1>7. CASE bytes = Mismatch \/ audiences = Mismatch
    <2>1. c = Mismatch
      BY Zenon, <1>1, <1>6, <1>7
    <2> QED
      BY Zenon, <2>1 DEF Reduces, Intersected
  <1>8. CASE bytes # Mismatch /\ audiences # Mismatch
    <2>1. c = f
      BY Zenon, <1>1, <1>6, <1>8
    <2>2. f \in EmitEvidenceConstraints
      BY Zenon, <1>4, <1>5, <1>8 DEF EmitEvidenceConstraints
    <2>3. f # Unconstrained /\ f # Mismatch
      BY Zenon, <2>2, MarksAssumption DEF AnyConstraints
    <2>4. ASSUME NEW op \in Operation, op.family = "emit-evidence", Allows("emit-evidence", c, op)
          PROVE  Allows("emit-evidence", p, op) /\ Allows("emit-evidence", r, op)
      <3>1. op.bytes \in Nat
        BY Zenon, <2>4, OperationAssumption
      <3> QED
        BY Zenon, <1>4, <1>5, <1>6, <1>8, <2>1, <2>3, <2>4, <3>1 DEF Allows
    <2> QED
      BY Zenon, <2>1, <2>2, <2>3, <2>4 DEF Reduces, CapabilityConstraints
  <1> QED
    BY Zenon, <1>7, <1>8

\* Every family other than http-request.
LEMMA CommonReduces ==
    ASSUME NEW family \in CapabilityFamily, family # "http-request",
           NEW p \in CapabilityConstraints(family), NEW r \in CapabilityConstraints(family)
    PROVE  Reduces(family, ReduceCommon(family, p, r), p, r)
  <1>1. CASE family = "read-resource"
    BY Zenon, <1>1, ReadReduces DEF CapabilityConstraints
  <1>2. CASE family = "invoke-skill"
    BY Zenon, <1>2, InvokeReduces DEF CapabilityConstraints
  <1>3. CASE family = "log-write"
    BY Zenon, <1>3, LogReduces DEF CapabilityConstraints
  <1>4. CASE family = "emit-evidence"
    BY Zenon, <1>4, EmitReduces DEF CapabilityConstraints
  <1> QED
    BY Zenon, <1>1, <1>2, <1>3, <1>4 DEF CapabilityFamily

-----------------------------------------------------------------------------
(* Grants *)

\* Whatever g authorizes, on its own or among others, h authorizes.
Below(g, h) ==
    /\ g.family = h.family
    /\ IF g.family = "http-request" THEN BelowHttp(g.constraints, h.constraints)
       ELSE \A op \in Operation : op.family = g.family =>
                (Allows(g.family, g.constraints, op) => Allows(g.family, h.constraints, op))

Covered(grants, by) == \A g \in grants : \E h \in by : Below(g, h)

ConstrainedHttp(g) == g.family = "http-request" /\ g.constraints # Unconstrained

\* A grant as evaluate_policy works on it, and a requirement as manifests declare it.
Sound(g) == Typed(g) /\ (ConstrainedHttp(g) => Bounded(g.constraints))

Declared(r) ==
    /\ Sound(r)
    /\ ConstrainedHttp(r) =>
        r.constraints.max_redirects \in {Unbounded} \cup 0..HTTP_UNCONSTRAINED_MAX_REDIRECTS

\* UniformHosts, for a pair of grants, requirements or caps.
HostsAlike(g, h) ==
    ConstrainedHttp(g) /\ ConstrainedHttp(h) => Alike(g.constraints, h.constraints)

\* What reducing g by h leaves: a sound grant of the family that restricts hosts like g
\* and h do.
Leaves(e, g, h) ==
    /\ Sound(e)
    /\ e.family = g.family
    /\ \A k : HostsAlike(g, h) /\ HostsAlike(g, k) /\ HostsAlike(h, k) => HostsAlike(e, k)

\* authorize, grant by grant.
LEMMA AuthorizeOther ==
    ASSUME NEW grants, NEW op, op.family # "http-request"
    PROVE  authorize(grants, op) <=>
                \E g \in grants : g.family = op.family /\ Allows(op.family, g.constraints, op)
  BY Zenon DEF authorize, Allows, read_resource_grant_allows_scope, AllowsUpTo

\* authorize for a request: one grant admits it, and one may follow its redirects.
LEMMA AuthorizeHttp ==
    ASSUME NEW grants, NEW op, op.family = "http-request"
    PROVE  authorize(grants, op) <=>
                /\ \E g \in grants : /\ g.family = "http-request" /\ HttpMatches(g.constraints, op)
                                     /\ MayReceive(g.constraints, op.bytes)
                /\ op.redirects > 0 =>
                    \E g \in grants : /\ g.family = "http-request" /\ HttpMatches(g.constraints, op)
                                      /\ MayFollow(g.constraints, op.redirects)
  <1>1. \A g : g \in HttpMatching(grants, op) <=>
                g \in grants /\ g.family = "http-request" /\ HttpMatches(g.constraints, op)
    BY Zenon DEF HttpMatching, HttpMatches, AllowsUnder
  <1> QED
    BY Zenon, <1>1 DEF authorize, authorize_http_request

\* Grants that are covered one by one authorize nothing more together.
LEMMA CoveredAuthorizes ==
    ASSUME NEW grants, NEW by, Covered(grants, by)
    PROVE  Authorized(grants) \subseteq Authorized(by)
  <1> SUFFICES ASSUME NEW op \in Operation, authorize(grants, op) PROVE authorize(by, op)
    BY Zenon DEF Authorized
  <1>1. CASE op.family # "http-request"
    <2>1. PICK g \in grants : g.family = op.family /\ Allows(op.family, g.constraints, op)
      BY Zenon, <1>1, AuthorizeOther
    <2>2. PICK h \in by : Below(g, h)
      BY Zenon DEF Covered
    <2>3. h.family = op.family /\ Allows(op.family, h.constraints, op)
      BY Zenon, <1>1, <2>1, <2>2 DEF Below
    <2> QED
      BY Zenon, <1>1, <2>3, AuthorizeOther
  <1>2. CASE op.family = "http-request"
    <2>1. ASSUME NEW g \in grants, g.family = "http-request", HttpMatches(g.constraints, op)
          PROVE  \E h \in by :
                    /\ h.family = "http-request" /\ HttpMatches(h.constraints, op)
                    /\ MayReceive(g.constraints, op.bytes) => MayReceive(h.constraints, op.bytes)
                    /\ MayFollow(g.constraints, op.redirects) => MayFollow(h.constraints, op.redirects)
      <3>1. PICK h \in by : Below(g, h)
        BY DEF Covered
      <3> QED
        BY Zenon, <1>2, <2>1, <3>1 DEF Below, BelowHttp
    <2>2. \E g \in grants : /\ g.family = "http-request" /\ HttpMatches(g.constraints, op)
                            /\ MayReceive(g.constraints, op.bytes)
      BY Zenon, <1>2, AuthorizeHttp
    <2>3. \E h \in by : /\ h.family = "http-request" /\ HttpMatches(h.constraints, op)
                        /\ MayReceive(h.constraints, op.bytes)
      BY Zenon, <2>1, <2>2
    <2>4. op.redirects > 0 =>
            \E g \in grants : /\ g.family = "http-request" /\ HttpMatches(g.constraints, op)
                              /\ MayFollow(g.constraints, op.redirects)
      BY Zenon, <1>2, AuthorizeHttp
    <2>5. op.redirects > 0 =>
            \E h \in by : /\ h.family = "http-request" /\ HttpMatches(h.constraints, op)
                          /\ MayFollow(h.constraints, op.redirects)
      BY Zenon, <2>1, <2>4
    <2> QED
      BY Zenon, <1>2, <2>3, <2>5, AuthorizeHttp
  <1> QED
    BY Zenon, <1>1, <1>2

\* A grant is below itself.
LEMMA BelowSelf ==
    ASSUME NEW g, NEW h, h.family = g.family, h.constraints = g.constraints
    PROVE  Below(h, g)
  BY Zenon DEF Below, BelowHttp

\* What is below a grant that is below another is below that one.
LEMMA CoveredTransitive ==
    ASSUME NEW A, NEW B, NEW C, Covered(A, B), Covered(B, C)
    PROVE  Covered(A, C)
  <1>1. ASSUME NEW f, NEW g, NEW h, Below(f, g), Below(g, h) PROVE Below(f, h)
    <2>1. CASE f.family = "http-request"
      BY Zenon, <1>1, <2>1 DEF Below, BelowHttp
    <2>2. CASE f.family # "http-request"
      BY Zenon, <1>1, <2>2 DEF Below
    <2> QED
      BY Zenon, <2>1, <2>2
  <1> QED
    BY Zenon, <1>1 DEF Covered

\* reduce_grant_to_requirement leaves a grant that is below the one it reduces.
LEMMA ToRequirement ==
    ASSUME NEW g, Sound(g), NEW r, Declared(r), NEW e \in reduce_grant_to_requirement(g, r)
    PROVE  /\ Leaves(e, g, r)
           /\ HostsAlike(g, r) => Below(e, g)
  <1> DEFINE p == g.constraints
             q == r.constraints
  <1>1. PICK c : /\ c = reduce_child_constraints(g.family, p, q)
                 /\ c # Mismatch /\ g.family = r.family /\ e = Grant(g.family, c)
    BY Zenon DEF reduce_grant_to_requirement
  <1>2. e.family = g.family /\ e.constraints = c
    BY Zenon, <1>1 DEF Grant
  <1>3. g.family \in CapabilityFamily
    BY Zenon DEF Sound, Typed
  <1>4. CASE q = Unconstrained \/ p = Unconstrained
    <2>1. CASE p # Unconstrained
      <3>1. c = p
        BY Zenon, <1>1, <1>4, <2>1 DEF reduce_child_constraints
      <3>2. Sound(e) /\ Below(e, g)
        BY Zenon, <1>2, <3>1, BelowSelf DEF Sound, Typed, ConstrainedHttp
      <3>3. \A k : HostsAlike(g, k) => HostsAlike(e, k)
        BY Zenon, <1>2, <3>1 DEF HostsAlike, ConstrainedHttp
      <3> QED
        BY Zenon, <1>2, <3>2, <3>3 DEF Leaves
    <2>2. CASE p = Unconstrained
      <3>1. c = q
        BY Zenon, <1>1, <2>2 DEF reduce_child_constraints
      <3>2. Sound(e)
        BY Zenon, <1>1, <1>2, <3>1 DEF Sound, Typed, ConstrainedHttp, Declared
      <3>3. \A k : HostsAlike(r, k) => HostsAlike(e, k)
        BY Zenon, <1>1, <1>2, <3>1 DEF HostsAlike, ConstrainedHttp
      <3>4. Below(e, g)
        <4>1. CASE g.family # "http-request"
          BY Zenon, <1>2, <2>2, <4>1 DEF Below, Allows
        <4>2. CASE g.family = "http-request"
          <5>1. ASSUME NEW op \in Operation, op.family = "http-request",
                       MayFollow(c, op.redirects)
                PROVE  MayFollow(Unconstrained, op.redirects)
            <6>1. op.redirects \in Nat
              BY Zenon, <5>1, OperationAssumption
            <6>2. CASE c = Unconstrained
              BY Zenon, <5>1, <6>2
            <6>3. CASE c # Unconstrained
              <7>1. c.max_redirects \in {Unbounded} \cup 0..HTTP_UNCONSTRAINED_MAX_REDIRECTS
                BY Zenon, <1>1, <3>1, <4>2, <6>3 DEF Declared, ConstrainedHttp
              <7>2. c.max_redirects # Unbounded /\ op.redirects <= c.max_redirects
                BY Zenon, <5>1, <6>3 DEF MayFollow
              <7> QED
                BY <6>1, <7>1, <7>2 DEF MayFollow, HTTP_UNCONSTRAINED_MAX_REDIRECTS
            <6> QED
              BY Zenon, <6>2, <6>3
          <5>2. BelowHttp(c, Unconstrained)
            BY Zenon, <5>1 DEF BelowHttp, HttpMatches, MayReceive
          <5> QED
            BY Zenon, <1>2, <2>2, <4>2, <5>2 DEF Below
        <4> QED
          BY Zenon, <4>1, <4>2
      <3> QED
        BY Zenon, <1>2, <3>2, <3>3, <3>4 DEF Leaves
    <2> QED
      BY Zenon, <2>1, <2>2
  <1>5. CASE q # Unconstrained /\ p # Unconstrained /\ g.family = "http-request"
    <2>1. /\ p \in HttpRequestConstraints /\ q \in HttpRequestConstraints
          /\ Bounded(p) /\ c = reduce_child_http_request_constraints(p, q)
      BY Zenon, <1>1, <1>5 DEF Sound, Declared, Typed, CapabilityConstraints, ConstrainedHttp,
         reduce_child_constraints
    <2>2. /\ c \in HttpRequestConstraints /\ Bounded(c) /\ ReducedHosts(c, p, q)
          /\ Alike(p, q) => BelowHttp(c, p)
      BY Zenon, <1>1, <2>1, ChildHttp
    <2>3. Sound(e)
      BY Zenon, <1>2, <1>3, <1>5, <2>2 DEF Sound, Typed, CapabilityConstraints
    <2>4. HostsAlike(g, r) => Below(e, g)
      BY Zenon, <1>1, <1>2, <1>5, <2>2 DEF HostsAlike, ConstrainedHttp, Below
    <2>5. \A k : HostsAlike(g, r) /\ HostsAlike(g, k) /\ HostsAlike(r, k) => HostsAlike(e, k)
      BY Zenon, <1>1, <1>2, <1>5, <2>2 DEF HostsAlike, ConstrainedHttp, Alike, ReducedHosts
    <2> QED
      BY Zenon, <1>2, <2>3, <2>4, <2>5 DEF Leaves
  <1>6. CASE q # Unconstrained /\ p # Unconstrained /\ g.family # "http-request"
    <2>1. /\ p \in CapabilityConstraints(g.family) /\ q \in CapabilityConstraints(g.family)
          /\ c = ReduceCommon(g.family, p, q)
      BY Zenon, <1>1, <1>6 DEF Sound, Declared, Typed, reduce_child_constraints
    <2>2. Reduces(g.family, c, p, q)
      BY Zenon, <1>3, <1>6, <2>1, CommonReduces
    <2>3. Sound(e) /\ Below(e, g)
      BY Zenon, <1>1, <1>2, <1>3, <1>6, <2>2 DEF Sound, Typed, ConstrainedHttp, Reduces, Below
    <2>4. \A k : HostsAlike(e, k)
      BY Zenon, <1>2, <1>6 DEF HostsAlike, ConstrainedHttp
    <2> QED
      BY Zenon, <1>2, <2>3, <2>4 DEF Leaves
  <1> QED
    BY Zenon, <1>4, <1>5, <1>6

\* reduce_grant_to_cap leaves a grant that is below the one it reduces.
LEMMA ToCap ==
    ASSUME NEW g, Sound(g), NEW cap, Typed(cap), NEW e \in reduce_grant_to_cap(cap, g)
    PROVE  /\ Leaves(e, g, cap)
           /\ HostsAlike(g, cap) => Below(e, g)
  <1> DEFINE p == cap.constraints
             q == g.constraints
  <1>1. PICK c : /\ c = reduce_cap_constraints(g.family, p, q)
                 /\ c # Mismatch /\ g.family = cap.family /\ e = Grant(g.family, c)
    BY Zenon DEF reduce_grant_to_cap
  <1>2. e.family = g.family /\ e.constraints = c
    BY Zenon, <1>1 DEF Grant
  <1>3. g.family \in CapabilityFamily
    BY Zenon DEF Sound, Typed
  <1>4. CASE q = Unconstrained \/ p = Unconstrained
    <2>1. c = q
      BY Zenon, <1>1, <1>4 DEF reduce_cap_constraints
    <2>2. Sound(e) /\ Below(e, g)
      BY Zenon, <1>2, <2>1, BelowSelf DEF Sound, Typed, ConstrainedHttp
    <2>3. \A k : HostsAlike(g, k) => HostsAlike(e, k)
      BY Zenon, <1>2, <2>1 DEF HostsAlike, ConstrainedHttp
    <2> QED
      BY Zenon, <1>2, <2>2, <2>3 DEF Leaves
  <1>5. CASE q # Unconstrained /\ p # Unconstrained /\ g.family = "http-request"
    <2>1. /\ p \in HttpRequestConstraints /\ q \in HttpRequestConstraints
          /\ Bounded(q) /\ c = reduce_cap_http_request_constraints(p, q)
      BY Zenon, <1>1, <1>5 DEF Sound, Typed, CapabilityConstraints, ConstrainedHttp,
         reduce_cap_constraints
    <2>2. /\ c \in HttpRequestConstraints /\ Bounded(c) /\ ReducedHosts(c, p, q)
          /\ Alike(p, q) => BelowHttp(c, q)
      BY Zenon, <1>1, <2>1, CapHttp
    <2>3. Sound(e)
      BY Zenon, <1>2, <1>3, <1>5, <2>2 DEF Sound, Typed, CapabilityConstraints
    <2>4. HostsAlike(g, cap) => Below(e, g)
      BY Zenon, <1>1, <1>2, <1>5, <2>2 DEF HostsAlike, ConstrainedHttp, Below, Alike
    <2>5. \A k : HostsAlike(g, cap) /\ HostsAlike(g, k) /\ HostsAlike(cap, k) => HostsAlike(e, k)
      BY Zenon, <1>1, <1>2, <1>5, <2>2 DEF HostsAlike, ConstrainedHttp, Alike, ReducedHosts
    <2> QED
      BY Zenon, <1>2, <2>3, <2>4, <2>5 DEF Leaves
  <1>6. CASE q # Unconstrained /\ p # Unconstrained /\ g.family # "http-request"
    <2>1. /\ p \in CapabilityConstraints(g.family) /\ q \in CapabilityConstraints(g.family)
          /\ c = ReduceCommon(g.family, p, q)
      BY Zenon, <1>1, <1>6 DEF Sound, Typed, reduce_cap_constraints
    <2>2. Reduces(g.family, c, p, q)
      BY Zenon, <1>3, <1>6, <2>1, CommonReduces
    <2>3. Sound(e) /\ Below(e, g)
      BY Zenon, <1>1, <1>2, <1>3, <1>6, <2>2 DEF Sound, Typed, ConstrainedHttp, Reduces, Below
    <2>4. \A k : HostsAlike(e, k)
      BY Zenon, <1>2, <1>6 DEF HostsAlike, ConstrainedHttp
    <2> QED
      BY Zenon, <1>2, <2>3, <2>4 DEF Leaves
  <1> QED
    BY Zenon, <1>4, <1>5, <1>6

\* Where policy_grant_overlaps sees no overlap, in a family whose scopes are intersected,
\* no operation is authorized by both.
LEMMA NoOverlap ==
    ASSUME NEW g, Sound(g), NEW cap, Typed(cap), ~policy_grant_overlaps(cap, g),
           NEW op, op.family \in Intersected, g.family = op.family, cap.family = op.family
    PROVE  ~(Allows(op.family, g.constraints, op) /\ Allows(op.family, cap.constraints, op))
  <1> DEFINE p == cap.constraints
             q == g.constraints
             family == op.family
  <1>1. reduce_cap_constraints(family, p, q) = Mismatch
    BY Zenon DEF policy_grant_overlaps, reduce_grant_to_cap
  <1>2. family \in CapabilityFamily /\ family # "http-request"
    BY Zenon DEF Intersected, CapabilityFamily
  <1>3. q \in {Unconstrained} \cup CapabilityConstraints(family) /\ p \in {Unconstrained} \cup CapabilityConstraints(family)
    BY Zenon DEF Sound, Typed
  <1>4. Mismatch # q
    BY Zenon, <1>3, MarksAssumption DEF CapabilityConstraints, AnyConstraints
  <1>5. p # Unconstrained /\ q # Unconstrained /\ ReduceCommon(family, p, q) = Mismatch
    BY Zenon, <1>1, <1>2, <1>4 DEF reduce_cap_constraints
  <1>6. Reduces(family, Mismatch, p, q)
    BY Zenon, <1>2, <1>3, <1>5, CommonReduces
  <1> QED
    BY Zenon, <1>6 DEF Reduces

\* Whatever a rule leaves of a grant is below it.
LEMMA ToRule ==
    ASSUME NEW g, Sound(g), NEW rule, \A h \in rule.grants : Typed(h),
           NEW e \in apply_policy_rule(rule, g)
    PROVE  /\ Sound(e) /\ e.family = g.family
           /\ (\A h \in rule.grants : HostsAlike(g, h)) => Below(e, g)
           /\ \A k : /\ \A h \in rule.grants : HostsAlike(g, h) /\ HostsAlike(h, k)
                    /\ HostsAlike(g, k)
                    => HostsAlike(e, k)
  <1>1. CASE e = g
    <2>1. Below(g, g)
      BY Zenon, BelowSelf
    <2> QED
      BY Zenon, <1>1, <2>1
  <1>2. ASSUME NEW h \in rule.grants, e \in reduce_grant_to_cap(h, g)
        PROVE  /\ Sound(e) /\ e.family = g.family
               /\ (\A i \in rule.grants : HostsAlike(g, i)) => Below(e, g)
               /\ \A k : /\ \A i \in rule.grants : HostsAlike(g, i) /\ HostsAlike(i, k)
                        /\ HostsAlike(g, k)
                        => HostsAlike(e, k)
    <2>1. Leaves(e, g, h) /\ (HostsAlike(g, h) => Below(e, g))
      BY Zenon, <1>2, ToCap
    <2> QED
      BY Zenon, <2>1 DEF Leaves
  <1>3. e = g \/ \E h \in rule.grants : e \in reduce_grant_to_cap(h, g)
    BY Zenon DEF apply_policy_rule, apply_policy_deny_rule, apply_policy_cap_rule
  <1> QED
    BY Zenon, <1>1, <1>2, <1>3

-----------------------------------------------------------------------------
(* An evaluation, and the evaluations of children *)

\* Everything that HttpConstraints takes its constraints from.
Met ==
    requested \cup (IF parent = None THEN {} ELSE parent)
        \cup (IF skill = None THEN {} ELSE declared_capability_surface(skill))
        \cup UNION {rule.grants : rule \in Cases[case].rules}

\* UniformHosts, in the terms of the lemmas above.
LEMMA UniformIsAlike ==
    ASSUME UniformHosts, NEW g \in Met, NEW h \in Met
    PROVE  HostsAlike(g, h)
  <1>1. ASSUME NEW k \in Met, ConstrainedHttp(k) PROVE k.constraints \in HttpConstraints
    BY Zenon, <1>1 DEF Met, ConstrainedHttp, HttpConstraints
  <1>2. ASSUME ConstrainedHttp(g), ConstrainedHttp(h)
        PROVE  \/ HostFields(g.constraints) = HostFields(h.constraints)
               \/ {} \in {HostFields(g.constraints), HostFields(h.constraints)}
    BY Zenon, <1>1, <1>2 DEF UniformHosts
  <1> QED
    BY Zenon, <1>2, AlikeIsUniform DEF HostsAlike

\* UniformHosts, after a step.
LEMMA UniformIsAlikeNext == UniformHosts' => (\A g, h \in Met : HostsAlike(g, h))'
  <1>1. UniformHosts => \A g, h \in Met : HostsAlike(g, h)
    BY Zenon, UniformIsAlike
  <1> QED
    BY <1>1, PTL

\* Inductive strengthening: grants stay sound, and as long as all sides restrict hosts
\* alike, each grant is below a requested one and each requested one below the parent's.
PolicyInv ==
    /\ case \in DOMAIN Cases
    /\ skill \in SkillManifest \cup {None}
    /\ skill # None => \A r \in declared_capability_surface(skill) : Declared(r)
    /\ phase # "idle" => skill # None
    /\ \A g \in granted : Sound(g)
    /\ UniformHosts =>
        /\ Covered(granted, requested)
        /\ parent # None => Covered(requested, parent)
        /\ \A g \in granted, h \in Met : HostsAlike(g, h)

\* What manifests declare can be reduced to.
LEMMA ManifestsDeclare ==
    ASSUME NEW c \in DOMAIN Cases, NEW s \in Cases[c].skills
    PROVE  s \in SkillManifest /\ \A r \in declared_capability_surface(s) : Declared(r)
  <1>1. s \in SkillManifest
    BY Zenon, CasesAssumption
  <1>2. ASSUME NEW r \in declared_capability_surface(s) PROVE Declared(r)
    <2>1. Typed(r) /\ validate(r)
      BY Zenon, CasesAssumption
    <2>2. ConstrainedHttp(r) => Bounded(r.constraints)
      BY Zenon, <2>1 DEF validate, ValidHttp, ConstrainedHttp, Bounded
    <2>3. r \in (UNION Cases[c].requests)
                    \cup (UNION {declared_capability_surface(t) : t \in Cases[c].skills})
      BY Zenon
    <2>4. ConstrainedHttp(r) =>
            r.constraints.max_redirects \in {Unbounded} \cup 0..HTTP_UNCONSTRAINED_MAX_REDIRECTS
      BY <2>3, RedirectsAssumption, Zenon DEF ConstrainedHttp
    <2> QED
      BY Zenon, <2>1, <2>2, <2>4 DEF Declared, Sound
  <1> QED
    BY Zenon, <1>1, <1>2

\* evaluate_policy clamps the requested grants to what the skill declares.
LEMMA EvaluateKeeps ==
    ASSUME NEW s \in SkillManifest, \A r \in declared_capability_surface(s) : Declared(r),
           NEW grants, \A g \in grants : Typed(g),
           NEW from, case \in DOMAIN Cases, evaluate_policy(s, grants, from),
           UniformHosts' /\ from # None => Covered(grants, from)
    PROVE  PolicyInv'
  <1>1. /\ skill' = s /\ requested' = grants /\ parent' = from /\ case' = case
        /\ s # None
    BY Zenon, MarksAssumption DEF evaluate_policy
  <1>2. CASE granted' = {}
    BY Zenon, <1>1, <1>2 DEF PolicyInv, Covered
  <1>3. CASE /\ invalid_capability_grants(grants) = {}
             /\ granted' = AllOf(clamp_requested_capabilities_to_manifest(
                                    grants, declared_capability_surface(s)))
    <2>1. ASSUME NEW e \in granted'
          PROVE  \E g \in grants, r \in declared_capability_surface(s) :
                    e \in reduce_grant_to_requirement(g, r)
      BY <1>3, <2>1 DEF AllOf, clamp_requested_capabilities_to_manifest
    <2>2. ASSUME NEW g \in grants PROVE Sound(g)
      BY Zenon, <1>3 DEF invalid_capability_grants, validate, ValidHttp, ConstrainedHttp, Bounded, Sound
    <2>3. ASSUME NEW e \in granted'
          PROVE  /\ Sound(e)
                 /\ UniformHosts' => /\ \E g \in grants : Below(e, g)
                                     /\ \A k \in Met' : HostsAlike(e, k)
      <3>1. PICK g \in grants, r \in declared_capability_surface(s) :
                e \in reduce_grant_to_requirement(g, r)
        BY Zenon, <2>1
      <3>2. Leaves(e, g, r) /\ (HostsAlike(g, r) => Below(e, g))
        BY Zenon, <2>2, <3>1, ToRequirement
      <3>3. g \in Met' /\ r \in Met'
        BY Zenon, <1>1 DEF Met
      <3>4. UniformHosts' => \A k, l \in Met' : HostsAlike(k, l)
        BY Zenon, UniformIsAlikeNext
      <3> QED
        BY Zenon, <3>2, <3>3, <3>4 DEF Leaves
    <2> QED
      BY Zenon, <1>1, <2>3 DEF PolicyInv, Covered
  <1> QED
    BY Zenon, <1>2, <1>3 DEF evaluate_policy, rejected_policy_evaluation

\* What a rule leaves comes from the grants that it was applied to.
LEMMA RuleLeaves ==
    ASSUME NEW rule, ApplyRule(rule), NEW e \in granted'
    PROVE  \E g \in granted : e \in apply_policy_rule(rule, g)
  BY Zenon DEF ApplyRule, AllOf

\* A step of the evaluation that applies a rule.
LEMMA RuleKeeps ==
    ASSUME PolicyInv, NEW rule \in Cases[case].rules, ApplyRule(rule)
    PROVE  PolicyInv'
  <1>1. UNCHANGED <<case, skill, requested, parent, phase>>
    BY Zenon DEF ApplyRule
  <1>2. Met' = Met /\ (UniformHosts' <=> UniformHosts)
    BY Zenon, <1>1 DEF Met, UniformHosts, HttpConstraints
  <1>3. \A h \in rule.grants : Typed(h)
    BY Zenon, CasesAssumption DEF PolicyInv
  <1>4. rule.grants \subseteq Met
    BY Zenon DEF Met
  <1>5. ASSUME NEW e \in granted'
        PROVE  /\ Sound(e)
               /\ UniformHosts => /\ \E g \in granted : Below(e, g)
                                  /\ \A k \in Met : HostsAlike(e, k)
    <2>1. PICK g \in granted : e \in apply_policy_rule(rule, g)
      BY Zenon, <1>5, RuleLeaves
    <2>2. Sound(g)
      BY Zenon DEF PolicyInv
    <2>3. Sound(e) /\ ((\A h \in rule.grants : HostsAlike(g, h)) => Below(e, g))
      BY Zenon, <1>3, <2>1, <2>2, ToRule
    <2>4. \A k : /\ \A h \in rule.grants : HostsAlike(g, h) /\ HostsAlike(h, k)
                /\ HostsAlike(g, k)
                => HostsAlike(e, k)
      BY Zenon, <1>3, <2>1, <2>2, ToRule
    <2>5. ASSUME UniformHosts PROVE Below(e, g) /\ \A k \in Met : HostsAlike(e, k)
      <3>1. \A k \in Met : HostsAlike(g, k)
        BY Zenon, <2>5 DEF PolicyInv
      <3>2. \A h \in rule.grants, k \in Met : HostsAlike(h, k)
        BY Zenon, <1>4, <2>5, UniformIsAlike
      <3> QED
        BY Zenon, <1>4, <2>3, <2>4, <3>1, <3>2
    <2> QED
      BY Zenon, <2>3, <2>5
  <1>6. UniformHosts => Covered(granted', granted)
    BY Zenon, <1>5 DEF Covered
  <1>7. UniformHosts => Covered(granted', requested)
    BY Zenon, <1>6, CoveredTransitive DEF PolicyInv
  <1> QED
    BY Zenon, <1>1, <1>2, <1>5, <1>7 DEF PolicyInv

\* A child is evaluated with what derive_child_grants reduces from its parent's grants.
LEMMA ChildKeeps ==
    ASSUME PolicyInv, InvokeChild
    PROVE  PolicyInv'
  <1>1. CASE UNCHANGED <<case, skill, requested, granted, parent>>
    <2>1. Met' = Met /\ (UniformHosts' <=> UniformHosts)
      BY Zenon, <1>1 DEF Met, UniformHosts, HttpConstraints
    <2>2. phase # "idle"
      BY Zenon DEF InvokeChild
    <2> QED
      BY Zenon, <1>1, <2>1, <2>2 DEF PolicyInv
  <1>2. ASSUME NEW chosen \in CoveringChoices, skill.dependency # None, phase = "decided",
               evaluate_policy([capabilities |-> skill.dependency, dependency |-> None],
                               UNION {DerivedFor(r, chosen) : r \in skill.dependency}, granted)
        PROVE  PolicyInv'
    <2> DEFINE grants == UNION {DerivedFor(r, chosen) : r \in skill.dependency}
               s == [capabilities |-> skill.dependency, dependency |-> None]
    <2>1. skill \in SkillManifest /\ case \in DOMAIN Cases
      BY Zenon, <1>2 DEF PolicyInv
    <2>2. s \in SkillManifest /\ declared_capability_surface(s) = skill.dependency
      BY Zenon, <1>2, <2>1 DEF SkillManifest, declared_capability_surface
    <2>3. \A r \in skill.dependency : Declared(r)
      BY Zenon, <1>2, <2>1, MarksAssumption DEF PolicyInv, declared_capability_surface
    <2>4. ASSUME NEW e \in grants
          PROVE  \E g \in granted, r \in skill.dependency : e \in reduce_grant_to_requirement(g, r)
      <3>1. PICK r \in skill.dependency : e \in DerivedFor(r, chosen)
        BY Zenon, <2>4
      <3>2. CASE Collective(r)
        BY Zenon, <3>1, <3>2 DEF DerivedFor, Derived
      <3>3. CASE ~Collective(r)
        <4>1. chosen[r] # None /\ e \in reduce_grant_to_requirement(chosen[r], r)
          BY Zenon, <3>1, <3>3 DEF DerivedFor
        <4>2. chosen[r] \in granted
          BY Zenon, <4>1 DEF CoveringChoices
        <4> QED
          BY Zenon, <4>1, <4>2
      <3> QED
        BY Zenon, <3>2, <3>3
    <2> HIDE DEF grants
    <2>5. ASSUME NEW e \in grants
          PROVE  Typed(e) /\ (UniformHosts' /\ granted # None => \E g \in granted : Below(e, g))
      <3>1. PICK g \in granted, r \in skill.dependency : e \in reduce_grant_to_requirement(g, r)
        BY Zenon, <2>4
      <3>2. Sound(g)
        BY Zenon DEF PolicyInv
      <3>3. Leaves(e, g, r) /\ (HostsAlike(g, r) => Below(e, g))
        BY Zenon, <2>3, <3>1, <3>2, ToRequirement
      <3>4. parent' = granted /\ skill' = s
        BY Zenon, <1>2 DEF evaluate_policy
      <3>5. granted # None => g \in Met' /\ r \in Met'
        BY Zenon, <2>2, <3>4, MarksAssumption DEF Met
      <3>6. UniformHosts' /\ granted # None => HostsAlike(g, r)
        BY Zenon, <3>5, UniformIsAlikeNext
      <3> QED
        BY Zenon, <3>3, <3>6 DEF Leaves, Sound
    <2>6. evaluate_policy(s, grants, granted)
      BY Zenon, <1>2 DEF grants
    <2>7. UniformHosts' /\ granted # None => Covered(grants, granted)
      BY Zenon, <2>5 DEF Covered
    <2> HIDE DEF s
    <2> QED
      BY Zenon, <2>1, <2>2, <2>3, <2>5, <2>6, <2>7, EvaluateKeeps
  <1> QED
    BY Zenon, <1>1, <1>2 DEF InvokeChild

\* Every step keeps the grants below the request and the request below the parent.
LEMMA PolicyNext ==
    ASSUME PolicyInv, [Next]_vars
    PROVE  PolicyInv'
  <1>1. CASE Request
    <2>1. PICK s \in Cases[case].skills, grants \in Cases[case].requests :
                evaluate_policy(s, grants, None)
      BY Zenon, <1>1 DEF Request
    <2>2. case \in DOMAIN Cases
      BY Zenon DEF PolicyInv
    <2>3. s \in SkillManifest /\ \A r \in declared_capability_surface(s) : Declared(r)
      BY Zenon, <2>2, ManifestsDeclare
    <2>4. \A g \in grants : Typed(g)
      BY Zenon, <2>2, CasesAssumption
    <2> QED
      BY Zenon, <2>1, <2>2, <2>3, <2>4, EvaluateKeeps
  <1>2. ASSUME NEW rule \in Cases[case].rules, ApplyRule(rule) PROVE PolicyInv'
    BY Zenon, <1>2, RuleKeeps
  <1>3. CASE Decide
    <2>1. UNCHANGED <<case, skill, requested, granted, parent>> /\ phase # "idle"
      BY Zenon, <1>3 DEF Decide, rejected_policy_evaluation, completed_policy_evaluation
    <2>2. Met' = Met /\ (UniformHosts' <=> UniformHosts)
      BY Zenon, <2>1 DEF Met, UniformHosts, HttpConstraints
    <2> QED
      BY Zenon, <2>1, <2>2 DEF PolicyInv
  <1>4. CASE InvokeChild
    BY Zenon, <1>4, ChildKeeps
  <1>5. CASE UNCHANGED vars
    <2>1. Met' = Met /\ (UniformHosts' <=> UniformHosts)
      BY Zenon, <1>5 DEF vars, Met, UniformHosts, HttpConstraints
    <2> QED
      BY Zenon, <1>5, <2>1 DEF vars, PolicyInv
  <1> QED
    BY Zenon, <1>1, <1>2, <1>3, <1>4, <1>5 DEF Next

\* The strengthening holds of every evaluation.
LEMMA PolicyAlways == Spec => []PolicyInv
  <1>1. Init => PolicyInv
    BY Zenon DEF Init, PolicyInv, Covered
  <1>2. PolicyInv /\ [Next]_vars => PolicyInv'
    BY Zenon, PolicyNext
  <1> QED
    BY <1>1, <1>2, PTL DEF Spec

\* evaluate_policy and derive_child_grants: for every manifest, request and sequence of
\* rules, and down a chain of children, no operation is authorized that the request or
\* the parent's grants do not authorize, as long as all sides restrict hosts alike.
THEOREM AuthorityNeverGrows == Spec => []NeverWidens
  <1>1. PolicyInv => NeverWidens
    <2> SUFFICES ASSUME PolicyInv, UniformHosts PROVE Narrowed
      BY Zenon DEF NeverWidens
    <2>1. Covered(granted, requested) /\ (parent # None => Covered(requested, parent))
      BY Zenon DEF PolicyInv
    <2>2. parent # None => Covered(granted, parent)
      BY Zenon, <2>1, CoveredTransitive
    <2> QED
      BY Zenon, <2>1, <2>2, CoveredAuthorizes DEF Narrowed
  <1> QED
    BY <1>1, PolicyAlways, PTL

-----------------------------------------------------------------------------
(* Denials *)

\* Only rules of the profile are applied.
OfProfile == applied \subseteq Cases[case].rules

\* A rule adds no operation of a family other than http-request, however hosts are written.
LEMMA RuleNarrows ==
    ASSUME PolicyInv, NEW rule \in Cases[case].rules, ApplyRule(rule),
           NEW op \in Operation, op.family \in Intersected, authorize(granted', op)
    PROVE  authorize(granted, op)
  <1>1. op.family # "http-request"
    BY Zenon DEF Intersected
  <1>2. PICK e \in granted' : e.family = op.family /\ Allows(op.family, e.constraints, op)
    BY Zenon, <1>1, AuthorizeOther
  <1>3. PICK g \in granted : e \in apply_policy_rule(rule, g)
    BY Zenon, RuleLeaves
  <1>4. /\ e.family = g.family
        /\ (\A h \in rule.grants : HostsAlike(g, h)) => Below(e, g)
    <2>1. Sound(g) /\ \A h \in rule.grants : Typed(h)
      BY Zenon, CasesAssumption DEF PolicyInv
    <2> QED
      BY Zenon, <1>3, <2>1, ToRule
  <1>5. \A h \in rule.grants : HostsAlike(g, h)
    BY Zenon, <1>1, <1>2, <1>4 DEF HostsAlike, ConstrainedHttp
  <1>6. g.family = op.family /\ Allows(op.family, g.constraints, op)
    BY Zenon, <1>1, <1>2, <1>4, <1>5 DEF Below
  <1> QED
    BY Zenon, <1>1, <1>6, AuthorizeOther

\* What a deny rule for all candidates leaves does not meet what it names.
LEMMA RuleDenies ==
    ASSUME PolicyInv, NEW rule \in Cases[case].rules, ApplyRule(rule),
           rule.effect = "deny", rule.applies_to = "any",
           NEW op \in Operation, op.family \in Intersected, authorize(granted', op)
    PROVE  ~authorize(rule.grants, op)
  <1>1. op.family # "http-request"
    BY Zenon DEF Intersected
  <1>2. PICK e \in granted' : e.family = op.family /\ Allows(op.family, e.constraints, op)
    BY Zenon, <1>1, AuthorizeOther
  <1>3. PICK g \in granted : e \in apply_policy_rule(rule, g)
    BY Zenon, RuleLeaves
  <1>4. e = g /\ \A h \in rule.grants : ~policy_grant_overlaps(h, g)
    BY Zenon, <1>3 DEF apply_policy_rule, apply_policy_deny_rule, policy_rule_target_matches
  <1>5. Sound(g) /\ \A h \in rule.grants : Typed(h)
    BY Zenon, CasesAssumption DEF PolicyInv
  <1>6. ASSUME NEW h \in rule.grants, h.family = op.family, Allows(op.family, h.constraints, op)
        PROVE  FALSE
    BY Zenon, <1>2, <1>4, <1>5, <1>6, NoOverlap
  <1> QED
    BY Zenon, <1>1, <1>6, AuthorizeOther

\* apply_policy_deny_rule, for the families whose scopes are intersected: once a rule has
\* denied an operation no sequence of later rules authorizes it again.
THEOREM DenialsHold == Spec => []DenyHolds
  <1> DEFINE Inv == OfProfile /\ DenyHolds
  <1> USE DEF Intersected
  <1>1. Init => Inv
    BY Zenon DEF Init, OfProfile, DenyHolds, Denied
  <1>2. PolicyInv /\ Inv /\ [Next]_vars => Inv'
    <2> SUFFICES ASSUME PolicyInv, Inv, [Next]_vars PROVE Inv'
      BY Zenon
    <2>1. CASE applied' = {} /\ case' = case
      BY Zenon, <2>1 DEF OfProfile, DenyHolds, Denied
    <2>2. CASE UNCHANGED <<applied, granted, case>>
      BY Zenon, <2>2 DEF OfProfile, DenyHolds, Denied, Authorized
    <2>3. ASSUME NEW rule \in Cases[case].rules, ApplyRule(rule) PROVE Inv'
      <3>1. applied' = applied \cup {rule} /\ case' = case
        BY Zenon, <2>3 DEF ApplyRule
      <3>2. OfProfile'
        BY Zenon, <3>1 DEF OfProfile
      <3>3. ASSUME NEW r \in applied', r.effect = "deny", r.applies_to = "any",
                   NEW op \in Operation, authorize(granted', op), op.family \in Intersected
            PROVE  ~authorize(r.grants, op)
        <4>1. CASE r = rule
          BY Zenon, <2>3, <3>3, <4>1, RuleDenies
        <4>2. CASE r \in applied
          <5>1. authorize(granted, op)
            BY Zenon, <2>3, <3>3, RuleNarrows
          <5> QED
            BY Zenon, <3>3, <4>2, <5>1 DEF DenyHolds, Denied, Authorized
        <4> QED
          BY Zenon, <3>1, <4>1, <4>2
      <3>4. DenyHolds'
        BY Zenon, <3>3 DEF DenyHolds, Denied, Authorized
      <3> QED
        BY Zenon, <3>2, <3>4
    <2>4. CASE Request \/ InvokeChild
      <3>1. (applied' = {} /\ case' = case) \/ UNCHANGED <<applied, granted, case>>
        BY Zenon, <2>4 DEF Request, InvokeChild, evaluate_policy
      <3> QED
        BY Zenon, <2>1, <2>2, <3>1
    <2>5. CASE Decide
      BY Zenon, <2>2, <2>5 DEF Decide, rejected_policy_evaluation, completed_policy_evaluation
    <2> QED
      BY Zenon, <2>2, <2>3, <2>4, <2>5 DEF Next, vars
  <1> QED
    BY <1>1, <1>2, PolicyAlways, PTL DEF Spec

-----------------------------------------------------------------------------
(* What the outcome says *)

\* As long as no reason is noted nothing has changed, and nothing is decided before the end.
Noted ==
    /\ phase \in {"idle", "rules"} => outcome = None
    /\ phase = "rules" /\ ~reasons => granted = requested
    /\ AllowedMeansUntouched

\* Where no grant changed, what is left of all of them is all of them.
LEMMA UnchangedAll ==
    ASSUME NEW grants, NEW left, DOMAIN left = grants, ~Changed(left)
    PROVE  AllOf(left) = grants
  BY DEF Changed, AllOf

\* evaluate_policy starts without a reason only if it leaves the request as it is.
LEMMA EvaluateNotes ==
    ASSUME NEW s, NEW grants, NEW from, evaluate_policy(s, grants, from)
    PROVE  Noted'
  <1> DEFINE left == clamp_requested_capabilities_to_manifest(grants, declared_capability_surface(s))
  <1>1. DOMAIN left = grants
    BY Zenon DEF clamp_requested_capabilities_to_manifest
  <1>2. ~Changed(left) => AllOf(left) = grants
    BY Zenon, <1>1, UnchangedAll
  <1> HIDE DEF left
  <1>3. CASE rejected_policy_evaluation({})
    BY Zenon, <1>3 DEF rejected_policy_evaluation, Noted, AllowedMeansUntouched
  <1>4. CASE /\ granted' = AllOf(left) /\ reasons' = Changed(left)
             /\ phase' = "rules" /\ outcome' = None
    <2>1. requested' = grants
      BY Zenon DEF evaluate_policy
    <2> QED
      BY Zenon, <1>2, <1>4, <2>1, MarksAssumption DEF Noted, AllowedMeansUntouched
  <1> QED
    BY Zenon, <1>3, <1>4 DEF evaluate_policy, left

\* completed_policy_evaluation reports `allowed' only of a request that neither clamping
\* nor any rule has changed.
THEOREM AllowedIsUntouched == Spec => []AllowedMeansUntouched
  <1>1. Init => Noted
    BY Zenon, MarksAssumption DEF Init, Noted, AllowedMeansUntouched
  <1>2. Noted /\ [Next]_vars => Noted'
    <2> SUFFICES ASSUME Noted, [Next]_vars PROVE Noted'
      OBVIOUS
    <2>1. CASE Request
      BY Zenon, <2>1, EvaluateNotes DEF Request
    <2>2. ASSUME NEW rule \in Cases[case].rules, ApplyRule(rule) PROVE Noted'
      <3> DEFINE left == [g \in granted |-> apply_policy_rule(rule, g)]
      <3>1. ~Changed(left) => AllOf(left) = granted
        BY Zenon, UnchangedAll
      <3> HIDE DEF left
      <3>2. /\ phase = "rules" /\ granted' = AllOf(left)
            /\ reasons' = (reasons \/ Changed(left))
            /\ UNCHANGED <<phase, outcome, requested>>
        BY Zenon, <2>2 DEF ApplyRule, left
      <3> QED
        BY Zenon, <3>1, <3>2, MarksAssumption DEF Noted, AllowedMeansUntouched
    <2>3. CASE Decide
      BY Zenon, <2>3 DEF Decide, rejected_policy_evaluation, completed_policy_evaluation, Noted,
         AllowedMeansUntouched
    <2>4. CASE InvokeChild
      <3>1. CASE phase' = "denied" /\ UNCHANGED <<requested, granted, outcome>>
        BY Zenon, <3>1 DEF Noted, AllowedMeansUntouched
      <3>2. CASE \E s, grants : evaluate_policy(s, grants, granted)
        BY Zenon, <3>2, EvaluateNotes
      <3> QED
        BY Zenon, <2>4, <3>1, <3>2 DEF InvokeChild
    <2>5. CASE UNCHANGED vars
      BY Zenon, <2>5 DEF vars, Noted, AllowedMeansUntouched
    <2> QED
      BY <2>1, <2>2, <2>3, <2>4, <2>5 DEF Next
  <1>3. Noted => AllowedMeansUntouched
    BY Zenon DEF Noted
  <1> QED
    BY <1>1, <1>2, <1>3, PTL DEF Spec

-----------------------------------------------------------------------------
(* Ceilings *)

\* AsCeiling, on the constraints of a request.
Ceiling(c) ==
    [c EXCEPT !.follow_redirects = IF c.follow_redirects = Unbounded THEN TRUE ELSE c.follow_redirects,
              !.max_redirects = IF @ = Unbounded THEN HTTP_UNCONSTRAINED_MAX_REDIRECTS ELSE @,
              !.allow_loopback = IF c.allow_loopback = Unbounded THEN TRUE ELSE c.allow_loopback]

\* AsCeiling keeps the family and, but for http-request, the constraints.
LEMMA CeilingOf ==
    ASSUME NEW g
    PROVE  /\ AsCeiling(g).family = g.family
           /\ AsCeiling(g).constraints = IF ConstrainedHttp(g) THEN Ceiling(g.constraints)
                                         ELSE g.constraints
  BY Zenon DEF AsCeiling, Grant, ConstrainedHttp, Ceiling

\* A ceiling has the scopes and the sizes of the constraints, and flags that are set unless
\* the constraints clear them.
LEMMA CeilingFields ==
    ASSUME NEW q \in HttpRequestConstraints, NEW d, d = Ceiling(q)
    PROVE  /\ d \in HttpRequestConstraints
           /\ d.methods = q.methods /\ d.hosts = q.hosts /\ d.suffixes = q.suffixes
           /\ d.paths = q.paths /\ d.max_response_bytes = q.max_response_bytes
           /\ q.follow_redirects # FALSE => d.follow_redirects = TRUE
           /\ q.allow_loopback # FALSE => d.allow_loopback = TRUE
           /\ d.max_redirects = IF q.max_redirects = Unbounded
                                THEN HTTP_UNCONSTRAINED_MAX_REDIRECTS ELSE q.max_redirects
  <1>1. HTTP_UNCONSTRAINED_MAX_REDIRECTS \in Limit /\ TRUE \in AllowFlag
    BY Zenon DEF HTTP_UNCONSTRAINED_MAX_REDIRECTS, Limit, AllowFlag
  <1>2. d \in HttpRequestConstraints
    BY Zenon, <1>1 DEF Ceiling, HttpRequestConstraints
  <1>3. q.follow_redirects \in {Unbounded, TRUE, FALSE} /\ q.allow_loopback \in {Unbounded, TRUE, FALSE}
    BY Zenon DEF HttpRequestConstraints, AllowFlag
  <1>4. /\ d.methods = q.methods /\ d.hosts = q.hosts /\ d.suffixes = q.suffixes
        /\ d.paths = q.paths /\ d.max_response_bytes = q.max_response_bytes
        /\ d.follow_redirects = IF q.follow_redirects = Unbounded THEN TRUE ELSE q.follow_redirects
        /\ d.allow_loopback = IF q.allow_loopback = Unbounded THEN TRUE ELSE q.allow_loopback
        /\ d.max_redirects = IF q.max_redirects = Unbounded
                             THEN HTTP_UNCONSTRAINED_MAX_REDIRECTS ELSE q.max_redirects
    BY Zenon DEF Ceiling, HttpRequestConstraints
  <1> QED
    BY Zenon, <1>2, <1>3, <1>4

FewRedirects(c) == c.max_redirects \in {Unbounded} \cup 0..HTTP_UNCONSTRAINED_MAX_REDIRECTS

\* Reduced constraints stay below what one side is a ceiling for.
LEMMA BelowCeiling ==
    ASSUME NEW p \in HttpRequestConstraints, NEW r \in HttpRequestConstraints, Alike(p, r),
           NEW follow \in AllowFlag, NEW loopback \in AllowFlag, NEW c,
           ReducedFields(c, p, r, follow, loopback), FewRedirects(c),
           NEW q \in {p, r},
           follow = TRUE => q.follow_redirects # FALSE,
           loopback = TRUE => q.allow_loopback # FALSE
    PROVE  BelowHttp(c, Ceiling(q))
  <1> DEFINE d == Ceiling(q)
  <1>1. /\ c \in HttpRequestConstraints
        /\ c.follow_redirects = follow /\ c.allow_loopback = loopback
        /\ ReducedScopes(c, p, r)
    BY HttpScopes
  <1>2. q \in HttpRequestConstraints
    BY Zenon
  <1>3. /\ d \in HttpRequestConstraints
        /\ d.methods = q.methods /\ d.hosts = q.hosts /\ d.suffixes = q.suffixes
        /\ d.paths = q.paths /\ d.max_response_bytes = q.max_response_bytes
        /\ follow = TRUE => d.follow_redirects = TRUE
        /\ loopback = TRUE => d.allow_loopback = TRUE
        /\ d.max_redirects = IF q.max_redirects = Unbounded
                             THEN HTTP_UNCONSTRAINED_MAX_REDIRECTS ELSE q.max_redirects
    BY Zenon, <1>2, CeilingFields
  <1> HIDE DEF d
  <1>4. /\ \A v : AllowsIn(c.methods, v) => AllowsIn(d.methods, v)
        /\ \A v : AllowsUnder(c.paths, v) => AllowsUnder(d.paths, v)
        /\ \A n \in Nat : AllowsUpTo(c.max_response_bytes, n) => AllowsUpTo(d.max_response_bytes, n)
    BY Zenon, <1>1, <1>3 DEF ReducedScopes
  <1>5. \A v : matches_http_host(c, v) => matches_http_host(d, v)
    <2>1. \A v : matches_http_host(c, v) => matches_http_host(q, v)
      BY Zenon, <1>1 DEF ReducedScopes
    <2> QED
      BY Zenon, <1>3, <2>1 DEF matches_http_host
  <1>6. ASSUME NEW n \in Nat, MayFollow(c, n) PROVE MayFollow(d, n)
    <2>1. c # Unconstrained /\ d # Unconstrained
      BY Zenon, <1>1, <1>3, MarksAssumption
    <2>2. follow = TRUE /\ c.max_redirects # Unbounded /\ n <= c.max_redirects
      BY Zenon, <1>1, <1>6, <2>1 DEF MayFollow
    <2>3. /\ c.max_redirects = reduce_required_max_bytes(p.max_redirects, r.max_redirects)
          /\ c.max_redirects # Mismatch
      BY Zenon, <2>2 DEF ReducedFields
    <2>4. p.max_redirects \in Limit /\ r.max_redirects \in Limit
      BY Zenon DEF HttpRequestConstraints
    <2>5. \A m \in Nat : AllowsUpTo(c.max_redirects, m) => AllowsUpTo(q.max_redirects, m)
      BY Zenon, <2>3, <2>4, MaxBytes
    <2>6. AllowsUpTo(q.max_redirects, n)
      BY Zenon, <2>2, <2>5 DEF AllowsUpTo
    <2>7. c.max_redirects \in 0..HTTP_UNCONSTRAINED_MAX_REDIRECTS
      BY Zenon, <2>2 DEF FewRedirects
    <2>8. n <= HTTP_UNCONSTRAINED_MAX_REDIRECTS
      BY <2>2, <2>7 DEF HTTP_UNCONSTRAINED_MAX_REDIRECTS
    <2>9. d.max_redirects # Unbounded /\ n <= d.max_redirects
      BY <1>3, <2>6, <2>8, MarksAssumption DEF AllowsUpTo, HTTP_UNCONSTRAINED_MAX_REDIRECTS
    <2> QED
      BY Zenon, <1>3, <2>1, <2>2, <2>9 DEF MayFollow
  <1>7. c.allow_loopback = TRUE => d.allow_loopback = TRUE
    BY Zenon, <1>1, <1>3
  <1>8. BelowHttp(c, d)
    BY Zenon, <1>1, <1>3, <1>4, <1>5, <1>6, <1>7, HttpBelow
  <1> QED
    BY Zenon, <1>8 DEF d

\* Reduced redirects are few where they are on both sides, or on the side that sets the flag.
LEMMA FewStay ==
    ASSUME NEW p \in HttpRequestConstraints, NEW r \in HttpRequestConstraints,
           NEW follow, NEW loopback, NEW c, ReducedFields(c, p, r, follow, loopback),
           \/ FewRedirects(p) /\ FewRedirects(r)
           \/ FewRedirects(p) /\ (follow = TRUE => p.max_redirects # Unbounded)
           \/ FewRedirects(r) /\ (follow = TRUE => r.max_redirects # Unbounded)
    PROVE  FewRedirects(c)
  <1>1. CASE follow # TRUE
    BY Zenon, <1>1 DEF ReducedFields, FewRedirects
  <1>2. CASE follow = TRUE
    <2>1. /\ c.max_redirects = reduce_required_max_bytes(p.max_redirects, r.max_redirects)
          /\ c.max_redirects # Mismatch
      BY Zenon, <1>2 DEF ReducedFields
    <2>2. p.max_redirects \in Limit /\ r.max_redirects \in Limit
      BY Zenon DEF HttpRequestConstraints
    <2> QED
      BY <1>2, <2>1, <2>2, MarksAssumption
      DEF reduce_required_max_bytes, FewRedirects, Limit, HTTP_UNCONSTRAINED_MAX_REDIRECTS
  <1> QED
    BY Zenon, <1>1, <1>2

\* Constraints that are few on redirects are below none at all.
LEMMA BelowUnconstrained ==
    ASSUME NEW e, Declared(e), e.family = "http-request"
    PROVE  BelowHttp(e.constraints, Unconstrained)
  <1> DEFINE c == e.constraints
  <1>1. ASSUME NEW op \in Operation, op.family = "http-request", MayFollow(c, op.redirects)
        PROVE  MayFollow(Unconstrained, op.redirects)
    <2>1. op.redirects \in Nat
      BY Zenon, <1>1, OperationAssumption
    <2>2. CASE c = Unconstrained
      BY Zenon, <1>1, <2>2
    <2>3. CASE c # Unconstrained
      <3>1. c.max_redirects \in {Unbounded} \cup 0..HTTP_UNCONSTRAINED_MAX_REDIRECTS
        BY Zenon, <2>3 DEF Declared, ConstrainedHttp
      <3>2. c.max_redirects # Unbounded /\ op.redirects <= c.max_redirects
        BY Zenon, <1>1, <2>3 DEF MayFollow
      <3> QED
        BY <2>1, <3>1, <3>2 DEF MayFollow, HTTP_UNCONSTRAINED_MAX_REDIRECTS
    <2> QED
      BY Zenon, <2>2, <2>3
  <1> QED
    BY Zenon, <1>1 DEF BelowHttp, HttpMatches, MayReceive

\* Constraints are below themselves as a ceiling.
LEMMA BelowOwnCeiling ==
    ASSUME NEW q \in HttpRequestConstraints
    PROVE  BelowHttp(q, Ceiling(q))
  <1> DEFINE d == Ceiling(q)
  <1>1. /\ d \in HttpRequestConstraints
        /\ d.methods = q.methods /\ d.hosts = q.hosts /\ d.suffixes = q.suffixes
        /\ d.paths = q.paths /\ d.max_response_bytes = q.max_response_bytes
        /\ q.follow_redirects # FALSE => d.follow_redirects = TRUE
        /\ q.allow_loopback # FALSE => d.allow_loopback = TRUE
        /\ d.max_redirects = IF q.max_redirects = Unbounded
                             THEN HTTP_UNCONSTRAINED_MAX_REDIRECTS ELSE q.max_redirects
    BY Zenon, CeilingFields
  <1> HIDE DEF d
  <1>2. q # Unconstrained /\ d # Unconstrained
    BY Zenon, <1>1, MarksAssumption
  <1>3. \A n \in Nat : MayFollow(q, n) => MayFollow(d, n)
    BY Zenon, <1>1, <1>2 DEF MayFollow
  <1>4. \A v : matches_http_host(q, v) => matches_http_host(d, v)
    BY Zenon, <1>1 DEF matches_http_host
  <1>5. q.allow_loopback = TRUE => d.allow_loopback = TRUE
    BY Zenon, <1>1
  <1>6. BelowHttp(q, d)
    BY Zenon, <1>1, <1>3, <1>4, <1>5, HttpBelow
  <1> QED
    BY Zenon, <1>6 DEF d

\* A flag that reduce_optional_allow_flag sets is not cleared by the requirement.
LEMMA ChildFlag ==
    ASSUME NEW p \in AllowFlag, NEW r \in AllowFlag,
           NEW flag, flag = reduce_optional_allow_flag(p, r), flag # Mismatch
    PROVE  flag \in AllowFlag /\ (flag = TRUE => r # FALSE)
  <1>1. CASE r = FALSE
    <2>1. r # Unbounded
      BY Zenon, <1>1, MarksAssumption
    <2>2. flag = FALSE
      BY <1>1, <2>1, Zenon DEF reduce_optional_allow_flag
    <2> QED
      BY Zenon, <2>2 DEF AllowFlag
  <1>2. CASE r # FALSE
    BY Zenon, <1>2 DEF reduce_optional_allow_flag, AllowFlag
  <1> QED
    BY Zenon, <1>1, <1>2

\* A grant that is reduced to a requirement stays below the requirement as a ceiling.
LEMMA RequirementCeiling ==
    ASSUME NEW g, Declared(g), NEW r, Declared(r), NEW e \in reduce_grant_to_requirement(g, r)
    PROVE  /\ Declared(e)
           /\ HostsAlike(g, r) => Below(e, AsCeiling(r))
  <1> DEFINE p == g.constraints
             q == r.constraints
  <1>1. PICK c : /\ c = reduce_child_constraints(g.family, p, q)
                 /\ c # Mismatch /\ g.family = r.family /\ e = Grant(g.family, c)
    BY Zenon DEF reduce_grant_to_requirement
  <1>2. e.family = r.family /\ e.constraints = c
    BY Zenon, <1>1 DEF Grant
  <1>3. Sound(e)
    BY Zenon, ToRequirement DEF Declared, Leaves
  <1>4. CASE g.family # "http-request"
    <2>1. Declared(e) /\ AsCeiling(r).constraints = q
      BY Zenon, <1>1, <1>2, <1>3, <1>4, CeilingOf DEF Declared, ConstrainedHttp
    <2>2. ASSUME NEW op \in Operation, op.family = g.family, Allows(g.family, c, op)
          PROVE  Allows(g.family, q, op)
      <3>1. CASE q = Unconstrained
        BY Zenon, <3>1 DEF Allows
      <3>2. CASE q # Unconstrained /\ p = Unconstrained
        BY Zenon, <1>1, <2>2, <3>2 DEF reduce_child_constraints
      <3>3. CASE q # Unconstrained /\ p # Unconstrained
        <4>1. /\ p \in CapabilityConstraints(g.family) /\ q \in CapabilityConstraints(g.family)
              /\ c = ReduceCommon(g.family, p, q) /\ g.family \in CapabilityFamily
          BY Zenon, <1>1, <1>4, <3>3 DEF Sound, Declared, Typed, reduce_child_constraints
        <4>2. Reduces(g.family, c, p, q)
          BY Zenon, <1>4, <4>1, CommonReduces
        <4> QED
          BY Zenon, <1>1, <2>2, <4>2 DEF Reduces
      <3> QED
        BY Zenon, <3>1, <3>2, <3>3
    <2> QED
      BY Zenon, <1>1, <1>2, <1>4, <2>1, <2>2, CeilingOf DEF Below
  <1>5. CASE g.family = "http-request" /\ q # Unconstrained /\ p # Unconstrained
    <2>1. /\ p \in HttpRequestConstraints /\ q \in HttpRequestConstraints
          /\ FewRedirects(p) /\ FewRedirects(q)
          /\ c = reduce_child_http_request_constraints(p, q)
      BY Zenon, <1>1, <1>5 DEF Sound, Declared, Typed, CapabilityConstraints, ConstrainedHttp,
         reduce_child_constraints, FewRedirects
    <2> DEFINE follow == reduce_optional_allow_flag(p.follow_redirects, q.follow_redirects)
               loopback == reduce_optional_allow_flag(p.allow_loopback, q.allow_loopback)
    <2>2. ReducedFields(c, p, q, follow, loopback)
      BY Zenon, <1>1, <2>1, HttpFields DEF reduce_child_http_request_constraints
    <2>3. follow # Mismatch /\ loopback # Mismatch
      BY Zenon, <2>2 DEF ReducedFields
    <2>4. /\ p.follow_redirects \in AllowFlag /\ q.follow_redirects \in AllowFlag
          /\ p.allow_loopback \in AllowFlag /\ q.allow_loopback \in AllowFlag
      BY Zenon, <2>1 DEF HttpRequestConstraints
    <2>5. /\ follow \in AllowFlag /\ (follow = TRUE => q.follow_redirects # FALSE)
          /\ loopback \in AllowFlag /\ (loopback = TRUE => q.allow_loopback # FALSE)
      BY Zenon, <2>3, <2>4, ChildFlag
    <2> HIDE DEF follow, loopback
    <2>6. FewRedirects(c)
      BY Zenon, <2>1, <2>2, FewStay
    <2>7. Alike(p, q) => BelowHttp(c, Ceiling(q))
      BY Zenon, <2>1, <2>2, <2>5, <2>6, BelowCeiling
    <2>8. Declared(e)
      BY Zenon, <1>2, <1>3, <2>6 DEF Declared, FewRedirects
    <2>9. HostsAlike(g, r) => Below(e, AsCeiling(r))
      BY Zenon, <1>1, <1>2, <1>5, <2>7, CeilingOf DEF HostsAlike, ConstrainedHttp, Below
    <2> QED
      BY Zenon, <2>8, <2>9
  <1>6. CASE g.family = "http-request" /\ (q = Unconstrained \/ p = Unconstrained)
    <2>1. Declared(e)
      BY Zenon, <1>1, <1>2, <1>3, <1>6 DEF reduce_child_constraints, Declared, ConstrainedHttp
    <2>2. CASE q = Unconstrained
      BY Zenon, <1>1, <1>2, <1>6, <2>1, <2>2, BelowUnconstrained, CeilingOf DEF ConstrainedHttp, Below
    <2>3. CASE q # Unconstrained
      <3>1. c = q /\ q \in HttpRequestConstraints
        BY Zenon, <1>1, <1>6, <2>3 DEF reduce_child_constraints, Declared, Sound, Typed, CapabilityConstraints
      <3>2. BelowHttp(q, Ceiling(q))
        BY Zenon, <1>1, <1>6, <2>3, <3>1, BelowOwnCeiling DEF Declared, Sound, ConstrainedHttp
      <3> QED
        BY Zenon, <1>1, <1>2, <1>6, <2>1, <2>3, <3>1, <3>2, CeilingOf DEF ConstrainedHttp, Below
    <2> QED
      BY Zenon, <2>2, <2>3
  <1> QED
    BY Zenon, <1>4, <1>5, <1>6

\* A grant that is reduced to a cap stays below the cap as a ceiling, unless the grant has
\* no constraints: those it keeps.
LEMMA CapCeiling ==
    ASSUME NEW g, Declared(g), NEW cap, Typed(cap), NEW e \in reduce_grant_to_cap(cap, g)
    PROVE  /\ Declared(e) /\ e.family = g.family /\ cap.family = g.family
           /\ g.constraints = Unconstrained => e.constraints = Unconstrained
           /\ HostsAlike(g, cap) /\ e.constraints # Unconstrained => Below(e, AsCeiling(cap))
  <1> DEFINE p == cap.constraints
             q == g.constraints
  <1>1. PICK c : /\ c = reduce_cap_constraints(g.family, p, q)
                 /\ c # Mismatch /\ g.family = cap.family /\ e = Grant(g.family, c)
    BY DEF reduce_grant_to_cap
  <1>2. e.family = g.family /\ e.constraints = c
    BY <1>1 DEF Grant
  <1>3. Sound(e)
    BY Zenon, ToCap DEF Declared, Leaves
  <1>4. CASE q = Unconstrained
    BY Zenon, <1>1, <1>2, <1>3, <1>4 DEF reduce_cap_constraints, Declared, ConstrainedHttp
  <1>5. CASE q # Unconstrained /\ p = Unconstrained
    <2>1. c = q
      BY Zenon, <1>1, <1>5 DEF reduce_cap_constraints
    <2>2. Declared(e)
      BY Zenon, <1>2, <1>3, <2>1 DEF Declared, ConstrainedHttp
    <2>3. AsCeiling(cap).family = e.family /\ AsCeiling(cap).constraints = Unconstrained
      BY Zenon, <1>1, <1>2, <1>5, CeilingOf DEF ConstrainedHttp
    <2>4. Below(e, AsCeiling(cap))
      BY Zenon, <2>2, <2>3, BelowUnconstrained DEF Below, Allows
    <2> QED
      BY Zenon, <1>1, <1>2, <1>5, <2>2, <2>4
  <1>6. CASE q # Unconstrained /\ p # Unconstrained /\ g.family # "http-request"
    <2>1. /\ p \in CapabilityConstraints(g.family) /\ q \in CapabilityConstraints(g.family)
          /\ c = ReduceCommon(g.family, p, q) /\ g.family \in CapabilityFamily
      BY Zenon, <1>1, <1>6 DEF Sound, Declared, Typed, reduce_cap_constraints
    <2>2. Reduces(g.family, c, p, q)
      BY Zenon, <1>6, <2>1, CommonReduces
    <2>3. Declared(e) /\ AsCeiling(cap).constraints = p
      BY Zenon, <1>1, <1>2, <1>3, <1>6, CeilingOf DEF Declared, ConstrainedHttp
    <2>4. Below(e, AsCeiling(cap))
      BY Zenon, <1>1, <1>2, <1>6, <2>2, <2>3, CeilingOf DEF Reduces, Below
    <2> QED
      BY Zenon, <1>1, <1>2, <1>6, <2>3, <2>4
  <1>7. CASE q # Unconstrained /\ p # Unconstrained /\ g.family = "http-request"
    <2>1. /\ p \in HttpRequestConstraints /\ q \in HttpRequestConstraints
          /\ FewRedirects(q) /\ Bounded(q)
          /\ c = reduce_cap_http_request_constraints(p, q)
      BY Zenon, <1>1, <1>7 DEF Sound, Declared, Typed, CapabilityConstraints, ConstrainedHttp,
         reduce_cap_constraints, FewRedirects
    <2> DEFINE follow == reduce_cap_allow_flag(p.follow_redirects, q.follow_redirects)
               loopback == reduce_cap_allow_flag(p.allow_loopback, q.allow_loopback)
    <2>2. ReducedFields(c, p, q, follow, loopback)
      BY Zenon, <1>1, <2>1, HttpFields DEF reduce_cap_http_request_constraints
    <2>4. /\ p.follow_redirects \in AllowFlag /\ q.follow_redirects \in AllowFlag
          /\ p.allow_loopback \in AllowFlag /\ q.allow_loopback \in AllowFlag
      BY Zenon, <2>1 DEF HttpRequestConstraints
    <2>5. /\ follow \in AllowFlag /\ (follow = TRUE => p.follow_redirects # FALSE)
          /\ loopback \in AllowFlag /\ (loopback = TRUE => p.allow_loopback # FALSE)
          /\ follow = TRUE => q.follow_redirects = TRUE
      BY Zenon, <2>4 DEF reduce_cap_allow_flag, AllowFlag
    <2> HIDE DEF follow, loopback
    <2>6. FewRedirects(c)
      BY Zenon, <2>1, <2>2, <2>5, FewStay DEF Bounded
    <2>7. Alike(p, q) => BelowHttp(c, Ceiling(p))
      BY Zenon, <2>1, <2>2, <2>5, <2>6, BelowCeiling
    <2>8. Declared(e)
      BY Zenon, <1>2, <1>3, <2>6 DEF Declared, FewRedirects
    <2>9. HostsAlike(g, cap) => Below(e, AsCeiling(cap))
      BY Zenon, <1>1, <1>2, <1>7, <2>7, CeilingOf DEF HostsAlike, ConstrainedHttp, Below, Alike
    <2> QED
      BY Zenon, <1>1, <1>2, <1>7, <2>8, <2>9
  <1> QED
    BY Zenon, <1>4, <1>5, <1>6, <1>7

AsCeilings(grants) == {AsCeiling(g) : g \in grants}

CapsOf(rule, g) == {cap \in rule.grants : cap.family = g.family}

\* A grant with constraints is below one of the caps of its family.
UnderCaps(g, rule) ==
    CapsOf(rule, g) # {} /\ g.constraints # Unconstrained =>
        \E cap \in CapsOf(rule, g) : Below(g, AsCeiling(cap))

\* Inductive strengthening: grants stay few on redirects, each of them is below something
\* that the skill declares, and below one of the caps of each rule for all candidates.
CeilingInv ==
    /\ \A g \in granted : Declared(g)
    /\ UniformHosts =>
        /\ skill # None => Covered(granted, AsCeilings(declared_capability_surface(skill)))
        /\ \A rule \in applied : rule.effect = "cap" /\ rule.applies_to = "any" =>
            \A g \in granted : UnderCaps(g, rule)

\* What a rule leaves of a grant keeps few redirects, the family and whether there are
\* constraints at all; a cap for all candidates leaves what is below one of its caps.
LEMMA RuleCeiling ==
    ASSUME NEW g, Declared(g), NEW rule, \A h \in rule.grants : Typed(h) /\ HostsAlike(g, h),
           NEW e \in apply_policy_rule(rule, g)
    PROVE  /\ e.family = g.family
           /\ e.constraints # Unconstrained => g.constraints # Unconstrained
           /\ rule.effect = "cap" /\ rule.applies_to = "any" => UnderCaps(e, rule)
  <1>1. ASSUME NEW h \in rule.grants, e \in reduce_grant_to_cap(h, g)
        PROVE  /\ e.family = g.family /\ h.family = g.family
               /\ e.constraints # Unconstrained => g.constraints # Unconstrained
               /\ e.constraints # Unconstrained => Below(e, AsCeiling(h))
    BY Zenon, <1>1, CapCeiling
  <1>2. e = g \/ \E h \in rule.grants : e \in reduce_grant_to_cap(h, g)
    BY Zenon DEF apply_policy_rule, apply_policy_deny_rule, apply_policy_cap_rule
  <1>3. ASSUME rule.effect = "cap", rule.applies_to = "any", CapsOf(rule, e) # {}
        PROVE  \E h \in rule.grants : e \in reduce_grant_to_cap(h, g)
    <2>1. CapsOf(rule, e) = {h \in rule.grants : h.family = g.family}
      BY Zenon, <1>1, <1>2 DEF CapsOf
    <2> QED
      BY Zenon, <1>3, <2>1 DEF apply_policy_rule, apply_policy_cap_rule, policy_rule_target_matches
  <1> QED
    BY Zenon, <1>1, <1>2, <1>3 DEF UnderCaps, CapsOf

\* A rule leaves grants that name few redirects.
LEMMA RuleDeclared ==
    ASSUME NEW g, Declared(g), NEW rule, \A h \in rule.grants : Typed(h),
           NEW e \in apply_policy_rule(rule, g)
    PROVE  Declared(e)
  <1>1. e = g \/ \E h \in rule.grants : e \in reduce_grant_to_cap(h, g)
    BY DEF apply_policy_rule, apply_policy_deny_rule, apply_policy_cap_rule
  <1> QED
    BY Zenon, <1>1, CapCeiling

\* evaluate_policy leaves what the skill declares.
LEMMA EvaluateCeiling ==
    ASSUME NEW s \in SkillManifest, \A r \in declared_capability_surface(s) : Declared(r),
           NEW grants, \A g \in grants : Typed(g) /\ (ConstrainedHttp(g) => FewRedirects(g.constraints)),
           NEW from, evaluate_policy(s, grants, from)
    PROVE  CeilingInv'
  <1>1. skill' = s /\ requested' = grants /\ applied' = {} /\ s # None
    BY Zenon, MarksAssumption DEF evaluate_policy
  <1>2. CASE granted' = {}
    BY Zenon, <1>1, <1>2 DEF CeilingInv, Covered
  <1>3. CASE /\ invalid_capability_grants(grants) = {}
             /\ granted' = AllOf(clamp_requested_capabilities_to_manifest(
                                    grants, declared_capability_surface(s)))
    <2>1. ASSUME NEW g \in grants PROVE Declared(g)
      <3>1. Sound(g)
        BY Zenon, <1>3 DEF invalid_capability_grants, validate, ValidHttp, ConstrainedHttp, Bounded, Sound
      <3> QED
        BY Zenon, <3>1 DEF Declared, FewRedirects
    <2>2. ASSUME NEW e \in granted'
          PROVE  /\ Declared(e)
                 /\ UniformHosts' => \E r \in declared_capability_surface(s) : Below(e, AsCeiling(r))
      <3>1. PICK g \in grants, r \in declared_capability_surface(s) :
                e \in reduce_grant_to_requirement(g, r)
        BY <1>3, <2>2 DEF AllOf, clamp_requested_capabilities_to_manifest
      <3>2. Declared(e) /\ (HostsAlike(g, r) => Below(e, AsCeiling(r)))
        BY Zenon, <2>1, <3>1, RequirementCeiling
      <3>3. g \in Met' /\ r \in Met'
        BY Zenon, <1>1 DEF Met
      <3>4. UniformHosts' => HostsAlike(g, r)
        BY Zenon, <3>3, UniformIsAlikeNext
      <3> QED
        BY Zenon, <3>2, <3>4
    <2>3. UniformHosts' => Covered(granted', AsCeilings(declared_capability_surface(s)))
      BY Zenon, <2>2 DEF Covered, AsCeilings
    <2> QED
      BY Zenon, <1>1, <2>2, <2>3 DEF CeilingInv
  <1> QED
    BY Zenon, <1>2, <1>3 DEF evaluate_policy, rejected_policy_evaluation

\* The steps of an evaluation, and of the evaluations of children.
LEMMA CeilingNext ==
    ASSUME PolicyInv, CeilingInv, [Next]_vars
    PROVE  CeilingInv'
  <1>0. case \in DOMAIN Cases
    BY Zenon DEF PolicyInv
  <1>1. CASE Request
    <2>1. PICK s \in Cases[case].skills, grants \in Cases[case].requests :
                evaluate_policy(s, grants, None)
      BY Zenon, <1>1 DEF Request
    <2>2. s \in SkillManifest /\ \A r \in declared_capability_surface(s) : Declared(r)
      BY Zenon, <1>0, ManifestsDeclare
    <2>3. ASSUME NEW g \in grants
          PROVE  Typed(g) /\ (ConstrainedHttp(g) => FewRedirects(g.constraints))
      <3>1. Typed(g)
        BY Zenon, <1>0, CasesAssumption
      <3>2. g \in (UNION Cases[case].requests)
                    \cup (UNION {declared_capability_surface(t) : t \in Cases[case].skills})
        BY Zenon
      <3>3. ConstrainedHttp(g) => FewRedirects(g.constraints)
        BY <1>0, <3>2, RedirectsAssumption, Zenon DEF ConstrainedHttp, FewRedirects
      <3> QED
        BY Zenon, <3>1, <3>3
    <2> QED
      BY Zenon, <2>1, <2>2, <2>3, EvaluateCeiling
  <1>2. ASSUME NEW rule \in Cases[case].rules, ApplyRule(rule) PROVE CeilingInv'
    <2>1. UNCHANGED <<case, skill, requested, parent>> /\ applied' = applied \cup {rule}
      BY Zenon, <1>2 DEF ApplyRule
    <2>2. UniformHosts' <=> UniformHosts
      BY Zenon, <2>1 DEF UniformHosts, HttpConstraints
    <2>3. rule.grants \subseteq Met /\ \A h \in rule.grants : Typed(h)
      BY Zenon, <1>0, CasesAssumption DEF Met
    <2>4. ASSUME NEW e \in granted'
          PROVE  \E g \in granted : e \in apply_policy_rule(rule, g) /\ Declared(g)
      BY Zenon, <1>2, <2>4, RuleLeaves DEF CeilingInv
    <2>5. \A e \in granted' : Declared(e)
      BY Zenon, <2>3, <2>4, RuleDeclared
    <2>6. ASSUME UniformHosts, NEW e \in granted'
          PROVE  /\ \E g \in granted : Below(e, g)
                 /\ \A r \in applied' : r.effect = "cap" /\ r.applies_to = "any" => UnderCaps(e, r)
      <3>1. PICK g \in granted : e \in apply_policy_rule(rule, g) /\ Declared(g)
        BY Zenon, <2>4
      <3>2. \A h \in rule.grants : Typed(h) /\ HostsAlike(g, h)
        BY Zenon, <2>3, <2>6 DEF PolicyInv
      <3>3. Below(e, g)
        BY Zenon, <3>1, <3>2, ToRule DEF Declared
      <3>4. /\ e.family = g.family
            /\ e.constraints # Unconstrained => g.constraints # Unconstrained
            /\ rule.effect = "cap" /\ rule.applies_to = "any" => UnderCaps(e, rule)
        BY Zenon, <3>1, <3>2, RuleCeiling
      <3>5. ASSUME NEW r \in applied, r.effect = "cap", r.applies_to = "any" PROVE UnderCaps(e, r)
        <4> SUFFICES ASSUME CapsOf(r, e) # {}, e.constraints # Unconstrained
                     PROVE  \E cap \in CapsOf(r, e) : Below(e, AsCeiling(cap))
          BY Zenon DEF UnderCaps
        <4>1. CapsOf(r, e) = CapsOf(r, g)
          BY Zenon, <3>4 DEF CapsOf
        <4>2. PICK cap \in CapsOf(r, g) : Below(g, AsCeiling(cap))
          BY Zenon, <2>6, <3>4, <3>5, <4>1 DEF CeilingInv, UnderCaps
        <4>3. Covered({e}, {g}) /\ Covered({g}, {AsCeiling(cap)})
          BY Zenon, <3>3, <4>2 DEF Covered
        <4>4. Covered({e}, {AsCeiling(cap)})
          BY Zenon, <4>3, CoveredTransitive
        <4> QED
          BY Zenon, <4>1, <4>2, <4>4 DEF Covered
      <3> QED
        BY Zenon, <2>1, <3>3, <3>4, <3>5
    <2>7. UniformHosts => Covered(granted', granted)
      BY Zenon, <2>6 DEF Covered
    <2>8. UniformHosts /\ skill # None =>
            Covered(granted', AsCeilings(declared_capability_surface(skill)))
      BY Zenon, <2>7, CoveredTransitive DEF CeilingInv
    <2> QED
      BY Zenon, <2>1, <2>2, <2>5, <2>6, <2>8 DEF CeilingInv
  <1>3. CASE UNCHANGED <<case, skill, requested, granted, applied, parent>>
    <2>1. UniformHosts' <=> UniformHosts
      BY Zenon, <1>3 DEF UniformHosts, HttpConstraints
    <2> QED
      BY Zenon, <1>3, <2>1 DEF CeilingInv
  <1>4. ASSUME NEW chosen \in CoveringChoices, skill.dependency # None, phase = "decided",
               evaluate_policy([capabilities |-> skill.dependency, dependency |-> None],
                               UNION {DerivedFor(r, chosen) : r \in skill.dependency}, granted)
        PROVE  CeilingInv'
    <2> DEFINE grants == UNION {DerivedFor(r, chosen) : r \in skill.dependency}
               s == [capabilities |-> skill.dependency, dependency |-> None]
    <2>1. skill \in SkillManifest
      BY Zenon, <1>4 DEF PolicyInv
    <2>2. s \in SkillManifest /\ declared_capability_surface(s) = skill.dependency
      BY Zenon, <1>4, <2>1 DEF SkillManifest, declared_capability_surface
    <2>3. \A r \in skill.dependency : Declared(r)
      BY Zenon, <1>4, <2>1, MarksAssumption DEF PolicyInv, declared_capability_surface
    <2>4. ASSUME NEW e \in grants PROVE Declared(e)
      <3>1. PICK r \in skill.dependency : e \in DerivedFor(r, chosen)
        BY Zenon, <2>4
      <3>2. \E g \in granted : e \in reduce_grant_to_requirement(g, r)
        <4>1. CASE Collective(r)
          BY Zenon, <3>1, <4>1 DEF DerivedFor, Derived
        <4>2. CASE ~Collective(r)
          BY Zenon, <3>1, <4>2 DEF DerivedFor, CoveringChoices
        <4> QED
          BY Zenon, <4>1, <4>2
      <3> QED
        BY Zenon, <2>3, <3>2, RequirementCeiling DEF CeilingInv
    <2>5. evaluate_policy(s, grants, granted)
      BY Zenon, <1>4
    <2> HIDE DEF grants, s
    <2>6. \A g \in grants : Typed(g) /\ (ConstrainedHttp(g) => FewRedirects(g.constraints))
      BY Zenon, <2>4 DEF Declared, Sound, FewRedirects
    <2> QED
      BY Zenon, <2>2, <2>3, <2>5, <2>6, EvaluateCeiling
  <1>5. CASE Decide
    BY Zenon, <1>3, <1>5 DEF Decide, rejected_policy_evaluation, completed_policy_evaluation
  <1>6. CASE InvokeChild
    BY Zenon, <1>3, <1>4, <1>6 DEF InvokeChild
  <1> QED
    BY Zenon, <1>1, <1>2, <1>3, <1>5, <1>6 DEF Next, vars

\* evaluate_policy: where all sides restrict hosts alike, what is granted stays within the
\* declared surface and within the caps for all candidates, for every manifest, request and
\* sequence of rules and down a chain of children.
THEOREM CeilingsHold == Spec => []WithinCeilings
  <1>1. Init => CeilingInv
    BY Zenon DEF Init, CeilingInv
  <1>2. PolicyInv /\ CeilingInv /\ [Next]_vars => CeilingInv'
    BY Zenon, CeilingNext
  <1>3. PolicyInv /\ CeilingInv => WithinCeilings
    <2> SUFFICES ASSUME PolicyInv, CeilingInv, UniformHosts, phase # "idle"
                 PROVE  /\ Within(granted, declared_capability_surface(skill))
                        /\ \A rule \in applied : rule.effect = "cap" /\ rule.applies_to = "any" =>
                            \A g \in granted :
                                CapsOf(rule, g) # {} /\ g.constraints # Unconstrained =>
                                    Within({g}, CapsOf(rule, g))
      BY Zenon DEF WithinCeilings, CapsOf
    <2>1. Covered(granted, AsCeilings(declared_capability_surface(skill)))
      BY Zenon DEF PolicyInv, CeilingInv
    <2>2. ASSUME NEW rule \in applied, rule.effect = "cap", rule.applies_to = "any",
                 NEW g \in granted, CapsOf(rule, g) # {}, g.constraints # Unconstrained
          PROVE  Covered({g}, AsCeilings(CapsOf(rule, g)))
      BY Zenon, <2>2 DEF CeilingInv, UnderCaps, Covered, AsCeilings
    <2> QED
      BY Zenon, <2>1, <2>2, CoveredAuthorizes DEF Within, AsCeilings
  <1> QED
    BY <1>1, <1>2, <1>3, PolicyAlways, PTL DEF Spec

-----------------------------------------------------------------------------
(* What is required is usable *)

\* A scope that is spelt out and covered allows what it allows.
LEMMA ScopeCovers ==
    ASSUME NEW g \in Scope, NEW r \in Scope, r # Unbounded, enum_scope_covers(g, r),
           NEW v, AllowsIn(r, v)
    PROVE  AllowsIn(g, v)
  BY Zenon DEF Scope, enum_scope_covers, AllowsIn

\* A limit that is spelt out and covered allows what it allows.
LEMMA LimitCovers ==
    ASSUME NEW g \in Limit, NEW r \in Limit, r # Unbounded, max_bytes_covers(g, r),
           NEW n \in Nat, AllowsUpTo(r, n)
    PROVE  AllowsUpTo(g, n)
  BY MarksAssumption DEF Limit, max_bytes_covers, AllowsUpTo

\* The bounds that Explicit asks for, of a request.
LEMMA ExplicitHttp ==
    ASSUME NEW c \in HttpRequestConstraints, Explicit(c)
    PROVE  /\ c.methods # Unbounded /\ c.paths # Unbounded /\ c.max_response_bytes # Unbounded
           /\ ~(c.hosts = Unbounded /\ c.suffixes = Unbounded)
  <1>1. DOMAIN c = {"methods", "hosts", "suffixes", "paths", "max_response_bytes",
                    "follow_redirects", "max_redirects", "allow_loopback"}
    BY Zenon DEF HttpRequestConstraints
  <1> QED
    BY <1>1 DEF Explicit

\* A request that a covered requirement admits is admitted by the grant.
LEMMA HttpCovers ==
    ASSUME NEW g \in HttpRequestConstraints, NEW r \in HttpRequestConstraints,
           Bounded(g), Explicit(r), http_request_covers(g, r)
    PROVE  BelowHttp(r, g)
  <1>1. /\ r.methods # Unbounded /\ r.paths # Unbounded /\ r.max_response_bytes # Unbounded
        /\ ~(r.hosts = Unbounded /\ r.suffixes = Unbounded)
    BY Zenon, ExplicitHttp
  <1>2. /\ g.methods \in Scope /\ g.paths \in Scope /\ g.max_response_bytes \in Limit
        /\ g.max_redirects \in Limit
        /\ r.methods \in Scope /\ r.paths \in Scope /\ r.max_response_bytes \in Limit
        /\ r.max_redirects \in Limit
    BY Zenon DEF HttpRequestConstraints
  <1>3. \A v : AllowsIn(r.methods, v) => AllowsIn(g.methods, v)
    BY Zenon, <1>1, <1>2, ScopeCovers DEF http_request_covers
  <1>4. \A n \in Nat : AllowsUpTo(r.max_response_bytes, n) => AllowsUpTo(g.max_response_bytes, n)
    BY Zenon, <1>1, <1>2, LimitCovers DEF http_request_covers
  <1>5. ASSUME NEW v, AllowsUnder(r.paths, v) PROVE AllowsUnder(g.paths, v)
    <2>1. IsUnder(v, r.paths)
      BY Zenon, <1>1, <1>5 DEF AllowsUnder
    <2>2. g.paths = Unbounded \/ \A n \in r.paths : IsUnder(n, g.paths)
      BY Zenon, <1>1 DEF http_request_covers, path_prefix_scope_covers
    <2> QED
      BY Zenon, <2>1, <2>2, UnderUnder DEF AllowsUnder
  <1>6. ASSUME NEW v, matches_http_host(r, v) PROVE matches_http_host(g, v)
    <2>1. v \in OrEmpty(r.hosts) \/ IsUnder(v, OrEmpty(r.suffixes))
      BY Zenon, <1>1, <1>6 DEF matches_http_host
    <2>2. /\ \A h \in OrEmpty(r.hosts) : h \in OrEmpty(g.hosts) \/ IsUnder(h, OrEmpty(g.suffixes))
          /\ \A n \in OrEmpty(r.suffixes) : IsUnder(n, OrEmpty(g.suffixes))
      BY Zenon DEF http_request_covers, http_host_scope_covers
    <2>3. v \in OrEmpty(g.hosts) \/ IsUnder(v, OrEmpty(g.suffixes))
      BY Zenon, <2>1, <2>2, UnderUnder
    <2> QED
      BY Zenon, <2>3 DEF matches_http_host
  <1>7. r.allow_loopback = TRUE => g.allow_loopback = TRUE
    BY Zenon DEF http_request_covers, allow_flag_covers
  <1>8. ASSUME NEW n \in Nat, MayFollow(r, n) PROVE MayFollow(g, n)
    <2>1. r # Unconstrained /\ g # Unconstrained
      BY Zenon, MarksAssumption
    <2>2. r.follow_redirects = TRUE /\ r.max_redirects # Unbounded /\ n <= r.max_redirects
      BY Zenon, <1>8, <2>1 DEF MayFollow
    <2>3. g.follow_redirects = TRUE /\ max_bytes_covers(g.max_redirects, r.max_redirects)
      BY Zenon, <2>2 DEF http_request_covers, allow_flag_covers
    <2>4. g.max_redirects # Unbounded
      BY Zenon, <2>3 DEF Bounded
    <2>5. AllowsUpTo(g.max_redirects, n)
      BY Zenon, <1>2, <2>2, <2>3, LimitCovers DEF AllowsUpTo
    <2> QED
      BY Zenon, <2>1, <2>3, <2>4, <2>5 DEF MayFollow, AllowsUpTo
  <1> QED
    BY Zenon, <1>3, <1>4, <1>5, <1>6, <1>7, <1>8, HttpBelow

\* One grant that covers a requirement admits what the requirement admits.
LEMMA GrantCovers ==
    ASSUME NEW g, Sound(g), NEW r, Declared(r), r.constraints # Unconstrained,
           Explicit(r.constraints), r.family \in {"http-request", "emit-evidence"},
           grant_covers_requirement(g, r)
    PROVE  Below(Grant(r.family, r.constraints), g)
  <1> DEFINE c == g.constraints
             q == r.constraints
             e == Grant(r.family, q)
  <1>1. e.family = r.family /\ e.constraints = q /\ g.family = r.family
    BY Zenon DEF Grant, grant_covers_requirement
  <1>2. CASE r.family = "http-request" /\ c = Unconstrained
    <2>1. Declared(e)
      BY Zenon, <1>1 DEF Declared, Sound, Typed, ConstrainedHttp
    <2>2. BelowHttp(e.constraints, Unconstrained)
      BY Zenon, <1>1, <1>2, <2>1, BelowUnconstrained
    <2> QED
      BY Zenon, <1>1, <1>2, <2>2 DEF Below
  <1>3. CASE r.family = "http-request" /\ c # Unconstrained
    <2>1. /\ c \in HttpRequestConstraints /\ q \in HttpRequestConstraints /\ Bounded(c)
          /\ http_request_covers(c, q)
      BY Zenon, <1>1, <1>3 DEF Sound, Declared, Typed, CapabilityConstraints, ConstrainedHttp,
         grant_covers_requirement
    <2>2. BelowHttp(q, c)
      BY Zenon, <2>1, HttpCovers
    <2> QED
      BY Zenon, <1>1, <1>3, <2>2 DEF Below
  <1>4. CASE r.family = "emit-evidence" /\ c = Unconstrained
    BY Zenon, <1>1, <1>4 DEF Below, Allows
  <1>5. CASE r.family = "emit-evidence" /\ c # Unconstrained
    <2>1. c \in EmitEvidenceConstraints /\ q \in EmitEvidenceConstraints
      BY Zenon, <1>1, <1>5 DEF Sound, Declared, Typed, CapabilityConstraints
    <2>2. DOMAIN q = {"max_bytes", "audiences"}
      BY Zenon, <2>1 DEF EmitEvidenceConstraints
    <2>3. q.max_bytes # Unbounded /\ q.audiences # Unbounded
      BY Zenon, <2>2 DEF Explicit
    <2>4. max_bytes_covers(c.max_bytes, q.max_bytes) /\ enum_scope_covers(c.audiences, q.audiences)
      BY Zenon, <1>1, <1>5, <2>2 DEF grant_covers_requirement
    <2>5. /\ c.max_bytes \in Limit /\ q.max_bytes \in Limit
          /\ c.audiences \in Scope /\ q.audiences \in Scope
      BY Zenon, <2>1 DEF EmitEvidenceConstraints
    <2>6. ASSUME NEW op \in Operation, op.family = "emit-evidence", Allows("emit-evidence", q, op)
          PROVE  Allows("emit-evidence", c, op)
      <3>1. op.bytes \in Nat
        BY Zenon, <2>6, OperationAssumption
      <3>2. AllowsUpTo(q.max_bytes, op.bytes) /\ AllowsIn(q.audiences, op.audience)
        BY Zenon, <2>6 DEF Allows
      <3>3. AllowsUpTo(c.max_bytes, op.bytes)
        BY Zenon, <2>3, <2>4, <2>5, <3>1, <3>2, LimitCovers
      <3>4. AllowsIn(c.audiences, op.audience)
        BY Zenon, <2>3, <2>4, <2>5, <3>2, ScopeCovers
      <3> QED
        BY Zenon, <3>3, <3>4 DEF Allows
    <2> QED
      BY Zenon, <1>1, <1>5, <2>6 DEF Below
  <1> QED
    BY Zenon, <1>2, <1>3, <1>4, <1>5

\* Grants that collectively cover a requirement admit, one or another of them, each
\* operation that the requirement admits.
LEMMA CollectivelyCovers ==
    ASSUME NEW grants, \A g \in grants : Sound(g), NEW r, Declared(r), Collective(r),
           Explicit(r.constraints), collectively_cover(Derived(grants, r), r),
           NEW op \in Operation, op.family = r.family, Allows(r.family, r.constraints, op)
    PROVE  \E g \in grants : g.family = r.family /\ Allows(r.family, g.constraints, op)
  <1> DEFINE q == r.constraints
  <1>1. q # Unconstrained /\ r.family \in Intersected /\ r.family # "http-request"
    BY Zenon DEF Collective, Intersected
  <1>2. ASSUME NEW e \in Derived(grants, r), Allows(r.family, e.constraints, op)
        PROVE  \E g \in grants : g.family = r.family /\ Allows(r.family, g.constraints, op)
    <2>1. PICK g \in grants : e \in reduce_grant_to_requirement(g, r)
      BY Zenon, <1>2 DEF Derived
    <2>2. g.family = r.family
      BY Zenon, <2>1 DEF reduce_grant_to_requirement
    <2>3. Leaves(e, g, r) /\ Below(e, g)
      BY Zenon, <1>1, <2>1, <2>2, ToRequirement DEF HostsAlike, ConstrainedHttp
    <2> QED
      BY Zenon, <1>1, <1>2, <2>2, <2>3 DEF Leaves, Below
  <1>3. CASE r.family = "read-resource"
    <2>1. q \in ReadResourceConstraints
      BY Zenon, <1>1, <1>3 DEF Declared, Sound, Typed, CapabilityConstraints
    <2>2. DOMAIN q = {"uri_prefixes", "resource_kinds"}
      BY Zenon, <2>1 DEF ReadResourceConstraints
    <2>3. q.uri_prefixes # Unbounded
      BY Zenon, <2>2 DEF Explicit
    <2>4. op.scope \in OrEmpty(q.uri_prefixes)
      BY Zenon, <1>1, <1>3, <2>3 DEF Allows, AllowsIn, OrEmpty
    <2>5. PICK e \in Derived(grants, r) : read_resource_grant_allows_scope(e, op.scope)
      BY Zenon, <1>3, <2>4 DEF collectively_cover
    <2> QED
      BY Zenon, <1>2, <1>3, <2>5 DEF Allows, read_resource_grant_allows_scope
  <1>4. CASE r.family = "log-write"
    <2>1. q \in LogConstraints
      BY Zenon, <1>1, <1>4 DEF Declared, Sound, Typed, CapabilityConstraints
    <2>2. DOMAIN q = {"levels"}
      BY Zenon, <2>1 DEF LogConstraints
    <2>3. q.levels # Unbounded
      BY Zenon, <2>2 DEF Explicit
    <2>4. op.level \in OrEmpty(q.levels)
      BY Zenon, <1>1, <1>4, <2>3 DEF Allows, AllowsIn, OrEmpty
    <2>5. PICK e \in Derived(grants, r) : AllowsIn(e.constraints.levels, op.level)
      BY Zenon, <1>4, <2>4 DEF collectively_cover
    <2> QED
      BY Zenon, <1>2, <1>4, <2>5 DEF Allows
  <1>5. CASE r.family = "invoke-skill"
    <2>1. q \in InvokeDependencyConstraints
      BY Zenon, <1>1, <1>5 DEF Declared, Sound, Typed, CapabilityConstraints
    <2>2. DOMAIN q = {"aliases"}
      BY Zenon, <2>1 DEF InvokeDependencyConstraints
    <2>3. q.aliases # Unbounded
      BY Zenon, <2>2 DEF Explicit
    <2>4. op.alias \in q.aliases
      BY Zenon, <1>1, <1>5, <2>3 DEF Allows, AllowsIn
    <2>5. PICK e \in Derived(grants, r) : AllowsIn(e.constraints.aliases, op.alias)
      BY Zenon, <1>5, <2>4 DEF collectively_cover, AllowsIn
    <2> QED
      BY Zenon, <1>2, <1>5, <2>5 DEF Allows
  <1> QED
    BY Zenon, <1>1, <1>3, <1>4, <1>5 DEF Intersected

\* A requirement that is spelt out and covered is usable.
LEMMA CoverageAuthorizes ==
    ASSUME NEW grants, \A g \in grants : Sound(g), NEW r, Declared(r), r.constraints # Unconstrained,
           Explicit(r.constraints), grants_cover_requirement(grants, r)
    PROVE  Authorized({Grant(r.family, r.constraints)}) \subseteq Authorized(grants)
  <1> DEFINE e == Grant(r.family, r.constraints)
  <1>1. e.family = r.family /\ e.constraints = r.constraints /\ r.family \in CapabilityFamily
    BY Zenon DEF Grant, Declared, Sound, Typed
  <1>2. CASE Collective(r)
    <2> SUFFICES ASSUME NEW op \in Operation, authorize({e}, op) PROVE authorize(grants, op)
      BY Zenon DEF Authorized
    <2>1. r.family # "http-request"
      BY Zenon, <1>2 DEF Collective
    <2>2. op.family = r.family
      <3>1. CASE op.family = "http-request"
        BY <1>1, <2>1, <3>1, AuthorizeHttp
      <3>2. CASE op.family # "http-request"
        BY <1>1, <3>2, AuthorizeOther
      <3> QED
        BY Zenon, <3>1, <3>2
    <2>3. Allows(r.family, r.constraints, op)
      BY <1>1, <2>1, <2>2, AuthorizeOther
    <2>4. collectively_cover(Derived(grants, r), r)
      BY Zenon, <1>2 DEF grants_cover_requirement
    <2>5. \E g \in grants : g.family = r.family /\ Allows(r.family, g.constraints, op)
      BY Zenon, <1>2, <2>2, <2>3, <2>4, CollectivelyCovers
    <2> QED
      BY Zenon, <2>1, <2>2, <2>5, AuthorizeOther
  <1>3. CASE ~Collective(r)
    <2>1. PICK g \in grants : grant_covers_requirement(g, r)
      BY Zenon, <1>3 DEF grants_cover_requirement
    <2>2. r.family \in {"http-request", "emit-evidence"}
      BY Zenon, <1>1, <1>3 DEF Collective, CapabilityFamily
    <2>3. Below(e, g)
      BY Zenon, <2>1, <2>2, GrantCovers
    <2>4. Covered({e}, grants)
      BY Zenon, <2>3 DEF Covered
    <2> QED
      BY Zenon, <2>4, CoveredAuthorizes
  <1> QED
    BY Zenon, <1>2, <1>3

\* An evaluation that is not rejected covers what the skill requires, and nothing is decided
\* before the last rule.
CoversRequired ==
    phase = "decided" /\ outcome # "rejected" =>
        \A r \in Required(skill) : grants_cover_requirement(granted, r)

\* missing_required_capabilities, after the last rule: a skill starts only when every
\* operation within a required capability that is spelt out is authorized, for any number
\* of grants that have to add up to it.
THEOREM RequirementsAreUsable == Spec => []RequiredIsUsable
  <1>1. Init => CoversRequired
    BY Zenon DEF Init, CoversRequired
  <1>2. CoversRequired /\ [Next]_vars => CoversRequired'
    <2> SUFFICES ASSUME CoversRequired, [Next]_vars PROVE CoversRequired'
      OBVIOUS
    <2>1. ASSUME NEW s, NEW grants, NEW from, evaluate_policy(s, grants, from) PROVE CoversRequired'
      BY Zenon, <2>1 DEF evaluate_policy, rejected_policy_evaluation, CoversRequired
    <2>2. CASE Request
      BY Zenon, <2>1, <2>2 DEF Request
    <2>3. ASSUME NEW rule \in Cases[case].rules, ApplyRule(rule) PROVE CoversRequired'
      BY Zenon, <2>3 DEF ApplyRule, CoversRequired
    <2>4. CASE Decide
      <3>1. CASE missing_required_capabilities # {}
        BY Zenon, <2>4, <3>1 DEF Decide, rejected_policy_evaluation, CoversRequired
      <3>2. CASE missing_required_capabilities = {}
        <4>1. UNCHANGED <<granted, skill>>
          BY Zenon, <2>4, <3>2 DEF Decide, completed_policy_evaluation
        <4>2. \A r \in Required(skill) : grants_cover_requirement(granted, r)
          BY Zenon, <3>2 DEF missing_required_capabilities
        <4> QED
          BY Zenon, <4>1, <4>2 DEF CoversRequired
      <3> QED
        BY Zenon, <3>1, <3>2
    <2>5. CASE InvokeChild
      <3>1. CASE phase' = "denied"
        BY Zenon, <3>1 DEF CoversRequired
      <3> QED
        BY Zenon, <2>1, <2>5, <3>1 DEF InvokeChild
    <2>6. CASE UNCHANGED vars
      BY Zenon, <2>6 DEF vars, CoversRequired
    <2> QED
      BY <2>2, <2>3, <2>4, <2>5, <2>6 DEF Next
  <1>3. PolicyInv /\ CoversRequired => RequiredIsUsable
    <2> SUFFICES ASSUME PolicyInv, CoversRequired, phase = "decided", outcome # "rejected",
                        NEW r \in Required(skill), r.constraints # Unconstrained,
                        Explicit(r.constraints)
                 PROVE  Authorized({Grant(r.family, r.constraints)}) \subseteq Authorized(granted)
      BY Zenon DEF RequiredIsUsable
    <2>1. r \in declared_capability_surface(skill) /\ skill # None
      BY Zenon DEF PolicyInv, Required, declared_capability_surface
    <2>2. Declared(r) /\ \A g \in granted : Sound(g)
      BY Zenon, <2>1 DEF PolicyInv
    <2>3. grants_cover_requirement(granted, r)
      BY Zenon DEF CoversRequired
    <2> QED
      BY Zenon, <2>2, <2>3, CoverageAuthorizes
  <1> QED
    BY <1>1, <1>2, <1>3, PolicyAlways, PTL DEF Spec

-----------------------------------------------------------------------------
(* Types, and scopes without a member *)

\* No scope of the constraints is without a member, as validate demands.
Full(c) == c = Unconstrained \/ \A field \in DOMAIN c \cap ScopeField : c[field] # {}

\* What the reductions of a scope leave has a member if both sides have: a scope that
\* filters everything away is a mismatch.
LEMMA ScopesStayFull ==
    ASSUME NEW p \in Scope, NEW r \in Scope, p # {}, r # {}
    PROVE  /\ reduce_required_enum_scope(p, r) # {}
           /\ reduce_required_intersecting_enum_scope(p, r) # {}
           /\ reduce_required_path_prefix_scope(p, r) # {}
  <1>1. {} # Mismatch
    BY Zenon, MarksAssumption
  <1> QED
    BY Zenon, <1>1 DEF reduce_required_enum_scope, reduce_required_intersecting_enum_scope,
       reduce_required_path_prefix_scope, Nonempty

\* Full, field by field.
LEMMA FullFields ==
    ASSUME NEW c
    PROVE  /\ c \in HttpRequestConstraints =>
                (Full(c) <=> {} \notin {c.methods, c.hosts, c.suffixes, c.paths})
           /\ c \in ReadResourceConstraints => (Full(c) <=> {} \notin {c.uri_prefixes, c.resource_kinds})
           /\ c \in InvokeDependencyConstraints => (Full(c) <=> c.aliases # {})
           /\ c \in LogConstraints => (Full(c) <=> c.levels # {})
           /\ c \in EmitEvidenceConstraints => (Full(c) <=> c.audiences # {})
  <1>1. ASSUME c \in HttpRequestConstraints
        PROVE  DOMAIN c \cap ScopeField = {"methods", "hosts", "suffixes", "paths"} /\ c # Unconstrained
    BY Zenon, <1>1, MarksAssumption DEF HttpRequestConstraints, ScopeField
  <1>2. ASSUME c \in ReadResourceConstraints
        PROVE  DOMAIN c \cap ScopeField = {"uri_prefixes", "resource_kinds"} /\ c # Unconstrained
    BY Zenon, <1>2, MarksAssumption DEF ReadResourceConstraints, ScopeField
  <1>3. ASSUME c \in InvokeDependencyConstraints
        PROVE  DOMAIN c \cap ScopeField = {"aliases"} /\ c # Unconstrained
    BY Zenon, <1>3, MarksAssumption DEF InvokeDependencyConstraints, ScopeField
  <1>4. ASSUME c \in LogConstraints PROVE DOMAIN c \cap ScopeField = {"levels"} /\ c # Unconstrained
    BY Zenon, <1>4, MarksAssumption DEF LogConstraints, ScopeField
  <1>5. ASSUME c \in EmitEvidenceConstraints
        PROVE  DOMAIN c \cap ScopeField = {"audiences"} /\ c # Unconstrained
    BY Zenon, <1>5, MarksAssumption DEF EmitEvidenceConstraints, ScopeField
  <1> QED
    BY Zenon, <1>1, <1>2, <1>3, <1>4, <1>5 DEF Full

\* Reduced http-request constraints have no scope without a member.
LEMMA HttpStaysFull ==
    ASSUME NEW p \in HttpRequestConstraints, NEW r \in HttpRequestConstraints, Full(p), Full(r),
           NEW c \in HttpRequestConstraints, NEW follow, NEW loopback,
           ReducedFields(c, p, r, follow, loopback)
    PROVE  Full(c)
  <1>1. /\ {} \notin {p.methods, p.hosts, p.suffixes, p.paths}
        /\ {} \notin {r.methods, r.hosts, r.suffixes, r.paths}
    BY Zenon, FullFields
  <1>2. /\ p.methods \in Scope /\ p.hosts \in Scope /\ p.suffixes \in Scope /\ p.paths \in Scope
        /\ r.methods \in Scope /\ r.hosts \in Scope /\ r.suffixes \in Scope /\ r.paths \in Scope
    BY Zenon DEF HttpRequestConstraints
  <1>3. c.methods # {} /\ c.suffixes # {} /\ c.paths # {}
    BY Zenon, <1>1, <1>2, ScopesStayFull DEF ReducedFields, reduce_required_http_host_suffixes
  <1>4. c.hosts # {}
    <2>1. {} # Mismatch
      BY Zenon, MarksAssumption
    <2>2. reduce_required_http_hosts(p, r) # {}
      BY Zenon, <1>1, <2>1 DEF reduce_required_http_hosts, Nonempty
    <2> QED
      BY Zenon, <2>2 DEF ReducedFields
  <1> QED
    BY Zenon, <1>3, <1>4, FullFields

\* And so have those of the other families.
LEMMA CommonStaysFull ==
    ASSUME NEW family \in CapabilityFamily, family # "http-request",
           NEW p \in CapabilityConstraints(family), NEW r \in CapabilityConstraints(family),
           Full(p), Full(r),
           NEW c, c = ReduceCommon(family, p, r), c # Mismatch
    PROVE  Full(c)
  <1>0. c \in CapabilityConstraints(family)
    BY Zenon, CommonReduces DEF Reduces
  <1>1. CASE family = "read-resource"
    <2>1. p \in ReadResourceConstraints /\ r \in ReadResourceConstraints /\ c \in ReadResourceConstraints
      BY Zenon, <1>0, <1>1 DEF CapabilityConstraints
    <2>2. /\ {} \notin {p.uri_prefixes, p.resource_kinds, r.uri_prefixes, r.resource_kinds}
          /\ p.uri_prefixes \in Scope /\ p.resource_kinds \in Scope
          /\ r.uri_prefixes \in Scope /\ r.resource_kinds \in Scope
      BY Zenon, <2>1, FullFields DEF ReadResourceConstraints
    <2>3. /\ c.uri_prefixes = reduce_required_intersecting_enum_scope(p.uri_prefixes, r.uri_prefixes)
          /\ c.resource_kinds =
                reduce_required_intersecting_enum_scope(p.resource_kinds, r.resource_kinds)
      BY Zenon, <1>1 DEF ReduceCommon, OrMismatch
    <2> QED
      BY Zenon, <2>1, <2>2, <2>3, ScopesStayFull, FullFields
  <1>2. CASE family = "invoke-skill"
    <2>1. /\ p \in InvokeDependencyConstraints /\ r \in InvokeDependencyConstraints
          /\ c \in InvokeDependencyConstraints
      BY Zenon, <1>0, <1>2 DEF CapabilityConstraints
    <2>2. p.aliases # {} /\ r.aliases # {} /\ p.aliases \in Scope /\ r.aliases \in Scope
      BY Zenon, <2>1, FullFields DEF InvokeDependencyConstraints
    <2>3. c.aliases = reduce_required_intersecting_enum_scope(p.aliases, r.aliases)
      BY Zenon, <1>2 DEF ReduceCommon, OrMismatch
    <2> QED
      BY Zenon, <2>1, <2>2, <2>3, ScopesStayFull, FullFields
  <1>3. CASE family = "log-write"
    <2>1. p \in LogConstraints /\ r \in LogConstraints /\ c \in LogConstraints
      BY Zenon, <1>0, <1>3 DEF CapabilityConstraints
    <2>2. p.levels # {} /\ r.levels # {} /\ p.levels \in Scope /\ r.levels \in Scope
      BY Zenon, <2>1, FullFields DEF LogConstraints
    <2>3. c.levels = reduce_required_intersecting_enum_scope(p.levels, r.levels)
      BY Zenon, <1>3 DEF ReduceCommon, OrMismatch
    <2> QED
      BY Zenon, <2>1, <2>2, <2>3, ScopesStayFull, FullFields
  <1>4. CASE family = "emit-evidence"
    <2>1. /\ p \in EmitEvidenceConstraints /\ r \in EmitEvidenceConstraints
          /\ c \in EmitEvidenceConstraints
      BY Zenon, <1>0, <1>4 DEF CapabilityConstraints
    <2>2. p.audiences # {} /\ r.audiences # {} /\ p.audiences \in Scope /\ r.audiences \in Scope
      BY Zenon, <2>1, FullFields DEF EmitEvidenceConstraints
    <2>3. c.audiences = reduce_required_enum_scope(p.audiences, r.audiences)
      BY Zenon, <1>4 DEF ReduceCommon, OrMismatch
    <2> QED
      BY Zenon, <2>1, <2>2, <2>3, ScopesStayFull, FullFields
  <1> QED
    BY Zenon, <1>1, <1>2, <1>3, <1>4 DEF CapabilityFamily

\* What a requirement or a cap leaves of a grant has no scope without a member.
LEMMA ReductionsStayFull ==
    ASSUME NEW g, Sound(g), Full(g.constraints), NEW h, Typed(h), Full(h.constraints),
           NEW e, \/ e \in reduce_grant_to_requirement(g, h) /\ Declared(h)
                  \/ e \in reduce_grant_to_cap(h, g)
    PROVE  Full(e.constraints)
  <1> DEFINE p == g.constraints
             q == h.constraints
             c == e.constraints
  <1>1. /\ g.family = h.family /\ c # Mismatch
        /\ \/ c = reduce_child_constraints(g.family, p, q)
           \/ c = reduce_cap_constraints(g.family, q, p)
    BY DEF reduce_grant_to_requirement, reduce_grant_to_cap, Grant
  <1>2. Sound(e) /\ e.family = g.family
    BY Zenon, ToRequirement, ToCap DEF Leaves
  <1>3. CASE p = Unconstrained \/ q = Unconstrained
    BY Zenon, <1>1, <1>3 DEF reduce_child_constraints, reduce_cap_constraints
  <1>4. CASE p # Unconstrained /\ q # Unconstrained /\ g.family = "http-request"
    <2>1. p \in HttpRequestConstraints /\ q \in HttpRequestConstraints
      BY Zenon, <1>1, <1>4 DEF Sound, Typed, CapabilityConstraints
    <2>2. \/ c = reduce_child_http_request_constraints(p, q)
          \/ c = reduce_cap_http_request_constraints(q, p)
      BY Zenon, <1>1, <1>4 DEF reduce_child_constraints, reduce_cap_constraints
    <2>3. \E follow, loopback : \/ ReducedFields(c, p, q, follow, loopback)
                                \/ ReducedFields(c, q, p, follow, loopback)
      BY Zenon, <1>1, <2>2, HttpFields
      DEF reduce_child_http_request_constraints, reduce_cap_http_request_constraints
    <2>4. CASE c = Unconstrained
      BY Zenon, <2>4 DEF Full
    <2>5. CASE c # Unconstrained
      <3>1. c \in HttpRequestConstraints
        BY Zenon, <1>2, <1>4, <2>5 DEF Sound, Typed, CapabilityConstraints
      <3> QED
        BY Zenon, <2>1, <2>3, <3>1, HttpStaysFull
    <2> QED
      BY Zenon, <2>4, <2>5
  <1>5. CASE p # Unconstrained /\ q # Unconstrained /\ g.family # "http-request"
    <2>1. /\ p \in CapabilityConstraints(g.family) /\ q \in CapabilityConstraints(g.family)
          /\ g.family \in CapabilityFamily
      BY Zenon, <1>1, <1>5 DEF Sound, Typed
    <2>2. c = ReduceCommon(g.family, p, q) \/ c = ReduceCommon(g.family, q, p)
      BY Zenon, <1>1, <1>5 DEF reduce_child_constraints, reduce_cap_constraints
    <2> QED
      BY Zenon, <1>1, <1>5, <2>1, <2>2, CommonStaysFull
  <1> QED
    BY Zenon, <1>3, <1>4, <1>5

\* The inductive part: what is granted and what is declared has no scope without a member.
FullInv ==
    /\ TypeOK
    /\ \A g \in granted : Full(g.constraints)
    /\ skill # None => \A r \in declared_capability_surface(skill) : Full(r.constraints)

\* evaluate_policy rejects a request with such a scope and clamps the others.
LEMMA EvaluateFull ==
    ASSUME NEW s \in SkillManifest,
           \A r \in declared_capability_surface(s) : Declared(r) /\ Full(r.constraints),
           NEW grants, \A g \in grants : Typed(g),
           NEW from, evaluate_policy(s, grants, from)
    PROVE  \A e \in granted' : Full(e.constraints)
  <1>1. CASE granted' = {}
    BY Zenon, <1>1
  <1>2. CASE /\ invalid_capability_grants(grants) = {}
             /\ granted' = AllOf(clamp_requested_capabilities_to_manifest(
                                    grants, declared_capability_surface(s)))
    <2>1. ASSUME NEW g \in grants PROVE Sound(g) /\ Full(g.constraints)
      BY Zenon, <1>2 DEF invalid_capability_grants, validate, ValidHttp, ConstrainedHttp, Bounded, Sound, Full
    <2>2. ASSUME NEW e \in granted' PROVE Full(e.constraints)
      <3>1. PICK g \in grants, r \in declared_capability_surface(s) :
                e \in reduce_grant_to_requirement(g, r)
        BY <1>2, <2>2 DEF AllOf, clamp_requested_capabilities_to_manifest
      <3>2. Typed(r) /\ Declared(r) /\ Full(r.constraints)
        BY Zenon DEF Declared, Sound
      <3> QED
        BY Zenon, <2>1, <3>1, <3>2, ReductionsStayFull
    <2> QED
      BY Zenon, <2>2
  <1> QED
    BY Zenon, <1>1, <1>2 DEF evaluate_policy, rejected_policy_evaluation

\* The types of the rest of the state.
LEMMA EvaluateTypes ==
    ASSUME TypeOK, NEW s, NEW grants, NEW from, evaluate_policy(s, grants, from), case' = case,
           \A e \in granted' : Full(e.constraints)
    PROVE  TypeOK' /\ skill' = s
  <1>1. ASSUME NEW left PROVE Changed(left) \in BOOLEAN
    BY Zenon DEF Changed
  <1> DEFINE left == clamp_requested_capabilities_to_manifest(grants, declared_capability_surface(s))
  <1>2. reasons' = TRUE \/ reasons' = Changed(left)
    BY Zenon DEF evaluate_policy, rejected_policy_evaluation
  <1>3. reasons' \in BOOLEAN
    BY Zenon, <1>1, <1>2
  <1>4. /\ phase' \in {"rules", "decided"} /\ outcome' \in {None, "rejected"}
        /\ applied' = {} /\ skill' = s
    BY Zenon DEF evaluate_policy, rejected_policy_evaluation
  <1>5. case' \in DOMAIN Cases /\ applied' \subseteq Cases[case'].rules
    BY Zenon, <1>4 DEF TypeOK
  <1> QED
    BY Zenon, <1>3, <1>4, <1>5 DEF TypeOK, Full

\* The steps of an evaluation, and of the evaluations of children.
LEMMA FullNext ==
    ASSUME PolicyInv, FullInv, [Next]_vars
    PROVE  FullInv'
  <1>0. case \in DOMAIN Cases
    BY DEF PolicyInv
  <1>1. CASE Request
    <2>1. PICK s \in Cases[case].skills, grants \in Cases[case].requests :
                evaluate_policy(s, grants, None) /\ case' = case
      BY Zenon, <1>1 DEF Request, evaluate_policy, rejected_policy_evaluation
    <2>2. s \in SkillManifest /\ \A r \in declared_capability_surface(s) : Declared(r)
      BY <1>0, ManifestsDeclare
    <2>3. \A r \in declared_capability_surface(s) : Full(r.constraints)
      BY Zenon, <1>0, CasesAssumption DEF validate, Full
    <2>4. \A g \in grants : Typed(g)
      BY Zenon, <1>0, CasesAssumption
    <2>5. \A e \in granted' : Full(e.constraints)
      BY Zenon, <2>1, <2>2, <2>3, <2>4, EvaluateFull
    <2> QED
      BY Zenon, <2>1, <2>3, <2>5, EvaluateTypes DEF FullInv
  <1>2. ASSUME NEW rule \in Cases[case].rules, ApplyRule(rule) PROVE FullInv'
    <2>1. ASSUME NEW e \in granted' PROVE Full(e.constraints)
      <3>1. PICK g \in granted : e \in apply_policy_rule(rule, g) /\ Sound(g) /\ Full(g.constraints)
        BY Zenon, <1>2, RuleLeaves DEF FullInv, PolicyInv
      <3>2. e = g \/ \E h \in rule.grants : e \in reduce_grant_to_cap(h, g)
        BY Zenon, <3>1 DEF apply_policy_rule, apply_policy_deny_rule, apply_policy_cap_rule
      <3>3. \A h \in rule.grants : Typed(h) /\ Full(h.constraints)
        BY Zenon, <1>0, CasesAssumption DEF validate, Full
      <3> QED
        BY Zenon, <3>1, <3>2, <3>3, ReductionsStayFull
    <2>2. TypeOK'
      BY Zenon, <1>2, <2>1 DEF FullInv, TypeOK, ApplyRule, Full
    <2> QED
      BY Zenon, <1>2, <2>1, <2>2 DEF FullInv, ApplyRule
  <1>3. CASE Decide
    BY Zenon, <1>3 DEF FullInv, TypeOK, Decide, rejected_policy_evaluation, completed_policy_evaluation
  <1>4. ASSUME NEW chosen \in CoveringChoices, skill.dependency # None, phase = "decided",
               evaluate_policy([capabilities |-> skill.dependency, dependency |-> None],
                               UNION {DerivedFor(r, chosen) : r \in skill.dependency}, granted)
        PROVE  FullInv'
    <2>1. skill.dependency # None /\ phase = "decided" /\ case' = case
      BY Zenon, <1>4 DEF evaluate_policy
    <2> DEFINE grants == UNION {DerivedFor(r, chosen) : r \in skill.dependency}
               s == [capabilities |-> skill.dependency, dependency |-> None]
    <2>2. skill \in SkillManifest /\ skill # None
      BY Zenon, <2>1, MarksAssumption DEF PolicyInv
    <2>3. s \in SkillManifest /\ declared_capability_surface(s) = skill.dependency
      BY Zenon, <2>1, <2>2 DEF SkillManifest, declared_capability_surface
    <2>4. \A r \in skill.dependency : Declared(r) /\ Full(r.constraints)
      BY Zenon, <2>1, <2>2 DEF PolicyInv, FullInv, declared_capability_surface
    <2>5. ASSUME NEW e \in grants PROVE Typed(e)
      <3>1. PICK r \in skill.dependency : e \in DerivedFor(r, chosen)
        BY <2>5
      <3>2. PICK g \in granted : e \in reduce_grant_to_requirement(g, r)
        <4>1. CASE Collective(r)
          BY <3>1, <4>1 DEF DerivedFor, Derived
        <4>2. CASE ~Collective(r)
          BY <3>1, <4>2 DEF DerivedFor, CoveringChoices
        <4> QED
          BY <4>1, <4>2
      <3>3. Sound(g)
        BY Zenon DEF PolicyInv
      <3>4. Sound(e)
        BY Zenon, <2>4, <3>2, <3>3, ToRequirement DEF Leaves
      <3> QED
        BY Zenon, <3>4 DEF Sound
    <2>6. evaluate_policy(s, grants, granted)
      BY <1>4
    <2> HIDE DEF grants, s
    <2>7. \A e \in granted' : Full(e.constraints)
      BY Zenon, <2>3, <2>4, <2>5, <2>6, EvaluateFull
    <2>8. TypeOK' /\ skill' = s
      BY Zenon, <2>1, <2>6, <2>7, EvaluateTypes DEF FullInv
    <2> QED
      BY Zenon, <2>3, <2>4, <2>7, <2>8 DEF FullInv
  <1>5. CASE UNCHANGED vars
    BY Zenon, <1>5 DEF vars, FullInv, TypeOK
  <1>6. CASE InvokeChild
    <2>1. CASE phase' = "denied" /\ UNCHANGED <<case, skill, granted, reasons, outcome, applied>>
      BY Zenon, <2>1 DEF FullInv, TypeOK
    <2> QED
      BY Zenon, <1>4, <1>6, <2>1 DEF InvokeChild
  <1> QED
    BY Zenon, <1>1, <1>2, <1>3, <1>5, <1>6 DEF Next

\* Types; and evaluate_policy leaves no grant with a scope without a member: where nothing
\* is left of a scope the grant goes, in the first evaluation and in those of children.
THEOREM PolicyTypeCorrect == Spec => []TypeOK
  <1>1. Init => FullInv
    BY Zenon DEF Init, FullInv, TypeOK
  <1>2. PolicyInv /\ FullInv /\ [Next]_vars => FullInv'
    BY FullNext
  <1>3. FullInv => TypeOK
    BY Zenon DEF FullInv
  <1> QED
    BY <1>1, <1>2, <1>3, PolicyAlways, PTL DEF Spec
=============================================================================
