---------------------------- MODULE AuditContext ----------------------------
(***************************************************************************)
(* What an event says besides its action: the client's address, chosen     *)
(* from the connection and X-Forwarded-For (apps/audit/context.py), and    *)
(* the metadata that is kept (apps/audit/services.py).  One request is     *)
(* followed: its context is built from what arrives, and an event is       *)
(* recorded with the context and the caller's metadata.                    *)
(***************************************************************************)
EXTENDS Naturals, Sequences, SequencesExt

CONSTANTS
    Address,    \* what ip_address() parses
    Trusted,    \* those in settings.TRUSTED_PROXY_CIDRS
    Junk,       \* a string it does not parse
    Absent,     \* no REMOTE_ADDR
    MaxHops,    \* bound on the trusted proxies in a row
    MaxSent,    \* bound on the entries of the header a client sends
    Key,        \* metadata keys
    Sensitive,  \* those _is_sensitive_metadata_key finds
    MaxDepth,   \* bound on the nesting of metadata
    MaxItems    \* bound on the length of its lists

ASSUME AddressAssumption ==
    /\ Trusted \subseteq Address
    /\ Junk \notin Address
    /\ Absent \notin Address
    /\ Absent # Junk
\* A key is a string, never a place in a list.
ASSUME KeyAssumption ==
    /\ Sensitive \subseteq Key
    /\ \A k \in Key : k \notin Nat
ASSUME ContextAssumption ==
    /\ MaxHops \in Nat /\ MaxSent \in Nat /\ MaxItems \in Nat
    /\ MaxDepth \in Nat \ {0}

VARIABLE event      \* what the request's context and its event say so far

-----------------------------------------------------------------------------
(* The client's address.                                                   *)

\* The entries of the header that name a host which is no trusted proxy.
Candidates(forwarded) ==
    {i \in DOMAIN forwarded : forwarded[i] \in Address \ Trusted}

\* Fault: the header is read from its first entry on.
ClientIpFromTheLeft(remote, forwarded) ==
    IF remote = Absent THEN Absent
    ELSE IF remote \notin Trusted THEN remote
    ELSE LET found == Candidates(forwarded)
         IN  IF found = {} THEN remote ELSE forwarded[Min(found)]

\* Fault: the header counts whoever the direct peer is.
ClientIpOfAnyPeer(remote, forwarded) ==
    IF remote = Absent THEN Absent
    ELSE LET found == Candidates(forwarded)
         IN  IF found = {} THEN remote ELSE forwarded[Max(found)]

\* _client_ip.  A remote address that does not parse is taken as it is.
ClientIp(remote, forwarded) ==
    IF remote = Absent THEN Absent
    ELSE IF remote \notin Trusted THEN remote
    ELSE LET found == Candidates(forwarded)
         IN  IF found = {} THEN remote ELSE forwarded[Max(found)]

\* The header and the connection of a request that q sends with the header
\* "sent" and that trusted proxies pass on: each adds the peer it was sent by.
Delivered(q, sent, proxies) ==
    LET path == <<q>> \o proxies
    IN  [remote |-> Last(path), forwarded |-> sent \o Front(path)]

-----------------------------------------------------------------------------
(* Metadata: plain values, mappings and lists, nested.                     *)

Text == [kind |-> "text"]
Mapping(f) == [kind |-> "mapping", at |-> f]
ListOf(s) == [kind |-> "list", at |-> s]

MappingsOver(V) ==
    {Mapping(f) : f \in UNION {[K -> V] : K \in SUBSET Key}}
ListsOver(V) ==
    {ListOf(s) : s \in SeqOf(V, MaxItems)}

\* What is nested one level deeper than V.
Above(V) == {Text} \cup MappingsOver(V) \cup ListsOver(V)

\* Metadata of at most n levels.
Metadata[n \in 0 .. MaxDepth] == IF n = 0 THEN {Text} ELSE Above(Metadata[n - 1])
Value == Metadata[MaxDepth]

\* Fault: lists are copied as they are.
MappingsOf[v \in Value] ==
    IF v.kind = "mapping"
    THEN Mapping([k \in DOMAIN v.at \ Sensitive |-> MappingsOf[v.at[k]]])
    ELSE v
SanitizeMappings(v) == MappingsOf[v]

\* _sanitize_value, which calls sanitize_metadata, which calls it again.
Sanitized[v \in Value] ==
    CASE v.kind = "mapping" -> Mapping([k \in DOMAIN v.at \ Sensitive |-> Sanitized[v.at[k]]])
      [] v.kind = "list"    -> ListOf([i \in DOMAIN v.at |-> Sanitized[v.at[i]]])
      [] OTHER              -> v

\* sanitize_metadata.
Sanitize(v) == Sanitized[v]

\* The keys of a mapping, the places of a list.
Steps(v) == IF v = Text THEN {} ELSE DOMAIN v.at

\* Every value inside v, by the steps that lead to it.
Under(k, n) == [path |-> <<k>> \o n.path, kind |-> n.kind]
Nodes[v \in Value] ==
    {[path |-> <<>>, kind |-> v.kind]} \cup
    UNION {{Under(k, n) : n \in Nodes[v.at[k]]} : k \in Steps(v)}

-----------------------------------------------------------------------------
(* The request.                                                            *)

NoEvent == [stage |-> "none", client |-> Absent, ip |-> Absent,
            given |-> Text, metadata |-> Text]

ContextInit == event = NoEvent

\* from_request, for a request of q, or of a peer without an address.
FromRequest(q, sent, proxies) ==
    LET request == Delivered(q, sent, proxies) IN
    /\ event.stage = "none"
    /\ event' = [event EXCEPT !.stage = "context", !.client = q,
                              !.ip = ClientIp(request.remote, request.forwarded)]

\* record, given the metadata v.
RecordWith(v) ==
    /\ event.stage = "context"
    /\ event' = [event EXCEPT !.stage = "recorded",
                              !.given = v, !.metadata = Sanitize(v)]

ContextNext ==
    \/ \E q \in Address \ Trusted, sent \in SeqOf(Address \cup {Junk}, MaxSent),
          proxies \in SeqOf(Trusted, MaxHops) : FromRequest(q, sent, proxies)
    \/ \E sent \in SeqOf(Address \cup {Junk}, MaxSent) : FromRequest(Absent, sent, <<>>)
    \/ \E v \in MappingsOver(Metadata[MaxDepth - 1]) : RecordWith(v)

ContextSpec == ContextInit /\ [][ContextNext]_event

-----------------------------------------------------------------------------
(* Properties                                                              *)

\* The recorded address is that of the last host that is no trusted proxy,
\* whatever header it sends itself.
AddressIsTheClients == event.stage # "none" => event.ip = event.client

\* What is kept of the metadata is what no sensitive key leads to, at any
\* depth of mappings and lists, and all of it.
SecretsStayOut ==
    event.stage = "recorded" =>
        Nodes[event.metadata]
            = {n \in Nodes[event.given] : ToSet(n.path) \cap Sensitive = {}}
=============================================================================
