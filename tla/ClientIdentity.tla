--------------------------- MODULE ClientIdentity ---------------------------
(***************************************************************************)
(* Who a request comes from, and the watch for clients that arrive as one  *)
(* of our own addresses.                                                   *)
(*                                                                         *)
(* A request takes a path of addresses to the API.  Each proxy on it       *)
(* appends the peer it sees to X-Forwarded-For, which the client may have  *)
(* begun with any text.  An address is written plainly or in the           *)
(* IPv4-mapped form; Garbage is a hop that is no address.                  *)
(***************************************************************************)
EXTENDS Naturals, Sequences, FiniteSets

CONSTANTS
  Clients, Proxies, Gateways,  \* outside; trusted; our own, not trusted
  MaxForged,     \* hops a client invents (bound)
  MaxSightings   \* sightings of one process (bound)

Address == Clients \cup Proxies \cup Gateways
Trusted == Proxies
InternalNetworks == Proxies \cup Gateways

CONSTANTS Unknown, Garbage
ASSUME AddressAssumption ==
  /\ Clients \cap InternalNetworks = {} /\ Proxies \cap Gateways = {}
  /\ Unknown \notin Address /\ Garbage \notin Address
  /\ MaxForged \in Nat /\ MaxSightings \in Nat

Written == [ip : Address, mapped : BOOLEAN]
Hop == Written \cup {[ip |-> Garbage, mapped |-> FALSE]}

VARIABLES
  request,   \* a request, one at a time: its path, the header, who it came from
  pending,   \* sightings not yet written to Redis
  recent,    \* a write was started within FLUSH_INTERVAL_SECONDS
  flushing,  \* the write under way
  recorded,  \* the count in Redis
  sighted    \* history: sightings

watchVars == <<pending, recent, flushing, recorded, sighted>>
clientVars == <<request, pending, recent, flushing, recorded, sighted>>

NoFlush == [count |-> 0, applied |-> FALSE]
NoRequest == [path |-> <<>>, forwardedFor |-> <<>>, client |-> Unknown]

ClientInit ==
  /\ request = NoRequest
  /\ pending = 0 /\ recent = FALSE /\ flushing = NoFlush /\ recorded = 0 /\ sighted = 0

-----------------------------------------------------------------------------

\* _parse_ip: the mapped form is the address it stands for.
ParseAsWritten(hop) == IF hop.mapped THEN Unknown ELSE hop.ip
Parse(hop) == hop.ip

\* The hops of the walk, nearest first, as far as it goes: it ends at the first
\* hop that is not trusted, and before one that is malformed.
Walk(forwardedFor) ==
  LET Hops == [i \in DOMAIN forwardedFor |->
                 Parse(forwardedFor[Len(forwardedFor) + 1 - i])]
      reached == {i \in DOMAIN Hops :
                    /\ \A j \in 1..i : Hops[j] # Garbage
                    /\ \A j \in 1..(i - 1) : Hops[j] \in Trusted}
  IN [i \in reached |-> Hops[i]]

\* resolve_client_ip.
LeftmostHop(peer, forwardedFor) ==
  IF forwardedFor = <<>> \/ Parse(peer) \notin Trusted THEN Parse(peer)
  ELSE Parse(forwardedFor[1])
ResolveClientIp(peer, forwardedFor) ==
  LET hops == Walk(forwardedFor) IN
  IF Parse(peer) = Garbage THEN Unknown
  ELSE IF Parse(peer) \notin Trusted \/ DOMAIN hops = {} THEN Parse(peer)
  ELSE hops[Cardinality(DOMAIN hops)]

\* internal_client: what a trusted proxy vouched for is one of our addresses.
InternalClient(peer, forwardedFor) ==
  /\ forwardedFor # <<>> /\ Parse(peer) \in Trusted
  /\ ResolveClientIp(peer, forwardedFor) \in InternalNetworks

-----------------------------------------------------------------------------
(* CollapseWatch of one process, within 24 h of its last write.             *)

\* observe, up to the write.  The pending count is taken when it starts.
Start(count) ==
  IF recent THEN pending' = count /\ UNCHANGED <<recent, flushing>>
  ELSE /\ pending' = 0 /\ recent' = TRUE
       /\ flushing' = [count |-> count, applied |-> FALSE]
StartKeeping(count) ==
  IF recent THEN pending' = count /\ UNCHANGED <<recent, flushing>>
  ELSE /\ pending' = count /\ recent' = TRUE
       /\ flushing' = [count |-> count, applied |-> FALSE]

\* Proxies forward what outside clients, gateways and proxies themselves send;
\* the API sees the last address of the path as its peer.
Relays == UNION {[1..n -> {w \in Written : w.ip \in Proxies}] : n \in 0..2}
Path == UNION {{<<sender>> \o relays : relays \in Relays} : sender \in Written}
Forged == UNION {[1..n -> Hop] : n \in 0..MaxForged}

\* Every proxy appends the peer it sees.  The front end's BFF forwards the last
\* incoming hop alone (backendProxy.ts): behind the edge, which discards what the
\* client wrote, that is the client itself, and both resolve alike.
Arrive ==
  /\ request = NoRequest
  /\ \E path \in Path, forged \in Forged :
       LET n == Len(path)
           header == forged \o SubSeq(path, 1, n - 1)
       IN /\ request' = [path |-> path, forwardedFor |-> header,
                         client |-> ResolveClientIp(path[n], header)]
          /\ IF InternalClient(path[n], header)
               THEN /\ sighted < MaxSightings
                    /\ sighted' = sighted + 1
                    /\ Start(pending + 1)
                    /\ UNCHANGED recorded
               ELSE UNCHANGED watchVars

\* The request is served; the next one may come.
Serve ==
  /\ request # NoRequest
  /\ request' = NoRequest
  /\ UNCHANGED watchVars

\* _flush: Redis runs the pipeline; the answer arrives, or the 0.5 s end.
Apply ==
  /\ flushing # NoFlush /\ ~flushing.applied
  /\ recorded' = recorded + flushing.count
  /\ flushing' = [flushing EXCEPT !.applied = TRUE]
  /\ UNCHANGED <<request, pending, recent, sighted>>

Flushed ==
  /\ flushing.applied
  /\ flushing' = NoFlush
  /\ UNCHANGED <<request, pending, recent, recorded, sighted>>

LoseFlush == flushing' = NoFlush /\ UNCHANGED pending
RestorePending == flushing' = NoFlush /\ pending' = pending + flushing.count
FlushFails ==
  /\ flushing # NoFlush
  /\ RestorePending
  /\ UNCHANGED <<request, recent, recorded, sighted>>

\* The interval is far longer than a write may take.
MinutePasses ==
  /\ recent /\ flushing = NoFlush
  /\ recent' = FALSE
  /\ UNCHANGED <<request, pending, flushing, recorded, sighted>>

ClientNext ==
  \/ Arrive \/ Serve \/ Apply \/ Flushed \/ FlushFails \/ MinutePasses

ClientSpec == ClientInit /\ [][ClientNext]_clientVars

-----------------------------------------------------------------------------

\* Whatever a client writes in front of it, the header makes nobody of the
\* client but the address that the outermost trusted proxy saw: neither another
\* client nor one of our own addresses (resolve_client_ip).
CallerIsWhoConnected ==
  request # NoRequest /\ request.path[1].ip \notin Trusted =>
    request.client = request.path[1].ip

\* While the process lives no sighting is lost, also one that arrives while an
\* earlier write is stalled (CollapseWatch).  One may count twice when the
\* answer to a write was too late.
SightingsConserved ==
  recorded + pending + (IF flushing.applied THEN 0 ELSE flushing.count) >= sighted

\* Both parts of what per-address limits and the health page rest on.
CallersAreKnown == CallerIsWhoConnected /\ SightingsConserved

=============================================================================
