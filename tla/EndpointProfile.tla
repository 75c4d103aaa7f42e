----------------------------- MODULE EndpointProfile ---------------------------
(***************************************************************************)
(* The endpoint profile of a specialist (lib/onboarding/                   *)
(* endpoint-manager.ts): a rotation issues a token and a heartbeat reads   *)
(* the profile; each awaits three probes of the runtime, the token proxy   *)
(* and the tunnel, and then writes the whole profile.                      *)
(***************************************************************************)
CONSTANTS
    Rotations,      \* create/rotate requests; each issues the token named after it
    Heartbeats,     \* heartbeat requests
    NoProfile       \* no profile, no token

Requests == Rotations \cup Heartbeats

VARIABLES
    profile,    \* specialist-profile.json
    request,    \* the state of every request
    newest,     \* history: the token issued last
    met         \* history: the requests that ran beside another one

endpointVars == <<profile, request, newest, met>>

EndpointInit(come) ==
    /\ profile = NoProfile
    /\ request = [q \in Requests |->
                    [at |-> IF q \in come THEN "new" ELSE "absent",
                     token |-> NoProfile, localOk |-> FALSE]]
    /\ newest = NoProfile
    /\ met = {}

Probing(q) == request[q].at \in {"runtime", "proxy", "tunnel"}

\* Requests come one by one; the probes of those under way may interleave.
Start(q, token) ==
    LET running == {p \in Requests : Probing(p)}
    IN  /\ request[q].at = "new"
        /\ request' = [request EXCEPT ![q].at = "runtime", ![q].token = token]
        /\ met' = IF running = {} THEN met ELSE met \cup running \cup {q}

Rotate(q) ==
    /\ q \in Rotations
    /\ Start(q, q)
    /\ newest' = q
    /\ UNCHANGED profile

\* Without a profile the heartbeat throws; the token it read is the one it
\* will write.
ReissuedToken(q) == q
HeldToken(q) == profile.token

Heartbeat(q) ==
    /\ q \in Heartbeats /\ profile # NoProfile
    /\ Start(q, HeldToken(q))
    /\ UNCHANGED <<profile, newest>>

\* checkLocalRuntime, checkLocalTokenProxy, checkRemoteEndpoint: each answers
\* or times out; the second has no say in the status.
ProbeRuntime(q) ==
    /\ request[q].at = "runtime"
    /\ \E ok \in BOOLEAN :
          request' = [request EXCEPT ![q].at = "proxy", ![q].localOk = ok]
    /\ UNCHANGED <<profile, newest, met>>

ProbeProxy(q) ==
    /\ request[q].at = "proxy"
    /\ request' = [request EXCEPT ![q].at = "tunnel"]
    /\ UNCHANGED <<profile, newest, met>>

Write(q) ==
    /\ request[q].at = "tunnel"
    /\ \E remoteOk \in BOOLEAN :
          profile' = [token |-> request[q].token, online |-> request[q].localOk /\ remoteOk]
    /\ request' = [request EXCEPT ![q].at = "done"]
    /\ UNCHANGED <<newest, met>>

EndpointStep ==
    \E q \in Requests :
        Rotate(q) \/ Heartbeat(q) \/ ProbeRuntime(q) \/ ProbeProxy(q) \/ Write(q)

\* The requests under way are gone, the file stays.
EndpointCrash ==
    /\ request' = [q \in Requests |->
                    IF Probing(q) THEN [request[q] EXCEPT !.at = "lost"] ELSE request[q]]
    /\ UNCHANGED <<profile, newest, met>>
==============================================================================
