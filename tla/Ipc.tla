-------------------------------- MODULE Ipc ---------------------------------
(***************************************************************************)
(* The local connection between a background listener and the GUI          *)
(* (esmail::ipc): claiming the endpoint, the per-session token in a file,  *)
(* and the handshake every connection opens with.                          *)
(*                                                                         *)
(* A listener is a number, and so is its token.  A peer is a process that  *)
(* connects once; it may know the token in the file, an older one or none, *)
(* and may say nothing, rubbish or too much.                               *)
(***************************************************************************)
EXTENDS Naturals, Sequences, FiniteSets

CONSTANTS MaxListeners, MaxPeers   \* bounds: listeners started, connections made

ASSUME IpcAssumption == MaxListeners \in Nat /\ MaxPeers \in Nat

VARIABLES
  transport,    \* "pipe" (Windows), "socket" (Unix) or "memory" (tests)
  listener,     \* per listener: "off", "binding", "replacing", "listening", "refused" or "dead"
  name,         \* who the name leads to (0: nobody); a socket file outlives its listener
  tokenFile,    \* the token in ipc.token (0: none)
  peer,         \* per peer: its state, listener, and what it said
  queue,        \* per listener: connections it has not accepted, in order
  serving,      \* per listener: the peer whose handshake runs (0: none)
  replaced      \* history: a listener removed the socket file of a live one

ipcVars == <<transport, listener, name, tokenFile, peer, queue, serving, replaced>>

Listeners == 1..MaxListeners
Peers == 1..MaxPeers

(* A first line that is another message or too long is refused like another version's. *)
Says == {"Hello", "wrong version", "nothing"}
Alive(l) == l # 0 /\ listener[l] = "listening"
ListenerIs(l, s) == listener' = [listener EXCEPT ![l] = s]

-----------------------------------------------------------------------------
(* The listener *)

(* bind: a name that is taken is refused; but a socket file that nothing
   answers on was left by a listener that died. *)
Bind(l) ==
  /\ listener[l] = "off" /\ \A k \in Listeners : k < l => listener[k] # "off"
  /\ IF name = 0 THEN ListenerIs(l, "listening") /\ name' = l
     ELSE /\ ListenerIs(l, IF transport = "socket" /\ ~Alive(name) THEN "replacing" ELSE "refused")
          /\ UNCHANGED name
  /\ UNCHANGED <<transport, tokenFile, peer, queue, serving, replaced>>

(* ... and is removed and bound again. *)
Rebind(l) ==
  /\ listener[l] = "replacing" /\ ListenerIs(l, "listening") /\ name' = l
  /\ replaced' = (replaced \/ Alive(name))
  /\ UNCHANGED <<transport, tokenFile, peer, queue, serving>>

(* token::generate, token::write: a new token for every session. *)
WriteToken(l) ==
  /\ listener[l] = "listening" /\ tokenFile < l /\ tokenFile' = l
  /\ UNCHANGED <<transport, listener, name, peer, queue, serving, replaced>>

(* The listener ends: its name is free, except for a socket file. *)
ListenerEnds(l) ==
  /\ listener[l] = "listening" /\ ListenerIs(l, "dead")
  /\ name' = IF name = l /\ transport # "socket" THEN 0 ELSE name
  /\ peer' = [p \in Peers |-> IF peer[p].to = l /\ peer[p].at \in {"queued", "talking"} THEN [peer[p] EXCEPT !.at = "refused"] ELSE peer[p]]
  /\ queue' = [queue EXCEPT ![l] = <<>>]
  /\ serving' = [serving EXCEPT ![l] = 0]
  /\ UNCHANGED <<transport, tokenFile, replaced>>

-----------------------------------------------------------------------------
(* A connection *)

(* connect: the token is read, the peer connects and says its first line. *)
Connect(p, says, knows) ==
  /\ peer[p].at = "new" /\ Alive(name) /\ \A q \in Peers : q < p => peer[q].at # "new"
  /\ peer' = [peer EXCEPT ![p] = [at |-> "queued", to |-> name, says |-> says, token |-> knows, welcomed |-> FALSE]]
  /\ queue' = [queue EXCEPT ![name] = Append(@, p)]
  /\ UNCHANGED <<transport, listener, name, tokenFile, serving, replaced>>

(* Server::accept: one handshake at a time. *)
Accept(l) ==
  /\ listener[l] = "listening" /\ serving[l] = 0 /\ queue[l] # <<>>
  /\ LET p == Head(queue[l]) IN
     /\ serving' = [serving EXCEPT ![l] = p] /\ queue' = [queue EXCEPT ![l] = Tail(@)]
     /\ peer' = [peer EXCEPT ![p].at = IF @ = "queued" THEN "talking" ELSE @]
  /\ UNCHANGED <<transport, listener, name, tokenFile, replaced>>

(* The Hello of the handshake: this version, this session's token. *)
Passes(l, p) == peer[p].says = "Hello" /\ peer[p].token = l

(* handshake: Welcome, or the connection is dropped with nothing written to
   it; a silent one when HANDSHAKE_TIMEOUT is over. *)
Handshake(l) ==
  /\ serving[l] # 0
  /\ LET p == serving[l]
         answer == IF Passes(l, p) THEN "connected" ELSE "refused" IN
     peer' = [peer EXCEPT ![p].at = IF @ = "talking" THEN answer ELSE @, ![p].welcomed = @ \/ Passes(l, p)]
  /\ serving' = [serving EXCEPT ![l] = 0]
  /\ UNCHANGED <<transport, listener, name, tokenFile, queue, replaced>>

(* connect gives up when no answer came in time; the connection may still be
   in the queue, or be welcomed when nobody listens any more. *)
GiveUp(p) ==
  /\ peer[p].at \in {"queued", "talking"} /\ peer' = [peer EXCEPT ![p].at = "timed out"]
  /\ UNCHANGED <<transport, listener, name, tokenFile, queue, serving, replaced>>

IpcInit ==
  /\ transport \in {"pipe", "socket", "memory"}
  /\ listener = [l \in Listeners |-> "off"] /\ name = 0 /\ tokenFile = 0
  /\ peer = [p \in Peers |-> [at |-> "new", to |-> 0, says |-> "nothing", token |-> 0, welcomed |-> FALSE]]
  /\ queue = [l \in Listeners |-> <<>>] /\ serving = [l \in Listeners |-> 0] /\ replaced = FALSE

IpcNext ==
  \/ \E l \in Listeners : Bind(l) \/ Rebind(l) \/ WriteToken(l) \/ ListenerEnds(l) \/ Accept(l) \/ Handshake(l)
  \/ \E p \in Peers, says \in Says, knows \in {0, 1} \union {tokenFile} : Connect(p, says, knows)
  \/ \E p \in Peers : GiveUp(p)

IpcSpec == IpcInit /\ [][IpcNext]_ipcVars

-----------------------------------------------------------------------------
(* Type invariant: who waits in the queue has not been accepted, and only a
   listening server serves. *)
IpcTypeOK ==
  /\ transport \in {"pipe", "socket", "memory"} /\ name \in 0..MaxListeners /\ tokenFile \in 0..MaxListeners
  /\ \A l \in Listeners : \A i \in 1..Len(queue[l]) : peer[queue[l][i]].at \in {"queued", "timed out"}
  /\ \A l \in Listeners : serving[l] # 0 => listener[l] = "listening"

(* Two listeners never serve one endpoint, unless both found the same stale
   socket file and one removed the other's new one; and a listener welcomes
   only a peer that knows the token of its own session, whatever was queued
   before it started or gave up meanwhile (bind, handshake). *)
EndpointSound ==
  /\ Cardinality({l \in Listeners : listener[l] = "listening"}) <= 1 \/ replaced
  /\ \A p \in Peers : (peer[p].welcomed \/ peer[p].at = "connected") =>
       peer[p].token = peer[p].to /\ peer[p].says = "Hello" /\ peer[p].welcomed
=============================================================================
