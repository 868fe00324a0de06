------------------------------ MODULE UdpSocket -----------------------------
(***************************************************************************)
(* core/transport/network/udp_socket.cpp: the life of UdpSocket objects    *)
(* and of the descriptors they own.                                        *)
(***************************************************************************)
CONSTANTS
  Sockets,     \* objects of class UdpSocket
  Descriptors,
  INVALID_SOCKET \* -1, which the system never gives out

VARIABLES
  constructed,  \* the objects that are constructed and not destroyed
  m_socket,     \* object -> descriptor or INVALID_SOCKET
  open_files,   \* descriptors open in the system
  bound_files   \* ... and bound to a port

vars == <<constructed, m_socket, open_files, bound_files>>

Init ==
  /\ constructed = {}
  /\ m_socket = [s \in Sockets |-> INVALID_SOCKET]
  /\ open_files = {} /\ bound_files = {}

is_open(s) == m_socket[s] # INVALID_SOCKET

-----------------------------------------------------------------------------
Construct(s) ==
  /\ s \notin constructed
  /\ constructed' = constructed \cup {s}
  /\ m_socket' = [m_socket EXCEPT ![s] = INVALID_SOCKET]
  /\ UNCHANGED <<open_files, bound_files>>

MoveConstruct(s, other) ==
  /\ s \notin constructed /\ other \in constructed
  /\ constructed' = constructed \cup {s}
  /\ m_socket' = [m_socket EXCEPT ![other] = INVALID_SOCKET, ![s] = m_socket[other]]
  /\ UNCHANGED <<open_files, bound_files>>

\* close, on an object that is open or not
Closed(s) ==
  /\ open_files' = open_files \ {m_socket[s]}
  /\ bound_files' = bound_files \ {m_socket[s]}

MoveWithoutClose(s, other) == \* mutant: what s had stays open
  /\ {s, other} \subseteq constructed
  /\ s # other
  /\ m_socket' = [m_socket EXCEPT ![other] = INVALID_SOCKET, ![s] = m_socket[other]]
  /\ UNCHANGED <<constructed, open_files, bound_files>>
MoveAssign(s, other) ==
  /\ {s, other} \subseteq constructed
  /\ IF s = other THEN UNCHANGED <<m_socket, open_files, bound_files>>
     ELSE /\ Closed(s)
          /\ m_socket' = [m_socket EXCEPT ![other] = INVALID_SOCKET, ![s] = m_socket[other]]
  /\ UNCHANGED constructed

close(s) ==
  /\ s \in constructed
  /\ Closed(s)
  /\ m_socket' = [m_socket EXCEPT ![s] = INVALID_SOCKET]
  /\ UNCHANGED constructed

Destroy(s) ==
  /\ s \in constructed
  /\ constructed' = constructed \ {s}
  /\ Closed(s)
  /\ m_socket' = [m_socket EXCEPT ![s] = INVALID_SOCKET]

\* Nothing to do, a new descriptor, or none to be had.
Open(s) ==
  \/ UNCHANGED <<m_socket, open_files>>
  \/ /\ ~is_open(s)
     /\ \E fd \in Descriptors \ open_files :
          /\ m_socket' = [m_socket EXCEPT ![s] = fd]
          /\ open_files' = open_files \cup {fd}

open(s) ==
  /\ s \in constructed
  /\ Open(s)
  /\ UNCHANGED <<constructed, bound_files>>

\* The socket stays open when the system refuses the address.
bind(s) ==
  /\ s \in constructed
  /\ Open(s)
  /\ bound_files' \in {bound_files, bound_files \cup ({m_socket'[s]} \ {INVALID_SOCKET})}
  /\ UNCHANGED constructed

Next ==
  \/ \E s \in Sockets : Construct(s) \/ Destroy(s) \/ open(s) \/ bind(s) \/ close(s)
  \/ \E s, other \in Sockets : MoveConstruct(s, other) \/ MoveAssign(s, other)

Spec == Init /\ [][Next]_vars

-----------------------------------------------------------------------------
Owner == INSTANCE UniqueOwner
  WITH Owners <- Sockets, Handles <- Descriptors, None <- INVALID_SOCKET,
       owned <- m_socket, live <- open_files

\* Whatever is constructed, opened, moved, assigned to itself and destroyed, a
\* descriptor has one owner, passes whole, and is closed once
\* (udp_socket.cpp:46-122).
OwnsUniquely == Owner!Spec

\* Nothing is bound that is not open, and nobody owns what is not open.
TypeOK ==
  /\ constructed \subseteq Sockets
  /\ m_socket \in [Sockets -> Descriptors \cup {INVALID_SOCKET}]
  /\ open_files \subseteq Descriptors /\ bound_files \subseteq open_files
=============================================================================
