--------------------------- MODULE WebSocketSession ---------------------------
(***************************************************************************)
(* A connection after its upgrade: websocket_session_server accepts the    *)
(* handshake and spawns a coroutine, which calls the handler of the route  *)
(* (bserv.cpp 106-217).  The handler is ws_echo of WebApp: it writes the   *)
(* cnt of the session, then sends back whatever the peer says, until the   *)
(* peer closes or something fails.                                         *)
(***************************************************************************)
EXTENDS Naturals, Sequences

CONSTANTS Sockets,     \* the upgraded connections
          Messages,    \* what peers say
          Cnt,         \* the first message, the session's cnt
          MaxMessages  \* bound on what one peer says

Frames == Messages \cup {"close", "garbage"}

VARIABLES asks,   \* the upgrade request: "echo", "unknown" url, "bad" handshake
          peer,   \* "open", "closed" (sent a close frame), "gone" (silent), "reset"
          said,   \* the messages of the peer
          inbox,  \* the frames that were not read yet
          heard,  \* the messages the peer received
          pc,     \* what the session does
          data,   \* the message being written
          end     \* how the session ended

peerVars == <<asks, peer, said, inbox>>
vars == <<peerVars, heard, pc, data, end>>

Init == /\ asks \in [Sockets -> {"echo", "unknown", "bad"}]
        /\ peer = [w \in Sockets |-> "open"]
        /\ said = [w \in Sockets |-> <<>>]
        /\ inbox = [w \in Sockets |-> <<>>]
        /\ heard = [w \in Sockets |-> <<>>]
        /\ pc = [w \in Sockets |-> "accepting"]
        /\ data = [w \in Sockets |-> Cnt]
        /\ end = [w \in Sockets |-> "no"]

-----------------------------------------------------------------------------
(* The peer.                                                               *)

\* Frames are not sent before the handshake.
Say(w, m) == /\ peer[w] = "open" /\ pc[w] # "accepting"
             /\ Len(said[w]) < MaxMessages
             /\ said' = [said EXCEPT ![w] = Append(@, m)]
             /\ inbox' = [inbox EXCEPT ![w] = Append(@, m)]
             /\ UNCHANGED <<asks, peer, heard, pc, data, end>>

\* A close frame, or one that breaks the protocol or is too large.
SayLast(w) == /\ peer[w] = "open" /\ pc[w] # "accepting"
              /\ peer' = [peer EXCEPT ![w] = "closed"]
              /\ \E f \in {"close", "garbage"} : inbox' = [inbox EXCEPT ![w] = Append(@, f)]
              /\ UNCHANGED <<asks, said, heard, pc, data, end>>

\* The peer answers no pings any more; what it sent still arrives.
Vanish(w) == /\ peer[w] \in {"open", "closed"}
             /\ peer' = [peer EXCEPT ![w] = "gone"]
             /\ UNCHANGED <<asks, said, inbox, heard, pc, data, end>>

Reset(w) == /\ peer[w] # "reset"
            /\ peer' = [peer EXCEPT ![w] = "reset"]
            /\ inbox' = [inbox EXCEPT ![w] = <<>>]
            /\ UNCHANGED <<asks, said, heard, pc, data, end>>

-----------------------------------------------------------------------------
(* The session.                                                            *)

Goes(w, from, to) == pc[w] = from /\ pc' = [pc EXCEPT ![w] = to]

\* The session and its stream are released with the last shared_ptr to them.
Ends(w, from, how) == /\ Goes(w, from, "ended")
                      /\ end' = [end EXCEPT ![w] = how]

\* The handshake is written; only a reset can fail that.
OnAccept(w) == /\ asks[w] # "bad" /\ peer[w] # "reset"
               /\ Goes(w, "accepting", "routing")
               /\ UNCHANGED <<peerVars, heard, data, end>>

OnAcceptError(w) == /\ asks[w] = "bad" \/ peer[w] = "reset"
                    /\ Ends(w, "accepting", "refused")
                    /\ UNCHANGED <<peerVars, heard, data>>

\* The response that handle_request makes of an unknown url is not sent.
NotFound(w) == /\ asks[w] = "unknown"
               /\ Ends(w, "routing", "dropped")
               /\ UNCHANGED <<peerVars, heard, data>>

Echo(w) == /\ asks[w] = "echo"
           /\ Goes(w, "routing", "writing")
           /\ UNCHANGED <<peerVars, heard, data, end>>

\* A peer that is gone hears nothing, and the write may be taken nonetheless.
Write(w) == /\ peer[w] # "reset"
            /\ Goes(w, "writing", "reading")
            /\ heard' = IF peer[w] = "gone" THEN heard ELSE [heard EXCEPT ![w] = Append(@, data[w])]
            /\ UNCHANGED <<peerVars, data, end>>

\* ec is set: a websocket_io_exception leaves the handler.
WriteFails(w) == /\ peer[w] \in {"reset", "gone"}
                 /\ Ends(w, "writing", "failed")
                 /\ UNCHANGED <<peerVars, heard, data>>

\* A read that starts over with what the last one left in the buffer.
ReadStale(w) == /\ inbox[w] # <<>> /\ Head(inbox[w]) \in Messages
                /\ Goes(w, "reading", "writing")
                /\ inbox' = [inbox EXCEPT ![w] = Tail(@)]
                /\ UNCHANGED <<asks, peer, said, heard, data, end>>

\* A whole message.
Read(w) == /\ inbox[w] # <<>> /\ Head(inbox[w]) \in Messages
           /\ Goes(w, "reading", "writing")
           /\ data' = [data EXCEPT ![w] = Head(inbox[w])]
           /\ inbox' = [inbox EXCEPT ![w] = Tail(@)]
           /\ UNCHANGED <<asks, peer, said, heard, end>>

\* websocket_closed: the loop of the handler breaks.
ReadClosed(w) == /\ inbox[w] # <<>> /\ Head(inbox[w]) = "close"
                 /\ Ends(w, "reading", "closed")
                 /\ UNCHANGED <<peerVars, heard, data>>

\* The suggested timeouts left out: a silent peer is waited for.
ReadFailsOnError(w) == /\ \/ peer[w] = "reset"
                          \/ inbox[w] # <<>> /\ Head(inbox[w]) = "garbage"
                       /\ Ends(w, "reading", "failed")
                       /\ UNCHANGED <<peerVars, heard, data>>

\* The suggested timeouts end the wait for a peer that answers no pings.
ReadFails(w) == /\ \/ peer[w] = "reset"
                   \/ peer[w] = "gone"
                   \/ inbox[w] # <<>> /\ Head(inbox[w]) = "garbage"
                /\ Ends(w, "reading", "failed")
                /\ UNCHANGED <<peerVars, heard, data>>

Peer(w) == SayLast(w) \/ Vanish(w) \/ Reset(w) \/ \E m \in Messages : Say(w, m)

Session(w) == \/ OnAccept(w) \/ OnAcceptError(w) \/ NotFound(w) \/ Echo(w)
              \/ Write(w) \/ WriteFails(w) \/ Read(w) \/ ReadClosed(w) \/ ReadFails(w)

Next == \E w \in Sockets : Peer(w) \/ Session(w)

(***************************************************************************)
(* Completed operations are handled (the io_context), the timeouts of the  *)
(* stream pass.  Nothing is assumed of the peers.                          *)
(***************************************************************************)
Spec == Init /\ [][Next]_vars /\ \A w \in Sockets : WF_vars(Session(w))

-----------------------------------------------------------------------------

TypeOK == /\ asks \in [Sockets -> {"echo", "unknown", "bad"}]
          /\ peer \in [Sockets -> {"open", "closed", "gone", "reset"}]
          /\ \A w \in Sockets : /\ said[w] \in Seq(Messages) /\ Len(said[w]) <= MaxMessages
                                /\ inbox[w] \in Seq(Frames)
                                /\ Len(heard[w]) <= Len(said[w]) + 1
          /\ data \in [Sockets -> Messages \cup {Cnt}]
          /\ pc \in [Sockets -> {"accepting", "routing", "writing", "reading", "ended"}]
          /\ \A w \in Sockets : pc[w] = "ended" <=> end[w] # "no"

(* The peer hears the cnt first, then its own messages, in order, none     *)
(* twice and none left out, however many it sends before it listens.       *)
EchoesInOrder ==
  \A w \in Sockets : LET due == <<Cnt>> \o said[w]
                     IN Len(heard[w]) <= Len(due) /\ heard[w] = SubSeq(due, 1, Len(heard[w]))

(* A peer that closes hears the echo of everything it said before.         *)
EverythingEchoedBeforeClose ==
    \A w \in Sockets : end[w] = "closed" /\ peer[w] = "closed" => heard[w] = <<Cnt>> \o said[w]

(* The session of a peer that closed, vanished or was reset ends, whether  *)
(* it was reading or writing.                                              *)
DeadPeersAreLeft == \A w \in Sockets : peer[w] # "open" ~> pc[w] = "ended"
=============================================================================
