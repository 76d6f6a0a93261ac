---------------------------- MODULE TcpTransfer ----------------------------
(***************************************************************************)
(* The helpers that send or receive a whole message over a connected TCP   *)
(* socket with a timeout (net_api.c): send_data and recv_data wait with    *)
(* select, send_data_ep and recv_data_ep with epoll.                       *)
(*                                                                         *)
(* A message is as many bytes as both sides have agreed on; byte i of      *)
(* message m is the pair <<m, i>>.  A side whose call fails closes its     *)
(* socket, and so does the sender after the last message.                  *)
(***************************************************************************)
EXTENDS Integers, Sequences

CONSTANTS
  Lengths,   \* the lengths of the messages
  Room       \* bytes that the connection holds

ASSUME TransferAssumption ==
  /\ Lengths \in Seq(Nat \ {0}) /\ Room \in Nat \ {0}

VARIABLES
  waiting,   \* epoll or select
  link,      \* up, fin (closed by the sender), reset
  chan,      \* bytes under way
  sender,    \* idle, sending, failed, closed
  done,      \* calls of send_data that returned 0
  data_len,  \* bytes of the message still to send
  receiver,  \* idle, receiving, failed, eof
  recv_buf,  \* what recv_data has written so far
  got        \* what the calls of recv_data that returned a length left there

sendVars    == <<sender, done, data_len>>
recvVars    == <<receiver, recv_buf, got>>
transferAll == <<waiting, link, chan, sendVars, recvVars>>

Message(m) == [i \in 1 .. Lengths[m] |-> <<m, i>>]

TransferInit ==
  /\ waiting \in {"epoll", "select"}
  /\ link = "up" /\ chan = <<>>
  /\ sender = "idle" /\ done = 0 /\ data_len = 0
  /\ receiver = "idle" /\ recv_buf = <<>> /\ got = <<>>

-----------------------------------------------------------------------------
\* send_data, send_data_ep

SendCall ==
  /\ sender = "idle" /\ done < Len(Lengths)
  /\ sender' = "sending" /\ data_len' = Lengths[done + 1]
  /\ UNCHANGED <<waiting, link, chan, done, recvVars>>

\* send takes as many bytes as there is room for, at send_buf
LeftAfterOne(n) == data_len - 1            \* mutant: one byte of the n
LeftAfter(n) == data_len - n
SendSome ==
  /\ sender = "sending" /\ link = "up"
  /\ \E n \in 1 .. data_len :
       LET m == done + 1
           from == Lengths[m] - data_len
       IN  /\ Len(chan) + n <= Room
           /\ chan' = chan \o SubSeq(Message(m), from + 1, from + n)
           /\ data_len' = LeftAfter(n)
           /\ IF LeftAfter(n) = 0 THEN sender' = "idle" /\ done' = m
                                  ELSE UNCHANGED <<sender, done>>
  /\ UNCHANGED <<waiting, link, recvVars>>

\* an error, a timeout, or, with select only, an interrupted wait
SendFails ==
  /\ sender = "sending"
  /\ link = "reset" \/ Len(chan) = Room \/ waiting = "select"
  /\ sender' = "failed"
  /\ link' = IF link = "up" THEN "fin" ELSE link
  /\ UNCHANGED <<waiting, chan, done, data_len, recvVars>>

SenderCloses ==
  /\ sender = "idle" /\ done = Len(Lengths)
  /\ sender' = "closed"
  /\ link' = IF link = "up" THEN "fin" ELSE link
  /\ UNCHANGED <<waiting, chan, done, data_len, recvVars>>

-----------------------------------------------------------------------------
\* recv_data, recv_data_ep, recv_data_once_peek

RecvCall ==
  /\ receiver = "idle" /\ Len(got) < Len(Lengths)
  /\ receiver' = "receiving" /\ recv_buf' = <<>>
  /\ UNCHANGED <<waiting, link, chan, sendVars, got>>

nleft == Lengths[Len(got) + 1] - Len(recv_buf)

\* recv is asked for no more than the message still lacks
AskedAll == Len(chan)                      \* mutant: whatever is there
Asked == nleft
RecvSome ==
  /\ receiver = "receiving" /\ link # "reset"
  /\ \E n \in 1 .. Len(chan) :
       LET now == recv_buf \o SubSeq(chan, 1, n)
       IN  /\ n <= Asked
           /\ chan' = SubSeq(chan, n + 1, Len(chan))
           /\ IF n >= nleft
              THEN receiver' = "idle" /\ got' = Append(got, now) /\ recv_buf' = <<>>
              ELSE recv_buf' = now /\ UNCHANGED <<receiver, got>>
  /\ UNCHANGED <<waiting, link, sendVars>>

\* MSG_PEEK leaves the bytes where they are
Peek ==
  /\ receiver = "idle" /\ link # "reset" /\ chan # <<>>
  /\ UNCHANGED transferAll

\* the peer has closed and nothing is left: 0, also within a message
AtEndLink == link = "fin"                  \* mutant: although bytes are left
AtEnd == link = "fin" /\ chan = <<>>
RecvEnd ==
  /\ receiver = "receiving" /\ AtEnd
  /\ receiver' = "eof"
  /\ UNCHANGED <<waiting, link, chan, sendVars, recv_buf, got>>

RecvFails ==
  /\ receiver = "receiving"
  /\ \/ link = "reset" \/ waiting = "select"
     \/ link = "up" /\ chan = <<>>
  /\ receiver' = "failed"
  /\ link' = "reset" /\ chan' = <<>>
  /\ UNCHANGED <<waiting, sendVars, recv_buf, got>>

\* the connection breaks, with what is under way
Break ==
  /\ link # "reset"
  /\ link' = "reset" /\ chan' = <<>>
  /\ UNCHANGED <<waiting, sendVars, recvVars>>

TransferNext ==
  \/ SendCall \/ SendSome \/ SendFails \/ SenderCloses
  \/ RecvCall \/ RecvSome \/ RecvEnd \/ Peek \/ RecvFails
  \/ Break

TransferSpec == TransferInit /\ [][TransferNext]_transferAll

-----------------------------------------------------------------------------
\* Properties

Bytes == UNION {{<<m, i>> : i \in 1 .. Lengths[m]} : m \in 1 .. Len(Lengths)}

TransferTypeOK ==
  /\ waiting \in {"epoll", "select"} /\ link \in {"up", "fin", "reset"}
  /\ chan \in Seq(Bytes) /\ Len(chan) <= Room
  /\ sender \in {"idle", "sending", "failed", "closed"}
  /\ done \in 0 .. Len(Lengths) /\ data_len \in Nat
  /\ receiver \in {"idle", "receiving", "failed", "eof"}
  /\ recv_buf \in Seq(Bytes) /\ got \in Seq(Seq(Bytes))

MessagesIntact == \A k \in 1 .. Len(got) : got[k] = Message(k)

NothingSkipped ==
  LET sent == IF sender = "sending" \/ sender = "failed"
              THEN SubSeq(Message(done + 1), 1, Lengths[done + 1] - data_len)
              ELSE <<>>
      cat[k \in 0 .. done] == IF k = 0 THEN <<>> ELSE cat[k - 1] \o Message(k)
      have[k \in 0 .. Len(got)] ==
        IF k = 0 THEN <<>> ELSE have[k - 1] \o got[k]
  IN  link # "reset" => have[Len(got)] \o recv_buf \o chan = cat[done] \o sent

EndIsTheEnd ==
  receiver = "eof" => sender = "failed" \/ Len(got) = done

\* However the bytes are cut on their way, and whatever fails: each call that
\* reports a message has received that message, whole, and the next one begins
\* with the next message (net_api.c:584-654, 978-1030); a sender that was told
\* 0 has given away every byte, so that only a break can lose them
\* (net_api.c:436-497, 916-960); and the receiver is told that the peer has
\* closed only after all that was sent (net_api.c:646).
TransferExact == MessagesIntact /\ NothingSkipped /\ EndIsTheEnd
=============================================================================
