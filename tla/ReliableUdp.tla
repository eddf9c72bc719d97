----------------------------- MODULE ReliableUdp ----------------------------
(***************************************************************************)
(* One reliable session between a client (Client/Net/UdpClient.cpp) and    *)
(* the server (Server/Net/ReliableUdpSessionRegistry.h): two               *)
(* ReliableUdpSessions, each an ack tracker and a send window, over a      *)
(* network that loses, repeats and reorders.                               *)
(*                                                                         *)
(* `net` holds every packet ever sent, and any of them may arrive at any   *)
(* time, again and again, or never: a resend, which repeats the bytes of   *)
(* the first transmission, puts nothing new there.                         *)
(***************************************************************************)
EXTENDS AckTracker, Tables, FiniteSets

CONSTANTS
    MaxPending,      \* maxPendingPacketCount: 64
    MaxResend,       \* maxResendCount: 10, of each side's own configuration
    MaxSequence      \* bound: the sequences each side allocates

Side == {"client", "server"}

ASSUME ReliableAssumption ==
    /\ MaxPending \in Nat \ {0}
    /\ MaxResend \in [Side -> Nat]
    /\ MaxSequence \in [Side -> 0 .. HalfRange - 2]

VARIABLES
    next,         \* nextSequence_ of each side
    pending,      \* pendingPacketList_: sequence -> resendCount
    tracker,      \* ackTracker_
    net,          \* the packets sent
    owesAck,      \* the client has processed data and not yet built its ack
    session,      \* the server's entry in sessionTable_ and closingEndpointSet_
    delivered,    \* ghost: how often each sequence went on to the dispatcher
    abandoned,    \* ghost: the sequences refused or given up
    overflowed    \* ghost: a side's bit field was shifted by its whole width

vars == <<next, pending, tracker, net, owesAck, session,
          delivered, abandoned, overflowed>>

Other(side) == IF side = "client" THEN "server" ELSE "client"

Data(side, seq, from) ==
    [kind |-> "Data", to |-> Other(side), seq |-> seq,
     ack |-> from.latest, bits |-> from.bits]

Ack(side, from) ==
    [kind |-> "Ack", to |-> Other(side), ack |-> from.latest, bits |-> from.bits]

Sent(side) == 1 .. next[side] - 1

TypeOK ==
    /\ next \in [Side -> Sequence]
    /\ \A s \in Side : /\ DOMAIN pending[s] \subseteq Sent(s)
                       /\ Cardinality(DOMAIN pending[s]) <= MaxPending
                       /\ \A q \in DOMAIN pending[s] : pending[s][q] \in 0 .. MaxResend[s]
    /\ tracker \in [Side -> Trackers]
    /\ \A m \in net : /\ m.to \in Side /\ m.ack \in Sequence
                      /\ m.bits \subseteq 1 .. AckBits
    /\ owesAck \in BOOLEAN
    /\ session \in {"Open", "Closing", "Closed"}

Init ==
    /\ next = [s \in Side |-> 1]
    /\ pending = [s \in Side |-> EmptyTable]
    /\ tracker = [s \in Side |-> EmptyTracker]
    /\ net = {}
    /\ owesAck = FALSE
    /\ session = "Open"
    /\ delivered = [s \in Side |-> [q \in 1 .. MaxSequence[s] |-> 0]]
    /\ abandoned = [s \in Side |-> {}]
    /\ overflowed = [s \in Side |-> FALSE]

-----------------------------------------------------------------------------
CanProcessAck(side, ack) == ack = 0 \/ ~ IsSequenceNewer(ack, next[side] - 1)

\* ProcessAck: what is left in the window of side after an acknowledgement.
Unacked(side, m) ==
    IF CanProcessAck(side, m.ack)
    THEN Drop(pending[side],
              {q \in DOMAIN pending[side] : IsSequenceAcked(q, m.ack, m.bits)})
    ELSE pending[side]

\* Mutant: only the sessions of joined peers are looked at.
CloseIfSettledNever(window) == session' = session

\* The server erases a closing session whose last packet is settled.
CloseIfSettled(window) ==
    session' = IF session = "Closing" /\ DOMAIN window = {} THEN "Closed" ELSE session

\* The side can receive: the client always, the server while it has the session.
Listens(side) == side = "server" => session # "Closed"

CanRegisterSentPacket(side) == Cardinality(DOMAIN pending[side]) < MaxPending

\* BuildOutgoingPacket and SendReliablePacket: the sequence is taken before
\* the window is asked for a place.
TakeSequence(side) ==
    LET seq == next[side]
    IN  /\ seq <= MaxSequence[side]
        /\ next' = [next EXCEPT ![side] = Increment(seq)]
        /\ IF CanRegisterSentPacket(side)
           THEN /\ pending' = [pending EXCEPT ![side] = Put(pending[side], seq, 0)]
                /\ net' = net \cup {Data(side, seq, tracker[side])}
                /\ UNCHANGED abandoned
           ELSE /\ abandoned' = [abandoned EXCEPT ![side] = abandoned[side] \cup {seq}]
                /\ UNCHANGED <<pending, net>>
        /\ UNCHANGED <<tracker, owesAck, delivered, overflowed>>

Send(side) ==
    /\ side = "server" => session = "Open"
    /\ TakeSequence(side)
    /\ UNCHANGED session

\* The server's last notice, and BeginClose; or Remove when it is refused.
SendNoticeAndClose ==
    /\ session = "Open"
    /\ TakeSequence("server")
    /\ session' = IF pending' = pending THEN "Closed" ELSE "Closing"

\* ProcessReceivedDataHeader. The server answers within the critical section,
\* the client in a second one.
ReceiveData(m) ==
    LET side == m.to
        window == Unacked(side, m)
    IN  /\ m.kind = "Data"
        /\ Listens(side)
        /\ delivered' = IF TrackerHas(tracker[side], m.seq) THEN delivered
                        ELSE [delivered EXCEPT ![Other(side)][m.seq] =
                                IF @ = 2 THEN 2 ELSE @ + 1]
        /\ \E observed \in ObserveOutcomes(tracker[side], m.seq) :
              /\ tracker' = [tracker EXCEPT ![side] = observed]
              /\ net' = IF side = "server" THEN net \cup {Ack(side, observed)} ELSE net
        /\ owesAck' = (owesAck \/ side = "client")
        /\ overflowed' = [overflowed EXCEPT ![side] =
                            @ \/ ShiftsByWidth(tracker[side], m.seq)]
        /\ pending' = [pending EXCEPT ![side] = window]
        /\ IF side = "server" THEN CloseIfSettled(window) ELSE UNCHANGED session
        /\ UNCHANGED <<next, abandoned>>

ReceiveAck(m) ==
    LET side == m.to
        window == Unacked(side, m)
    IN  /\ m.kind = "Ack"
        /\ Listens(side)
        /\ pending' = [pending EXCEPT ![side] = window]
        /\ IF side = "server" THEN CloseIfSettled(window) ELSE UNCHANGED session
        /\ UNCHANGED <<next, tracker, net, owesAck, delivered, abandoned, overflowed>>

\* SendReliableAckPacket
SendClientAck ==
    /\ owesAck
    /\ owesAck' = FALSE
    /\ net' = net \cup {Ack("client", tracker["client"])}
    /\ UNCHANGED <<next, pending, tracker, session, delivered, abandoned, overflowed>>

\* ExtractResendResult: the due packets are sent again, or given up when they
\* have been sent again MaxResend times.
Resend(side, due) ==
    LET lost == {q \in due : pending[side][q] >= MaxResend[side]}
        window == [q \in DOMAIN pending[side] \ lost |->
                     IF q \in due THEN pending[side][q] + 1 ELSE pending[side][q]]
    IN  /\ Listens(side)
        /\ due # {}
        /\ pending' = [pending EXCEPT ![side] = window]
        /\ abandoned' = [abandoned EXCEPT ![side] = abandoned[side] \cup lost]
        /\ IF side = "server" THEN CloseIfSettled(window) ELSE UNCHANGED session
        /\ UNCHANGED <<next, tracker, net, owesAck, delivered, overflowed>>

Next ==
    \/ \E s \in Side : Send(s)
    \/ SendNoticeAndClose
    \/ \E m \in net : ReceiveData(m)
    \/ \E m \in net : ReceiveAck(m)
    \/ SendClientAck
    \/ \E s \in Side : \E due \in SUBSET DOMAIN pending[s] : Resend(s, due)

\* The tick thread of the server looks for due packets for ever, so every
\* pending packet is due again and again.
ResendOf(seq) ==
    \E due \in SUBSET DOMAIN pending["server"] : seq \in due /\ Resend("server", due)

Fairness == \A seq \in 1 .. MaxSequence["server"] : WF_vars(ResendOf(seq))

Spec == Init /\ [][Next]_vars /\ Fairness

-----------------------------------------------------------------------------
\* A packet that left the window without being abandoned was delivered: no
\* acknowledgement, stale, repeated or piggybacked, settles a packet that the
\* other side has not received; unless the other side shifted its bit field
\* by the whole width.
SettledWasDelivered ==
    /\ TypeOK
    /\ \A s \in Side : \A q \in Sent(s) \ (DOMAIN pending[s] \cup abandoned[s]) :
          delivered[s][q] > 0 \/ overflowed[Other(s)]

\* A packet goes on to the dispatcher twice only if it comes again when the
\* receiver has already seen one more than AckBits ahead of it.
RepeatsAreOld ==
    \A s \in Side : \A q \in Sent(s) :
        delivered[s][q] > 1 =>
            \/ tracker[Other(s)].latest - q > AckBits
            \/ overflowed[Other(s)]

\* A closing session is erased in the end, whether its notice is acknowledged
\* or given up, even when nothing arrives any more.
ClosingEnds == session = "Closing" ~> session = "Closed"
=============================================================================
