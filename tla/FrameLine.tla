------------------------------- MODULE FrameLine -------------------------------
(***************************************************************************)
(* What CANProcessClient.send promises its callers, without sockets,        *)
(* threads or a queue limit: every frame joins one line at a moment between *)
(* the call and its return, and the line empties onto the bus in its order. *)
(*   - a send that returns has put its frame in the line, once;             *)
(*   - a send that raises the daemon's refusal has not, and never will;     *)
(*   - a send whose connection broke leaves the caller uncertain;           *)
(*   - only the interface drops a frame out of the line.                    *)
(* A frame is <<c, n>>, the n-th that client c asks for.                    *)
(***************************************************************************)
EXTENDS Integers, Sequences

CONSTANT Clients

VARIABLES
    asked,    \* frames each client has asked for
    calling,  \* clients inside send()
    line,     \* frames on their way to the bus
    out,      \* frames on the bus, in order
    lost,     \* frames the interface refused
    acked, refused  \* frames whose send returned, or raised the refusal

vars == <<asked, calling, line, out, lost, acked, refused>>

Last(c) == <<c, asked[c]>>

(* The frames that have joined the line, wherever they are now. *)
Joined == {line[i] : i \in DOMAIN line} \cup {out[i] : i \in DOMAIN out} \cup lost

Init ==
    /\ asked = [c \in Clients |-> 0]
    /\ calling = {} /\ line = <<>> /\ out = <<>>
    /\ lost = {} /\ acked = {} /\ refused = {}

(* send() is called; without a connection it raises at once. *)
Ask(c) ==
    /\ c \notin calling
    /\ asked' = [asked EXCEPT ![c] = @ + 1]
    /\ calling' \in {calling, calling \cup {c}}
    /\ UNCHANGED <<line, out, lost, acked, refused>>

Join(c) ==
    /\ c \in calling /\ Last(c) \notin Joined
    /\ line' = Append(line, Last(c))
    /\ UNCHANGED <<asked, calling, out, lost, acked, refused>>

(* The first of the line leaves it, for the bus or to be dropped. *)
Leave ==
    /\ line # <<>> /\ line' = Tail(line)
    /\ \/ out' = Append(out, Head(line)) /\ UNCHANGED lost
       \/ lost' = lost \cup {Head(line)} /\ UNCHANGED out
    /\ UNCHANGED <<asked, calling, acked, refused>>

(* send() ends: it returns, raises the refusal, or its connection broke. *)
Return(c) ==
    /\ c \in calling /\ calling' = calling \ {c}
    /\ \/ Last(c) \in Joined /\ acked' = acked \cup {Last(c)} /\ UNCHANGED refused
       \/ Last(c) \notin Joined /\ refused' = refused \cup {Last(c)} /\ UNCHANGED acked
       \/ UNCHANGED <<acked, refused>>
    /\ UNCHANGED <<asked, line, out, lost>>

Next == Leave \/ \E c \in Clients : Ask(c) \/ Join(c) \/ Return(c)

Spec == Init /\ [][Next]_vars
===============================================================================
