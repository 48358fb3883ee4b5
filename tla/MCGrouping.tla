----------------------------- MODULE MCGrouping -----------------------------
(* Instances of Grouping for TLC: small alphabets of line shapes. *)
EXTENDS Grouping

Line(type, server, thread, user, payload, rid, stamped) ==
    [type |-> type, server |-> server, thread |-> thread, user |-> user,
     payload |-> payload, rid |-> rid, stamped |-> stamped]

\* Two servers that reuse thread number and user: a GET, its work, its response.
TwoServers == {Line(t, s, "t1", "u1", None, None, FALSE) :
                 t \in {"request", "mi_call", "response"}, s \in {"s1", "s2"}}

\* One server, one thread flipping between two users and user-less lines.
TwoUsers ==
    {Line("request", "s1", "t1", u, None, None, FALSE) : u \in {"u1", "u2"}}
      \cup {Line("info", "s1", "t1", u, None, None, FALSE) : u \in {"u1", "u2", None}}
      \cup {Line("response", "s1", "t2", u, None, None, FALSE) : u \in {"u1", None}}

\* A user's lookup and posted pick overlapping on two threads.
OneUser ==
    {Line("request", "s1", t, "u1", None, None, FALSE) : t \in {"t1", "t2"}}
      \cup {Line("mi_call", "s1", "t1", "u1", None, None, FALSE),
            Line("mi_result", "s1", "t1", "u1", None, None, FALSE),
            Line("request_body", "s1", "t2", None, "u1", "r1", FALSE),
            Line("response", "s1", "t3", "u1", None, None, FALSE)}

\* Stamped conversations that stay on the thread that opened them.
StampedOneSlot ==
    {Line(t, "s1", "t1", "u1", None, "r1", TRUE) : t \in {"request", "mi_call", "response"}}
      \cup {Line(t, "s1", "t1", "u1", None, "r2", TRUE) : t \in {"request", "response"}}
      \cup {Line("info", "s1", "t1", "u1", None, None, FALSE)}

Traffic(shapes, advances) == [shapes |-> shapes, advances |-> advances]

\* Close together, within and beyond the late window, beyond the gap, untimed.
Ordinary == {Traffic(TwoServers, {0, 2, 4}),
             Traffic(TwoUsers, {1, 2}),
             Traffic(OneUser, {NoTime, 1, 4}),
             Traffic(StampedOneSlot, {0, 2, 4})}
=============================================================================
