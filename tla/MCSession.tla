----------------------------- MODULE MCSession -----------------------------
(* Session on small instances. *)
EXTENDS Session, TLC

OneFd == {3}
TwoFds == {3, 4}

\* select(2) that changes its timeout to what is left of it, and one that
\* leaves it alone.
EitherTimeout == {0, SELECTSEC}

FullConf == {ConfItem}
AnyConf == {ConfItem, ConfItem \ {"login"}, {}}

NoLines == {}
PingLines == {"ping"}
TellingLines == {"ping", "msg", "msg_nodst"}

AwayWord == {"away"}
AwayWords == {"away", "server"}

Symmetric == Permutations(Conn)
=============================================================================
