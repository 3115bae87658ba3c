---------------------------- MODULE MCEvaluation ----------------------------
(***************************************************************************)
(* The programs that serve and evaluate a model: llama-server, the bench-  *)
(* mark runners, LM-Eval's proxy, the custom benchmark's process and one   *)
(* evaluation in its sandbox.  They share no variable, so interleaving     *)
(* them would only multiply their states: a behaviour runs one of them,    *)
(* its part.                                                               *)
(*   The server has three processes: one, its successor after a crash, and *)
(* the one for the other model.                                            *)
(***************************************************************************)
EXTENDS LlamaServer, Runners, LmevalProxy, Sandbox, TaskPool

VARIABLE part

vars == <<part, serverVars, rvars, pvars, svars, tvars>>

MCTasks == <<"t1", "t2">>
MCManifests == {<<"t1", "t2">>, <<"t1">>, <<"t1", "t1">>}

T(id, group, broken) == [id |-> id, group |-> group, broken |-> broken]
MCDataset == <<T("a", 1, FALSE), T("b", 1, FALSE), T("x", 2, TRUE), T("c", 2, FALSE), T("d", 0, FALSE)>>
MCSelectedIds == {Unbound, <<"c", "a">>, <<"b", "d", "a">>, <<"x">>}

Reply == [text |-> "text", thinking |-> FALSE, structured |-> FALSE, json |-> FALSE, field |-> "",
          fences |-> << >>, block |-> "", statements |-> "", dense |-> ""]
MCReplies ==
    {[Reply EXCEPT !.text = "none"],
     [Reply EXCEPT !.fences = <<"code", "">>]}

(* A part at rest has not begun; the sandbox, where a step is always due,  *)
(* has returned: there was no code.                                        *)
ServerRest == ServerInit /\ port = "free"
RunnersRest == RInit
ProxyRest == PInit /\ listener = "nobody"
SandboxRest ==
    /\ os = "posix" /\ task = {} /\ code = "none" /\ at = "returned" /\ script = ""
    /\ worker = "none" /\ helper = "none" /\ said = Nothing
    /\ report = [s \in Scripts |-> Nothing] /\ did = [s \in Scripts |-> Nothing]
    /\ printed = {} /\ checks = [p \in {"patched", "original"} |-> {}]
    /\ grade = [how |-> "graded", matched |-> 0, of |-> 1]
PoolRest == TInit /\ plan = [ids |-> Unbound, sample |-> 2]

Init ==
    \/ part = "server" /\ ServerInit /\ RunnersRest /\ ProxyRest /\ SandboxRest /\ PoolRest
    \/ part = "runners" /\ RInit /\ ServerRest /\ ProxyRest /\ SandboxRest /\ PoolRest
    \/ part = "proxy" /\ PInit /\ ServerRest /\ RunnersRest /\ SandboxRest /\ PoolRest
    \/ part = "sandbox" /\ SInit /\ ServerRest /\ RunnersRest /\ ProxyRest /\ PoolRest
    \/ part = "pool" /\ TInit /\ ServerRest /\ RunnersRest /\ ProxyRest /\ SandboxRest

Next ==
    \/ part = "server" /\ ServerNext /\ UNCHANGED <<part, rvars, pvars, svars, tvars>>
    \/ part = "runners" /\ RNext /\ UNCHANGED <<part, serverVars, pvars, svars, tvars>>
    \/ part = "proxy" /\ PNext /\ UNCHANGED <<part, serverVars, rvars, svars, tvars>>
    \/ part = "sandbox" /\ SNext /\ UNCHANGED <<part, serverVars, rvars, pvars, tvars>>
    \/ part = "pool" /\ TNext /\ UNCHANGED <<part, serverVars, rvars, pvars, svars>>

Spec == Init /\ [][Next]_vars /\ ServerFairness /\ PFairness /\ SFairness
=============================================================================
