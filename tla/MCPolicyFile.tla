---------------------------- MODULE MCPolicyFile ----------------------------
(* Instances of PolicyFile for TLC: a project with one output file, a server   *)
(* that is deployed with one of two catalogs, and an output edited by hand     *)
(* that keeps the version of the first.                                        *)
EXTENDS PolicyFile, TLC

CONSTANTS out, config, TOKEN

CommandSymmetry == Permutations(Commands)

Module(version, body) ==
    [bytes |-> 1, version |-> version, parts |-> TRUE, inFormat |-> TRUE, body |-> body]

First == Module(1, 1)
Second == Module(2, 2)
Edited == Module(1, 3)
Page == [Module(Nil, 4) EXCEPT !.parts = FALSE]

Served == {First, Second}
Pages == {Page}
SomeTexts == {First, Second, Edited, Page}
OwnTags == [t \in SomeTexts |-> t.body]

Remote == [scheme |-> "https", loopback |-> FALSE, credentials |-> FALSE, absolute |-> FALSE,
           output |-> out, auth |-> TOKEN]
Plain == [Remote EXCEPT !.scheme = "http"]
Remotes == {Remote, Plain}

Ask == [op |-> "init", io |-> TRUE, flags |-> FALSE, force |-> FALSE, pull |-> Nil]
Blind == [Ask EXCEPT !.io = FALSE]
CommandLines == {[op |-> "pull"], [op |-> "check"], Ask, Blind}
=============================================================================
