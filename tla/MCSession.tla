------------------------------ MODULE MCSession ------------------------------
(* Finite instances of Session for TLC.                                    *)
EXTENDS Session, TLC

ProcSymmetry == Permutations(Proc)

Own == [scheme |-> "http", name |-> "own"]
Api == [scheme |-> "http", name |-> "api"]
BareApi == [scheme |-> "", name |-> "api"]

OwnOnly == {Own}
ApiOnly == {Api}
OwnAndApi == {Own, BareApi}

BothSchemes == [scheme : {"http", "https"}, name : {"own", "api"}]

(* One's own server has no TLS, the default one nothing else.              *)
OneScheme == {Own, [scheme |-> "https", name |-> "api"]}

=============================================================================
