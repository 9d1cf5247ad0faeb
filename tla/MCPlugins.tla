------------------------------- MODULE MCPlugins -------------------------------
(* Two tenants and a caller of each, for TLC. *)
EXTENDS Plugins

CONSTANTS ann, bob, ta, tb

OneEach == [c \in Caller |-> IF c = ann THEN ta ELSE tb]
=============================================================================
