---------------------------- MODULE MCHttpServer ----------------------------
(* Clients for TLC: one that sends a request in one segment, one that also  *)
(* asks for a file that is not there, one whose request arrives in two.    *)
EXTENDS HttpServer, TLC

CONSTANTS cA, cB, cC, fA, fB

Whole(f) == [file |-> f, part |-> "whole"]
First(f) == [file |-> f, part |-> "first"]
Rest(f)  == [file |-> f, part |-> "rest"]

Sizes == (fA :> 3) @@ (fB :> 0)

OneEach    == (cA :> <<Whole(fA)>>) @@ (cB :> <<Whole(fB)>>)
Mixed      == (cA :> <<Whole(fA), Whole(NoFile)>>) @@ (cB :> <<First(fA), Rest(fA)>>)
Split      == (cA :> <<First(fA), Rest(fA)>>)
ThreeMixed == Mixed @@ (cC :> <<Whole(fB)>>)
=============================================================================
