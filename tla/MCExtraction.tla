---------------------------- MODULE MCExtraction ----------------------------
(* Small instances of BatchExtraction for TLC. *)
EXTENDS BatchExtraction, TLC

CONSTANTS u1, u2, c1, c2, r1, r2, custom

AskFor(u, c, pr, ps, b) == [user |-> u, content |-> c, prompt |-> pr, pages |-> ps, batch |-> b]

\* Page by page and in batch, by two users and on two documents
MixedAsks ==
    r1 :> {AskFor(u1, c1, NoPrompt, {1}, FALSE), AskFor(u1, c1, NoPrompt, {1}, TRUE)}
 @@ r2 :> {AskFor(u1, c2, NoPrompt, {1}, FALSE), AskFor(u1, c1, custom, {1}, FALSE),
           AskFor(u2, c1, NoPrompt, {1, 2}, TRUE)}
=============================================================================
