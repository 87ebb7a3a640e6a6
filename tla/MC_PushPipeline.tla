-------------------------- MODULE MC_PushPipeline ---------------------------
(* Small pushes for TLC: sizes around a chunk of two bytes.                 *)
EXTENDS PushPipeline

\* An empty file, files of exactly one and two chunks, and files that need a
\* shorter last part.
Sizes(u) == CASE u = <<1, 1>> -> 3 [] u = <<1, 2>> -> 0
              [] u = <<2, 1>> -> 2 [] u = <<2, 2>> -> 5
              [] u = <<3, 1>> -> 1 [] OTHER -> 4

SizeOf == [u \in Uploads |-> Sizes(u)]

AttemptChoices == {-1, 0, 1, 2, 4}
AttemptsWithResync == {2, 3}
=============================================================================
