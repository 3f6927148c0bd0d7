------------------------------ MODULE MCLiveData ------------------------------
(***************************************************************************)
(* The Explore page with two tokens and two of its lists.                  *)
(***************************************************************************)
EXTENDS LiveData

MCLists == {"recent", "soon"}
MCTokens == 1..MaxToken
=============================================================================
