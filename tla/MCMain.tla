------------------------------- MODULE MCMain -------------------------------
(* One library, replaced twice: two versions that are BoringSSL, and a third *)
(* that links to it or cannot be read.                                       *)
EXTENDS Main

Itself == [n \in Names |-> n]
ContentOf == [n1 |-> <<"h1", "h2", "h3">>]
KindOf == [h1 |-> {"boring"}, h2 |-> {"boring"},
           h3 |-> {"linked", "broken"}]
PlainOpts == {[force |-> FALSE, revalidate |-> FALSE]}
=============================================================================
