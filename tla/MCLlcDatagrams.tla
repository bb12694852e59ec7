---------------------------- MODULE MCLlcDatagrams ----------------------------
(***************************************************************************)
(* A small device: service discovery, the echo server and one more service *)
(* whose name can be asked for, and a few parameter lists.                 *)
(***************************************************************************)
EXTENDS LlcDatagrams, TLC

MCName == 1 :> "sdp" @@ 4 :> "snep" @@ 16 :> "echo"

MCAsked == {<<"snep">>, <<"sdp", "snep">>}

\* A peer of an older version, and one of a version nobody speaks.
Announcer(version, saps) ==
  [version |-> version, miu |-> 128, saps |-> saps, lto |-> 1000, opt |-> 1]

MCAnnouncers ==
  {Announcer([major |-> 1, minor |-> 0], {1, 4, 16}),
   Announcer([major |-> 0, minor |-> 9], {1})}

\* A list that ends in a parameter; an empty version after a parameter to skip;
\* a version before 1.
MCMalformed == {<<2, 2, 1>>, <<66, 1, 0, 1, 0>>, <<1, 1, 9>>}
===============================================================================
