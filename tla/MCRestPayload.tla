---------------------------- MODULE MCRestPayload ----------------------------
(***************************************************************************)
(* Request mappings for RestPayload: a message and a session under, above, *)
(* at or beside up to two static fields, which are scalars, objects or     *)
(* empty objects, at plain or dotted paths.                                *)
(***************************************************************************)
EXTENDS RestPayload, TLC

Paths  == {<<"a">>, <<"a", "b">>, <<"c">>}
Values == {Scalar("x"), Empty, <<"b">> :> "y" @@ <<"d">> :> "z"}

MCConfigs ==
    [message : Paths,
     session : {<<>>, <<"a">>, <<"a", "d">>},
     static  : UNION {[D -> Values] : D \in {{}, {<<"a">>}, {<<"a">>, <<"c">>}, {<<"a">>, <<"a", "b">>}}}]
=============================================================================
