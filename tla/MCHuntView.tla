----------------------------- MODULE MCHuntView -----------------------------
(* Small instances of HuntView for TLC.                                    *)
EXTENDS HuntView

\* No tool_use; a tool, each terminal name; two, the first one unknown.
MCSays == {<<>>, <<"sniff">>, <<"hunt_complete">>, <<"needs_help">>,
           <<"unknown", "sniff">>}
=============================================================================
