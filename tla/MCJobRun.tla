------------------------------ MODULE MCJobRun -------------------------------
(* JobRun for TLC: two folders of one file each, which a Sonarr lists under  *)
(* other names, with one more that has no mapping here.                      *)
EXTENDS JobRun

pilot == <<"media", "show">>
film  == <<"media", "tv", "show">>

MCPaths    == {pilot, film}
MCFolders  == {{pilot}, {film}}
MCRemote   == {<<"d", "tv", "show">>, <<"d", "film", "show">>, <<"e", "show">>}
MCMappings == << [remote |-> <<"d">>, local |-> <<"media">>],
                 [remote |-> <<"d", "tv">>, local |-> <<"media">>],
                 [remote |-> <<"d", "film">>, local |-> <<"media", "tv">>] >>
=============================================================================
