------------------------------ MODULE MCWebFront ------------------------------
(* The logs of MCTaskLogDecoder, and two users.                              *)
EXTENDS WebFront, MCTaskLogDecoder

\* Someone who looks and has keys, and someone who sees to settings and users.
TwoRoles == {{"DOCKER_VIEW", "userApiKey:manage"},
             {"SETTINGS_SHOW", "user:manage"}}
==============================================================================
