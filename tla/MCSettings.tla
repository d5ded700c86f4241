------------------------------- MODULE MCSettings -------------------------------
(* Settings for TLC: every setting alone, and those that a check compares. *)
EXTENDS Settings

Related ==
    {{"grpcPort", "metricPort"}, {"certFile", "keyFile"}, {"certFile", "clientCA"},
     {"genTimeout", "forceShutdown"}, {"maxSend", "maxOutput"}, {"cacheMax", "maxOutput"},
     {"bucket", "accessKey", "secretKey"}, {"bucket", "pluginsDir"},
     {"retention", "preCreate"}}

MCTopics == {{s} : s \in Names} \cup Related
================================================================================
