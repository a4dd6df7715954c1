---------------------------- MODULE MCWindowsAgent ----------------------------
(* WindowsAgent with one collector for a snapshot, and files of each kind. *)
EXTENDS WindowsAgent, TLC

CONSTANTS p, t, s

MCCall == {p, t, s}
MCSnapshotCalls == {s}

Plain == "PLATFORM_URL" :> "https" @@ "TARGET_ID" :> "id" @@ "AGENT_KEY" :> "key"

MCFile ==
  {Plain,
   "PLATFORM_URL" :> "http" @@ Plain,               \* not secure
   "WRITE_ENABLED" :> "yes" @@ Plain,               \* against the fixed settings
   "ALLOW_INSECURE_TRANSPORT" :> "yes" @@ Plain}    \* not a setting of the service

MCInherited == {<<>>, "ALLOW_INSECURE_TRANSPORT" :> "yes"}
=============================================================================
