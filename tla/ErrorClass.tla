----------------------------- MODULE ErrorClass -----------------------------
(***************************************************************************)
(* classify(): what a caller's retry policy is told about an ErrorCode.    *)
(* A code is a category and a value, named as the source names it.         *)
(***************************************************************************)

\* classifyErrc(), for the codes a request can end with; the faults of a decoder are
\* one name here.
ClassifyErrc(e) ==
    CASE e = "Ok" -> "Ok"
      [] e \in {"Timeout", "UnknownEngineId", "NotInTimeWindow"} -> "Retriable"
      [] e \in {"OidNotEncodable", "OidBadSyntax", "UnsupportedAuthProtocol",
                "UnsupportedSecurityLevel", "UnsupportedPrivProtocol",
                "LegacyProviderUnavailable", "EmptyPassword", "AuthFailed", "DecryptionFailed",
                "UnknownUserName", "DecryptionError"} -> "Configuration"
      [] e \in {"Malformed", "MissingVarbind", "ClientStopped", "NonIncreasingOid",
                "WalkIncomplete", "CryptoFailure", "UnexpectedReport"} -> "Fatal"
      [] OTHER -> "Unclassified"

\* classifyErrorStatus(), by the number on the wire.
ClassifyErrorStatus(status) ==
    CASE status = 0 -> "Ok"
      [] status \in {5, 13} -> "Retriable"
      [] status \in {14, 15} -> "Fatal"
      [] status \in ({1, 2, 3, 4, 6, 7, 8, 9, 10, 11, 12, 16, 17, 18}) -> "Configuration"
      [] OTHER -> "Unclassified"

\* classifySystem(): a code that is no generic condition, and a condition that is not
\* named, are Fatal.
ClassifySystem(condition) ==
    IF condition \in {"timed_out", "interrupted", "network_down", "network_unreachable",
                      "network_reset", "host_unreachable", "connection_refused",
                      "connection_reset", "no_buffer_space"}
    THEN "Retriable" ELSE "Fatal"

Classify(category, value) ==
    CASE category = "snmpio" -> ClassifyErrc(value)
      [] category = "agent" -> ClassifyErrorStatus(value)
      [] category = "system" -> ClassifySystem(value)
      [] OTHER -> "Unclassified"
=============================================================================
