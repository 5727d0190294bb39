-------------------------------- MODULE Settings --------------------------------
(***************************************************************************)
(* The effective settings of a user: the global setting.json with the      *)
(* user's own on top, defaults, validation (src/src/config/config.go), and *)
(* the MCP servers built from them (src/src/mcp/config/config.go).         *)
(* A JSON object is a function on its keys; any other value is a record    *)
(* [val |-> v] with a number, a Boolean, a text or Null.  Texts are "" or  *)
(* model names; the keys that only travel through are left out.            *)
(***************************************************************************)
EXTENDS Integers, Sequences, SequencesExt

CONSTANTS Null,     \* a JSON null, and a switch that nobody set
          Missing,  \* in place of a layer, that there is no file
          Corrupt   \* or that it cannot be read or parsed

Val(v) == [val |-> v]
IsObject(j) == DOMAIN j # {"val"}

Numbers == {"server_port", "max_tokens", "max_agent_loop_iterations",
            "context_window_size", "context_safety_margin"}

\* The sections with a switch, and their numbers.
Section == {"compaction", "memory", "skill", "subagent", "hook"}
NumberIn ==
  [compaction |-> {"tool_result_threshold", "auto_trigger_margin", "breaker_threshold"},
   memory     |-> {"index_max_lines", "index_max_bytes"},
   skill      |-> {"max_skill_size_bytes"},
   subagent   |-> {"max_definition_size_bytes", "default_background_timeout_seconds"},
   hook       |-> {}]

DefaultOf ==
  [server_port |-> 8969, max_tokens |-> 16384, max_agent_loop_iterations |-> 50,
   context_window_size |-> 200000, context_safety_margin |-> 4096,
   tool_result_threshold |-> 5120, auto_trigger_margin |-> 20000, breaker_threshold |-> 3,
   index_max_lines |-> 200, index_max_bytes |-> 25600,
   max_skill_size_bytes |-> 65536, max_definition_size_bytes |-> 65536,
   default_background_timeout_seconds |-> 300]

(***************************************************************************)
(* Merging the layers                                                      *)
(***************************************************************************)
\* Mutant: the upper layer's sections replace the lower layer's.
MergeTop(dst, src) ==
  [k \in DOMAIN dst \cup DOMAIN src |-> IF k \in DOMAIN src THEN src[k] ELSE dst[k]]

\* Objects that both layers have are merged key by key, at any depth; of
\* anything else, null and lists included, the upper layer's is taken.
RECURSIVE MergeObjects(_, _)
MergeObjects(dst, src) ==
  [k \in DOMAIN dst \cup DOMAIN src |->
     IF k \notin DOMAIN src THEN dst[k]
     ELSE IF k \in DOMAIN dst /\ IsObject(dst[k]) /\ IsObject(src[k])
          THEN MergeObjects(dst[k], src[k])
     ELSE src[k]]

Given(m, k, v) == IF k \in DOMAIN m THEN m ELSE [x \in DOMAIN m \cup {k} |-> IF x = k THEN v ELSE m[x]]

\* The provider, the model and the key are guessed from the environment: a key
\* that is there, even with null, is not guessed.
ApplyBootstrapDefaults(m, env) ==
  LET provider == IF env.anthropic /\ ~ env.openai THEN "anthropic" ELSE "openai"
      m1 == Given(m, "provider", Val(provider))
      claude == m1["provider"] = Val("anthropic")
      m2 == Given(m1, "model", Val(IF claude THEN "claude" ELSE "gpt"))
  IN  Given(m2, "api_key",
            Val(IF claude THEN IF env.anthropic THEN "key" ELSE ""
                ELSE IF env.openai THEN "key" ELSE ""))

(***************************************************************************)
(* Decoding                                                                *)
(***************************************************************************)
At(m, k, zero) == IF k \in DOMAIN m /\ m[k] # Val(Null) THEN m[k].val ELSE zero

SectionOf(m, s) == IF s \in DOMAIN m /\ IsObject(m[s]) THEN m[s] ELSE << >>

\* Unmarshal refuses a number or a text where an object belongs.
Decodes(m) == \A s \in Section \cap DOMAIN m : IsObject(m[s]) \/ m[s] = Val(Null)

Decode(m) ==
  [provider |-> At(m, "provider", ""), model |-> At(m, "model", ""),
   number  |-> [n \in Numbers |-> At(m, n, 0)],
   enabled |-> [s \in Section |-> At(SectionOf(m, s), "enabled", Null)],
   within  |-> [s \in Section |-> [n \in NumberIn[s] |-> At(SectionOf(m, s), n, 0)]],
   entries |-> At(SectionOf(m, "hook"), "entries", <<>>),
   denied  |-> At(SectionOf(m, "subagent"), "global_denied_tools", <<>>),
   servers |-> At(SectionOf(m, "mcp"), "servers", <<>>)]

OrDefault(n, v) == IF v = 0 THEN DefaultOf[n] ELSE v

\* Zero and a missing switch mean "not set".
SetDefaults(c) ==
  [c EXCEPT !.number  = [n \in Numbers |-> OrDefault(n, @[n])],
            !.enabled = [s \in Section |-> IF @[s] = Null THEN TRUE ELSE @[s]],
            !.within  = [s \in Section |-> [n \in NumberIn[s] |-> OrDefault(n, @[s][n])]],
            !.denied  = IF @ = <<>> THEN <<"agent", "task_status">> ELSE @]

(***************************************************************************)
(* Validation                                                              *)
(***************************************************************************)
Event == {"program_start", "program_exit", "compact", "error", "session_start",
          "session_end", "iteration_start", "iteration_end", "pre_tool_use",
          "post_tool_use", "pre_message", "post_message"}

ValidateHookConfig(entries) ==
  \A i \in 1 .. Len(entries) :
    /\ entries[i].name # "" /\ entries[i].event \in Event
    /\ entries[i].action \in {"command", "http", "prompt", "agent"}

ValidateSubAgentConfig(c) ==
  /\ \A n \in NumberIn["subagent"] : c.within["subagent"][n] >= 0
  /\ \A i \in 1 .. Len(c.denied) : c.denied[i] \notin {"", " "}

Enabled(servers) == SelectSeq(servers, LAMBDA s : ~ s.disabled)

\* The enabled servers have distinct names and what their transport needs.
ValidateMCPConfig(servers) ==
  LET on == Enabled(servers) IN
  /\ \A i \in 1 .. Len(on) :
       /\ on[i].name # "" /\ on[i].type \in {"stdio", "http"} /\ on[i].target # ""
  /\ \A i, j \in 1 .. Len(on) : on[i].name = on[j].name => i = j

\* validateForServer; validate, for a single file, asks for an API key as well.
ValidateForServer(c) ==
  /\ c.number["server_port"] \in 0 .. 65535
  /\ c.provider \in {"anthropic", "openai"} /\ c.model # ""
  /\ c.number["max_tokens"] > 0
  /\ \A n \in Numbers \ {"server_port", "max_tokens"} : c.number[n] >= 0
  /\ ValidateMCPConfig(c.servers) /\ ValidateSubAgentConfig(c)
  /\ ValidateHookConfig(c.entries)

\* LoadMerged: a missing layer is skipped, one that cannot be read or parsed is
\* an error.
LoadMerged(global, user, env) ==
  LET read == SelectSeq(<<global, user>>, LAMBDA l : l # Missing)
      m == ApplyBootstrapDefaults(FoldLeft(MergeObjects, << >>, read), env)
      c == SetDefaults(Decode(m))
  IN  IF Corrupt \in ToSet(read) \/ ~ Decodes(m) \/ ~ ValidateForServer(c)
      THEN [err |-> TRUE] ELSE [err |-> FALSE, config |-> c]

(***************************************************************************)
(* The MCP servers                                                         *)
(***************************************************************************)
\* BuildTransports: each server that is enabled and complete is built; of a
\* name, a type or a target that is only blanks, validateServer says no.
DefaultHandshakeTimeout == 30
BuildTransports(servers) ==
  LET built == SelectSeq(servers, LAMBDA s : /\ ~ s.disabled
                                             /\ s.name \notin {"", " "}
                                             /\ s.type \in {"stdio", "http"}
                                             /\ s.target \notin {"", " "})
  IN  [i \in 1 .. Len(built) |->
         [name |-> built[i].name, type |-> built[i].type,
          timeout |-> IF built[i].timeout > 0 THEN built[i].timeout
                      ELSE DefaultHandshakeTimeout]]

================================================================================
