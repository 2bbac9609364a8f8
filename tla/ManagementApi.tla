--------------------------- MODULE ManagementApi ---------------------------
(***************************************************************************)
(* The HTTP interface: the handlers that edit address.conf in the managed  *)
(* directory, DNS over HTTPS, and the history of queries and log lines the *)
(* web interface shows.  Handlers run concurrently, nothing locks the      *)
(* file, and writing it truncates it first.                                *)
(***************************************************************************)
EXTENDS Naturals, Sequences, FiniteSets, Absent

CONSTANTS ApiClients,     \* concurrent requests to the interface
          ApiDomains,  \* domains of address rules
          HistoryLimit,
          MaxRules,    \* no rule is created in a file this long
          MaxCompleted \* how many queries the instance completes

ASSUME ApiAssumption == HistoryLimit \in Nat \ {0} /\ MaxCompleted \in Nat
ASSUME ApiNullAssumption == Null \notin Seq(ApiDomains)

VARIABLES
  aspect,    \* which of the three parts of the interface is exercised
  managed,   \* whether the configuration names a managed directory
  ruleFile,  \* address.conf: a sequence of rules, or Null when there is none
  call,      \* the requests under way
  alone,     \* those of them that no other edit has overlapped
  plugins,   \* the recorder among the observers: "unset", "recorder" or "dropped"
  history,   \* the recorder's queries, newest first
  completed  \* the queries completed while the recorder was registered

apiVars == <<aspect, managed, ruleFile, call, alone, plugins, history, completed>>

Free == [op |-> "none", at |-> "idle", domain |-> Null, config |-> <<>>, status |-> 0, type |-> Null]

ApiInit ==
  /\ aspect \in {"rules", "doh", "history"}
  /\ managed \in BOOLEAN
  /\ ruleFile = Null
  /\ call = [c \in ApiClients |-> Free]
  /\ alone = {}
  /\ plugins = "unset"
  /\ history = <<>>
  /\ completed = <<>>

Answer(c, status) == call' = [call EXCEPT ![c].at = "done", ![c].status = status, ![c].config = <<>>]
Has(config, d) == \E i \in DOMAIN config : config[i] = d
WithoutFirst(config, d) ==
  LET i == CHOOSE i \in DOMAIN config : config[i] = d /\ \A j \in 1 .. i - 1 : config[j] # d
  IN SubSeq(config, 1, i - 1) \o SubSeq(config, i + 1, Len(config))
Without(config, d) ==
  LET rest[n \in 0 .. Len(config)] ==
        IF n = 0 THEN <<>> ELSE IF config[n] = d THEN rest[n - 1] ELSE Append(rest[n - 1], config[n])
  IN rest[Len(config)]

Editing == {c \in ApiClients : call[c].at \in {"read", "write", "fill"}}
Request(c, op, d) ==
  /\ aspect = "rules"
  /\ call[c].at = "idle"
  /\ (op = "create" /\ ruleFile # Null) => Len(ruleFile) < MaxRules
  /\ call' = [call EXCEPT ![c] = [Free EXCEPT !.op = op, !.at = "read", !.domain = d]]
  /\ alone' = IF Editing = {} THEN {c} ELSE {}
  /\ UNCHANGED <<aspect, managed, ruleFile, plugins, history, completed>>

(* create and delete read the file whole, refuse or edit what they read... *)
Create(c) ==
  /\ call[c].op = "create" /\ call[c].at = "read"
  /\ LET d == call[c].domain
         text == IF ruleFile = Null THEN <<>> ELSE ruleFile
     IN IF ~managed THEN Answer(c, 404)
        ELSE IF Has(text, d) THEN Answer(c, 500)
        ELSE call' = [call EXCEPT ![c].at = "write", ![c].config = Append(text, d)]
  /\ UNCHANGED <<aspect, managed, ruleFile, alone, plugins, history, completed>>

Delete(c) ==
  /\ call[c].op = "delete" /\ call[c].at = "read"
  /\ LET d == call[c].domain
         text == IF ruleFile = Null THEN <<>> ELSE ruleFile
     IN IF ~managed \/ ~Has(text, d) THEN Answer(c, 404)
        ELSE call' = [call EXCEPT ![c].at = "write", ![c].config = Without(text, d)]
  /\ UNCHANGED <<aspect, managed, ruleFile, alone, plugins, history, completed>>

(* ... and fs::write truncates the file and then writes the text from its  *)
(* start, over the head of what another writer may have put there since.   *)
Truncate(c) ==
  /\ call[c].at = "write"
  /\ ruleFile' = <<>>
  /\ call' = [call EXCEPT ![c].at = "fill"]
  /\ UNCHANGED <<aspect, managed, alone, plugins, history, completed>>

Fill(c) ==
  /\ call[c].at = "fill"
  /\ LET text == call[c].config
     IN ruleFile' = text \o SubSeq(ruleFile, Len(text) + 1, Len(ruleFile))
  /\ Answer(c, IF call[c].op = "create" THEN 201 ELSE 204)
  /\ UNCHANGED <<aspect, managed, alone, plugins, history, completed>>

(* DNS over HTTPS.  A query comes as ?dns= (wire form), as ?name=, as a    *)
(* GET with neither, or as the body of a POST; the Accept header and the   *)
(* form decide the form of the answer.  well says that the query decodes.  *)
Forms == {"dns", "name", "neither", "post"}
AcceptsForm == {"wire", "json", "other"}
AcceptsDnsMessage(form, accept) ==
  accept = "wire" \/ form = "dns" \/ (form = "post" /\ accept # "json")

(* Only the base64 text and a name are decoded here; a message that does   *)
(* not decode goes to the handler, which answers it with an error message. *)
ProcessDoh(form, accept, well) ==
  IF form = "neither" \/ (form \in {"dns", "name"} /\ ~well)
  THEN [status |-> 500, type |-> "error"]
  ELSE [status |-> 200, type |-> IF AcceptsDnsMessage(form, accept) THEN "wire" ELSE "json"]

ServeDns(c, form, accept, well) ==
  /\ aspect = "doh"
  /\ call[c].at = "idle"
  /\ LET r == ProcessDoh(form, accept, well)
     IN call' = [call EXCEPT ![c] = [Free EXCEPT !.op = form, !.at = "done", !.domain = accept,
                                                  !.status = r.status, !.type = r.type]]
  /\ UNCHANGED <<aspect, managed, ruleFile, alone, plugins, history, completed>>

Hangup(c) ==
  /\ call[c].at = "done"
  /\ call' = [call EXCEPT ![c] = Free]
  /\ UNCHANGED <<aspect, managed, ruleFile, alone, plugins, history, completed>>

(* The recorder is registered at start and dropped at shutdown; a query a  *)
(* client sent is put before the others and the oldest one is dropped.     *)
Register ==
  /\ aspect = "history"
  /\ plugins = "unset"
  /\ plugins' = "recorder"
  /\ UNCHANGED <<aspect, managed, ruleFile, call, alone, history, completed>>

ShutdownPlugins ==
  /\ plugins = "recorder"
  /\ plugins' = "dropped"
  /\ UNCHANGED <<aspect, managed, ruleFile, call, alone, history, completed>>

Recorded(origin) == origin = "client"
Truncated(s) == SubSeq(s, 1, IF Len(s) < HistoryLimit THEN Len(s) ELSE HistoryLimit)

QueryComplete(origin) ==
  /\ aspect = "history"
  /\ Recorded(origin) => Len(completed) < MaxCompleted
  /\ LET q == Len(completed) + 1
     IN IF plugins # "recorder" \/ ~Recorded(origin) THEN UNCHANGED <<history, completed>>
        ELSE /\ history' = Truncated(<<q>> \o history)
             /\ completed' = Append(completed, q)
  /\ UNCHANGED <<aspect, managed, ruleFile, call, alone, plugins>>

ApiNext ==
  \/ \E c \in ApiClients :
       \/ \E d \in ApiDomains, op \in {"create", "delete"} : Request(c, op, d)
       \/ Create(c) \/ Delete(c) \/ Truncate(c) \/ Fill(c) \/ Hangup(c)
       \/ \E form \in Forms, accept \in AcceptsForm, well \in BOOLEAN : ServeDns(c, form, accept, well)
  \/ Register \/ ShutdownPlugins
  \/ \E origin \in {"client", "background", "dualstack"} : QueryComplete(origin)

ApiSpec == ApiInit /\ [][ApiNext]_apiVars

------------------------------------------------------------------------------
\* A rule is in the text exactly once.
Once(text, d) == \E i \in DOMAIN text : \A j \in DOMAIN text : text[j] = d <=> j = i

(* The last edit of address.conf, when no other overlapped it, has taken   *)
(* effect: what it created is in the file once, what it deleted is not in  *)
(* it, whatever earlier edits that did overlap have left there.            *)
EditTakesEffect ==
  \A c \in alone :
    /\ call[c].status = 201 => ruleFile # Null /\ Once(ruleFile, call[c].domain)
    /\ call[c].status = 204 => ~Has(ruleFile, call[c].domain)

=============================================================================
