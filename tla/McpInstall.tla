----------------------------- MODULE McpInstall -----------------------------
(***************************************************************************)
(* `proxy install-mcp' and `proxy uninstall-mcp'                           *)
(* (cli/internal/cmd/proxy_install_mcp.go, proxy_uninstall_mcp.go): the    *)
(* MCP client's configuration, the backup file beside it, a process that   *)
(* may end at any time, a user who edits the configuration and upgrades    *)
(* the tool to a binary with another path.                                 *)
(* A server's command is a sequence: the wrappers from the outermost one,  *)
(* as binaries, and then the command the user gave.  << >> is no entry.    *)
(* os.WriteFile truncates a file and then writes it: a process that ends   *)
(* in between, or whose write fails, leaves a file that is no JSON.  One   *)
(* command runs at a time, and nobody edits a file while it is truncated.  *)
(***************************************************************************)
EXTENDS Naturals, Sequences, SequencesExt

CONSTANTS
  Names,        \* servers in the configuration
  Commands,     \* commands a user gives
  Malformed,    \* an entry that cannot be parsed or has no command
  MaxBinary,    \* bound: paths of the tool, 1 .. MaxBinary
  MaxEdits      \* bound: edits by the user

ASSUME McpAssumption == MaxBinary \in Nat \ {0} /\ MaxEdits \in Nat

VARIABLES
  mcpConfig,    \* mcpServers of the configuration
  mcpBackup,    \* .skillledger-mcp-backup.json: the commands before wrapping
  self,         \* os.Executable()
  mcpPc,        \* where the running command is
  read,         \* the configuration the running command has read
  data,         \* what it is about to write into the file it has truncated
  torn,         \* the files that cannot be parsed; their entries are gone
  edits,        \* the number of edits
  given,        \* ghost: the command the user gave last
  edited,       \* ghost: entries edited under a backup or a running command
  mcpCut           \* ghost: what is being, or was to be, rewritten in a torn
                \* configuration

mcpVars == << mcpConfig, mcpBackup, self, mcpPc, read, data, torn, edits,
              given, edited, mcpCut >>

Absent == << >>
Entries == {Absent} \cup {<< c >> : c \in Commands \cup {Malformed}}
NoBackup == [n \in Names |-> Absent]

McpTypeOK ==
  /\ \A n \in Names :
       /\ Len(mcpConfig[n]) <= MaxBinary + 1
       /\ mcpConfig[n] # Absent =>
            Last(mcpConfig[n]) \in Commands \cup {Malformed}
       /\ Len(mcpBackup[n]) <= MaxBinary
       /\ mcpBackup[n] # Absent => Last(mcpBackup[n]) \in Commands
  /\ self \in 1 .. MaxBinary
  /\ mcpPc \in {"idle", "backup", "merged", "config", "wrapped", "restore",
                "restored", "remove"}
  /\ torn \subseteq {"config", "backup"}
  /\ edits \in 0 .. MaxEdits
  /\ given \in [Names -> Entries]
  /\ edited \subseteq Names /\ mcpCut \subseteq Names

McpInit ==
  /\ mcpConfig \in [Names -> Entries]
  /\ mcpBackup = NoBackup
  /\ self = 1
  /\ mcpPc = "idle"
  /\ read = NoBackup /\ data = NoBackup
  /\ torn = {}
  /\ edits = 0
  /\ given = mcpConfig
  /\ edited = {} /\ mcpCut = {}

\* Entries that are rewritten: neither malformed nor wrapped by this binary.
ToWrap(c) ==
  {n \in Names : c[n] \notin {Absent, << Malformed >>} /\ Head(c[n]) # self}

\* Wraps without the command of the entry.
WrapBare(entry) == << self >> \o Tail(entry)

\* newArgs: the entry's command and arguments behind wrap-mcp.
Wrap(entry) == << self >> \o entry

\* install-mcp reads the configuration and stops if it cannot be parsed or
\* there is nothing to wrap.
InstallReads ==
  /\ mcpPc = "idle"
  /\ "config" \notin torn
  /\ ToWrap(mcpConfig) # {}
  /\ read' = mcpConfig
  /\ mcpPc' = "backup"
  /\ UNCHANGED << mcpConfig, mcpBackup, self, data, torn, edits, given, edited,
                  mcpCut >>

\* The entries to be wrapped are merged into the backup of earlier runs, which
\* counts as empty if it is torn, and the backup is truncated.
MergeBackup ==
  /\ mcpPc = "backup"
  /\ data' = [n \in Names |-> IF n \in ToWrap(read) THEN read[n]
                                                    ELSE mcpBackup[n]]
  /\ mcpBackup' = NoBackup
  /\ torn' = torn \cup {"backup"}
  /\ mcpPc' = "merged"
  /\ UNCHANGED << mcpConfig, self, read, edits, given, edited, mcpCut >>

WriteBackup ==
  /\ mcpPc = "merged"
  /\ mcpBackup' = data
  /\ torn' = torn \ {"backup"}
  /\ data' = NoBackup
  /\ mcpPc' = "config"
  /\ UNCHANGED << mcpConfig, self, read, edits, given, edited, mcpCut >>

\* The configuration is truncated, to be written with the entries in `which'
\* replaced by those of `new'.
TruncateConfig(which, new) ==
  /\ data' = [n \in Names |-> IF n \in which THEN new[n] ELSE read[n]]
  /\ mcpConfig' = NoBackup
  /\ torn' = torn \cup {"config"}
  /\ mcpCut' = which
  /\ UNCHANGED << mcpBackup, self, read, edits, given, edited >>

WriteConfig ==
  /\ mcpConfig' = data
  /\ torn' = torn \ {"config"}
  /\ mcpCut' = {}
  /\ data' = NoBackup
  /\ UNCHANGED << mcpBackup, self, edits, given, edited >>

\* install-mcp writes the configuration as it read it, with entries wrapped.
WrapEntries ==
  /\ mcpPc = "config"
  /\ TruncateConfig(ToWrap(read), [n \in Names |-> Wrap(read[n])])
  /\ mcpPc' = "wrapped"

WriteWrapped ==
  /\ mcpPc = "wrapped"
  /\ WriteConfig
  /\ mcpPc' = "idle"
  /\ read' = NoBackup

\* uninstall-mcp reads the backup, without which it stops, and the
\* configuration; it stops too if one of them cannot be parsed.
UninstallReads ==
  /\ mcpPc = "idle"
  /\ torn = {}
  /\ mcpBackup # NoBackup
  /\ read' = mcpConfig
  /\ mcpPc' = "restore"
  /\ UNCHANGED << mcpConfig, mcpBackup, self, data, torn, edits, given, edited,
                  mcpCut >>

\* Entries that are still there get the command of the backup.
RestoreEntries ==
  /\ mcpPc = "restore"
  /\ TruncateConfig({n \in Names : read[n] # Absent /\ mcpBackup[n] # Absent},
                    mcpBackup)
  /\ mcpPc' = "restored"

WriteRestored ==
  /\ mcpPc = "restored"
  /\ WriteConfig
  /\ mcpPc' = "remove"
  /\ UNCHANGED read

\* The backup is removed.  What was edited is judged no further.
RemoveBackup ==
  /\ mcpPc = "remove"
  /\ mcpBackup' = NoBackup
  /\ mcpPc' = "idle"
  /\ read' = NoBackup
  /\ given' = [n \in Names |-> IF n \notin edited THEN given[n]
                               ELSE IF mcpConfig[n] = Absent THEN Absent
                               ELSE << Last(mcpConfig[n]) >>]
  /\ edited' = {}
  /\ UNCHANGED << mcpConfig, self, data, torn, edits, mcpCut >>

\* The process ends between two steps, or a write fails after the truncation.
McpCrash ==
  /\ mcpPc # "idle"
  /\ mcpPc' = "idle"
  /\ read' = NoBackup /\ data' = NoBackup
  /\ UNCHANGED << mcpConfig, mcpBackup, self, torn, edits, given, edited, mcpCut >>

\* The user, or the client, changes, adds or removes an entry.
Edit(n, entry) ==
  /\ edits < MaxEdits
  /\ "config" \notin torn
  /\ entry # mcpConfig[n]
  /\ mcpConfig' = [mcpConfig EXCEPT ![n] = entry]
  /\ edits' = edits + 1
  /\ given' = [given EXCEPT ![n] = entry]
  /\ edited' = IF mcpPc # "idle" \/ mcpBackup[n] # Absent
               THEN edited \cup {n} ELSE edited
  /\ UNCHANGED << mcpBackup, self, mcpPc, read, data, torn, mcpCut >>

\* The user writes a configuration that was left torn anew.
Rewrite(c) ==
  /\ edits < MaxEdits
  /\ mcpPc = "idle"
  /\ "config" \in torn
  /\ mcpConfig' = c
  /\ torn' = torn \ {"config"}
  /\ edits' = edits + 1
  /\ given' = c
  /\ edited' = edited \cup {n \in Names : mcpBackup[n] # Absent}
  /\ mcpCut' = {}
  /\ UNCHANGED << mcpBackup, self, mcpPc, read, data >>

\* The tool is installed under another path.
Upgrade ==
  /\ mcpPc = "idle"
  /\ self < MaxBinary
  /\ self' = self + 1
  /\ UNCHANGED << mcpConfig, mcpBackup, mcpPc, read, data, torn, edits, given,
                  edited, mcpCut >>

McpNext ==
  \/ InstallReads
  \/ MergeBackup
  \/ WriteBackup
  \/ WrapEntries
  \/ WriteWrapped
  \/ UninstallReads
  \/ RestoreEntries
  \/ WriteRestored
  \/ RemoveBackup
  \/ McpCrash
  \/ \E n \in Names, entry \in Entries : Edit(n, entry)
  \/ \E c \in [Names -> Entries] : Rewrite(c)
  \/ Upgrade

McpSpec == McpInit /\ [][McpNext]_mcpVars

-----------------------------------------------------------------------------
(* Installing, uninstalling, upgrading and crashing in any order: unless the
   user edits the entry while a backup of it exists or a command runs, a
   configuration that can be parsed has the command a server was given,
   innermost, and where a write that was cut has emptied the configuration,
   the command of every server that was being rewritten is in the backup.
   Entries that were not being rewritten are lost with it. *)
CommandsSurvive ==
  \A n \in Names \ edited :
    /\ "config" \notin torn =>
         IF given[n] = Absent THEN mcpConfig[n] = Absent
         ELSE mcpConfig[n] # Absent /\ << Last(mcpConfig[n]) >> = given[n]
    /\ n \in mcpCut =>
         mcpBackup[n] # Absent /\ << Last(mcpBackup[n]) >> = given[n]
=============================================================================
