---------------------------- MODULE PlatformProxy ----------------------------
(***************************************************************************)
(* SystemProxySession on Linux, where the settings are keys of gsettings,  *)
(* and on Windows, where they are values of the registry that programs     *)
(* read again only when they are notified.  One step is one command or one *)
(* file operation; each may fail, and the application may end between two. *)
(* SystemProxy is the same session on macOS.                               *)
(***************************************************************************)
EXTENDS Naturals, Sequences

CONSTANTS Theirs,   \* values that the user gives to a key; "absent" in the registry
          NoFile    \* no recovery file, or nothing remembered

VARIABLES
  platform,  \* linux or windows
  registry,  \* the settings, by key
  noticed,   \* the settings as running programs know them
  meant,     \* history: the settings as the user last left them
  kept,      \* contents of system-proxy.recovery
  took,      \* SystemProxySession: what it remembers, and whether it is applied
  work,      \* the running call: its stage, purpose, snapshot, keys to come
  gone       \* history: whether a recovery file is worthless or a failure passed for none

platformVars == <<platform, registry, noticed, meant, kept, took, work, gone>>

\* In the order of the commands, the same for applying and restoring.  "http"
\* stands for the host and the port of http and of https, "socks" for the two
\* of socks.
Keys ==
  IF platform = "linux" THEN <<"http", "socks", "mode">>
                        ELSE <<"ProxyServer", "ProxyEnable">>

Named == {Keys[i] : i \in 1 .. Len(Keys)}
Possible == IF platform = "linux" THEN Theirs \ {"absent"} ELSE Theirs

\* query takes the last word of the line that `reg` prints: for an empty value
\* that is its type.
Read(value) == IF platform = "windows" /\ value = "blank" THEN "REG_SZ" ELSE value

\* What enable writes when the kernel listens for `ports`.
Ours(key, ports) ==
  CASE key = "mode" -> "manual"
    [] key = "ProxyEnable" -> "on"
    [] key = "ProxyServer" -> "manis"
    [] OTHER -> IF key \in ports THEN "manis" ELSE "blank"

\* What a recovery file may say.
Values == Theirs \union {"absent", "REG_SZ", "manual", "on", "manis", "blank"}
Contents ==
  UNION {[ks -> Values] : ks \in {{"http", "socks", "mode"}, {"ProxyServer", "ProxyEnable"}}}
ASSUME NoFileAssumption == NoFile \notin Contents

Nowhere == [at |-> "idle", why |-> "none", snap |-> NoFile, left |-> <<>>, ports |-> {}]
Forgotten == [previous |-> NoFile, applied |-> FALSE]

PlatformInit ==
  /\ platform \in {"linux", "windows"}
  /\ \E v \in Possible : registry = [k \in Named |-> v]
  /\ noticed = registry /\ meant = registry
  /\ kept = NoFile /\ took = Forgotten /\ gone = FALSE
  /\ work = [Nowhere EXCEPT !.at = "down"]

-----------------------------------------------------------------------------
Over == work' = Nowhere
Restoring(why, snap) ==
  work' = [work EXCEPT !.at = "set", !.why = why, !.snap = snap, !.left = Keys]
Silently == UNCHANGED <<platform, meant, gone>>

\* The application starts: recover_stale.  A file that cannot be read stays.
StartApplication ==
  /\ work.at = "down"
  /\ \/ Over
     \/ kept # NoFile /\ Restoring("recover", kept)
  /\ UNCHANGED <<registry, noticed, kept, took>> /\ Silently

\* The ports that the kernel listens on.  On Windows one stands in for another.
Listening == IF platform = "linux" THEN SUBSET {"http", "socks"} \ {{}} ELSE {{"http", "socks"}}

\* enable_with_language: what is still applied is undone first.
TakeOver == \E ports \in Listening :
  /\ work.at = "idle"
  /\ IF took.applied
       THEN work' = [Nowhere EXCEPT !.at = "set", !.why = "reenable", !.left = Keys,
                                    !.snap = took.previous, !.ports = ports]
       ELSE work' = [Nowhere EXCEPT !.at = "read", !.ports = ports]
  /\ UNCHANGED <<registry, noticed, kept, took>> /\ Silently

\* `reg` fails with the status by which it says that there is no such value.
Misreported(keys) == platform = "windows" /\ \E k \in keys : registry[k] # "absent"

\* A failed command, or the snapshot, in which values that `reg` could not read
\* are recorded as absent.
ReadKeys ==
  /\ work.at = "read"
  /\ \/ Over /\ UNCHANGED gone
     \/ \E unread \in SUBSET Named :
          /\ unread = {} \/ Misreported(unread)
          /\ work' = [work EXCEPT !.at = "write",
               !.snap = [k \in Named |-> IF k \in unread THEN "absent" ELSE Read(registry[k])]]
          /\ gone' = (gone \/ unread # {})
  /\ UNCHANGED <<platform, registry, noticed, meant, kept, took>>

WriteFile ==
  /\ work.at = "write"
  /\ \/ Over /\ UNCHANGED <<kept, gone>>
     \/ /\ kept' = work.snap
        /\ work' = [work EXCEPT !.at = "set", !.why = "enable", !.left = Keys]
        /\ gone' = (gone \/ kept \notin {NoFile, work.snap})
  /\ UNCHANGED <<platform, registry, noticed, meant, took>>

Finished ==
  IF work.why = "enable"
    THEN Over /\ took' = [previous |-> work.snap, applied |-> TRUE]
    ELSE work' = [work EXCEPT !.at = "delete"] /\ UNCHANGED took
Fails ==
  /\ IF work.why = "enable" THEN Restoring("rollback", work.snap) ELSE Over
  /\ UNCHANGED took

\* set, add or delete, for the next key.  A value that `reg` could not delete
\* passes for one that was not there.
SetKey ==
  /\ work.at = "set" /\ work.left # <<>>
  /\ LET key == Head(work.left)
         value == IF work.why = "enable" THEN Ours(key, work.ports) ELSE work.snap[key]
     IN \/ /\ registry' = [registry EXCEPT ![key] = value]
           /\ noticed' = IF platform = "linux" THEN registry' ELSE noticed
           /\ work' = [work EXCEPT !.left = Tail(@)] /\ UNCHANGED <<took, gone>>
        \/ UNCHANGED <<registry, noticed, gone>> /\ Fails
        \/ /\ value = "absent" /\ Misreported({key}) /\ gone' = TRUE
           /\ work' = [work EXCEPT !.left = Tail(@)] /\ UNCHANGED <<registry, noticed, took>>
  /\ UNCHANGED <<platform, meant, kept>>

\* Mutant: only what is applied is announced.
NotifyOfOurs ==
  /\ work.at = "set" /\ work.left = <<>>
  /\ \/ /\ noticed' = IF work.why = "enable" THEN registry ELSE noticed
        /\ Finished
     \/ platform = "windows" /\ UNCHANGED noticed /\ Fails
  /\ UNCHANGED <<registry, kept>> /\ Silently

\* notify, after the last key; on Linux there is nothing to do.
Notify ==
  /\ work.at = "set" /\ work.left = <<>>
  /\ \/ noticed' = registry /\ Finished
     \/ platform = "windows" /\ UNCHANGED noticed /\ Fails
  /\ UNCHANGED <<registry, kept>> /\ Silently

\* delete_recovery_snapshot, after all has been restored.
DeleteFile ==
  /\ work.at = "delete"
  /\ \/ Over /\ UNCHANGED <<kept, took>>
     \/ /\ kept' = NoFile
        /\ took' = [took EXCEPT !.applied = FALSE]
        /\ IF work.why = "reenable"
             THEN work' = [Nowhere EXCEPT !.at = "read", !.ports = work.ports]
             ELSE Over
  /\ UNCHANGED <<registry, noticed>> /\ Silently

\* disable_with_language and shutdown_with_language.
GiveBack ==
  /\ work.at = "idle" /\ took.applied
  /\ Restoring("disable", took.previous)
  /\ UNCHANGED <<registry, noticed, kept, took>> /\ Silently

-----------------------------------------------------------------------------
\* The user gives the settings another value, all of them here.
UserSets == \E v \in Possible :
  /\ work.at \in {"down", "idle"}
  /\ registry' = [k \in Named |-> v]
  /\ noticed' = registry' /\ meant' = registry'
  /\ gone' = (gone \/ kept # NoFile)
  /\ UNCHANGED <<platform, kept, took, work>>

ApplicationEnds ==
  /\ work.at # "down"
  /\ work' = [Nowhere EXCEPT !.at = "down"] /\ took' = Forgotten
  /\ UNCHANGED <<registry, noticed, kept>> /\ Silently

PlatformNext ==
  \/ StartApplication \/ TakeOver \/ ReadKeys \/ WriteFile \/ SetKey \/ Notify
  \/ DeleteFile \/ GiveBack \/ UserSets \/ ApplicationEnds
PlatformSpec == PlatformInit /\ [][PlatformNext]_platformVars

-----------------------------------------------------------------------------
\* Whatever command reports a failure and wherever the application ends, each
\* setting is as the user left it or the recovery file knows it; and without a
\* recovery file the running programs use what is set.  Excepted are recovery
\* files that an enable overwrote after a failed recovery, settings that the
\* user edited under a recovery file, and failures of `reg` that pass for an
\* absent value: one not read is deleted by the restoration, one not deleted
\* stays Manis' own.  An empty value of the registry comes back as the word
\* that names its type (enable, restore and recover_stale of linux.rs and
\* windows.rs).
ProxyComesBack ==
  /\ ~gone => \A k \in Named :
       \/ Read(registry[k]) = Read(meant[k])
       \/ kept # NoFile /\ kept[k] = Read(meant[k])
  /\ kept = NoFile => noticed = registry
=============================================================================
