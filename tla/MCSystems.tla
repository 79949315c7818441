------------------------------- MODULE MCSystems -------------------------------
(***************************************************************************)
(* Parts of libusb beside those of Linux, that share no state, one at a    *)
(* time: callbacks for devices that come and go (UsbHotplug: two, one made *)
(* by the thread that handles events); the BSD backends (UsbBsd: OpenBSD   *)
(* with two handles and no failure; both systems with one handle, two      *)
(* configurations and failures); of Windows the condition variables        *)
(* (UsbWinCond), the poll (UsbWinPoll) and the handles (UsbWindows: a      *)
(* composite device of HID and WinUSB; one of WinUSB with two interfaces); *)
(* of Darwin the devices (UsbDarwinDevices: a hub with a device, two       *)
(* contexts) and the handles (UsbDarwin: two handles that share a device;  *)
(* one handle, two configurations, failures).  Which part it is, is chosen *)
(* at the start.                                                           *)
(***************************************************************************)
EXTENDS UsbHotplug

VARIABLES part,
          b_system, b_present, b_config, b_fds, b_cdesc, b_fd, b_held, b_scan, b_place, b_claimed, b_endpoints,
          b_pc, b_node, b_ran, b_lost, b_stale, f_system, f_present, f_config, f_fds, f_cdesc, f_fd, f_held,
          f_scan, f_place, f_claimed, f_endpoints, f_pc, f_node, f_ran, f_lost, f_stale, c_mutex, c_waiters,
          c_not_waiting, c_event, c_pc, c_r2, c_calls, c_due, p_poll_fd, p_lock, p_pending, p_set, p_count,
          p_done, p_pc, p_row, p_pc_writer, p_writes, p_polled, p_told, p_poller, w_files, w_objects, w_alt,
          w_endpoint, w_open, w_hs, w_rows, w_pc, w_left, w_iface, w_fd, w_io, w_asked, w_uneven, w_unset,
          w_lost, w_wrong, v_files, v_objects, v_alt, v_endpoint, v_open, v_hs, v_rows, v_pc, v_left, v_iface,
          v_fd, v_io, v_asked, v_uneven, v_unset, v_lost, v_wrong, d_registry, d_born, d_added, d_removed,
          d_loop, d_mem, d_usb_devs, d_msgs, d_active, d_ready, d_initCount, d_inits, d_creating, d_scan,
          d_work, d_pc, d_held, d_twice, d_dangling, s_plugged, s_config, s_alt, s_owner, s_exclusive,
          s_sources, s_open_count, s_active_config, s_is_open, s_cfSource, s_open, s_claimed, s_usb, s_state,
          s_result, s_timed_out, s_crossed, s_adrift, s_cause, g_plugged, g_config, g_alt, g_owner, g_exclusive,
          g_sources, g_open_count, g_active_config, g_is_open, g_cfSource, g_open, g_claimed, g_usb, g_state,
          g_result, g_timed_out, g_crossed, g_adrift, g_cause

bsdVars ==
  <<b_system, b_present, b_config, b_fds, b_cdesc, b_fd, b_held, b_scan, b_place, b_claimed, b_endpoints, b_pc,
  b_node, b_ran, b_lost, b_stale>>
bsdFailingVars ==
  <<f_system, f_present, f_config, f_fds, f_cdesc, f_fd, f_held, f_scan, f_place, f_claimed, f_endpoints, f_pc,
  f_node, f_ran, f_lost, f_stale>>
conditionVars ==
  <<c_mutex, c_waiters, c_not_waiting, c_event, c_pc, c_r2, c_calls, c_due>>
pollVars ==
  <<p_poll_fd, p_lock, p_pending, p_set, p_count, p_done, p_pc, p_row, p_pc_writer, p_writes, p_polled, p_told,
  p_poller>>
compositeVars ==
  <<w_files, w_objects, w_alt, w_endpoint, w_open, w_hs, w_rows, w_pc, w_left, w_iface, w_fd, w_io, w_asked,
  w_uneven, w_unset, w_lost, w_wrong>>
winusbVars ==
  <<v_files, v_objects, v_alt, v_endpoint, v_open, v_hs, v_rows, v_pc, v_left, v_iface, v_fd, v_io, v_asked,
  v_uneven, v_unset, v_lost, v_wrong>>
darwinDevicesVars ==
  <<d_registry, d_born, d_added, d_removed, d_loop, d_mem, d_usb_devs, d_msgs, d_active, d_ready, d_initCount,
  d_inits, d_creating, d_scan, d_work, d_pc, d_held, d_twice, d_dangling>>
sharingVars ==
  <<s_plugged, s_config, s_alt, s_owner, s_exclusive, s_sources, s_open_count, s_active_config, s_is_open,
  s_cfSource, s_open, s_claimed, s_usb, s_state, s_result, s_timed_out, s_crossed, s_adrift, s_cause>>
darwinFailingVars ==
  <<g_plugged, g_config, g_alt, g_owner, g_exclusive, g_sources, g_open_count, g_active_config, g_is_open,
  g_cfSource, g_open, g_claimed, g_usb, g_state, g_result, g_timed_out, g_crossed, g_adrift, g_cause>>
sumVars ==
  <<part, vars, bsdVars, bsdFailingVars, conditionVars, pollVars, compositeVars, winusbVars, darwinDevicesVars,
  sharingVars, darwinFailingVars>>

\* Both callbacks are for the device that comes and goes.
MCWanted == [k \in {1, 2} |-> {"d"}]
MCEvents == [k \in {1, 2} |-> {"arrived", "left"}]

\* Interface 0 of the composite device is a keyboard.
MCApi == 0 :> "hid" @@ 1 :> "winusb"
MCWinusb == 0 :> "winusb" @@ 1 :> "winusb"
MCWindowsEndpoints == (0 :> (0 :> {1} @@ 1 :> {})) @@ (1 :> (0 :> {2} @@ 1 :> {2, 3}))
WindowsTransfer(id, endpoint, target, hid) ==
  [id |-> id, handle |-> "a", endpoint |-> endpoint, target |-> target, hid |-> hid]
MCCompositeTransfers == {WindowsTransfer(1, 2, -1, FALSE), WindowsTransfer(2, 0, 0, FALSE)}
MCCompositeFailures == {"refused", "open", "initialize", "overflow"}
MCWinusbTransfers == {WindowsTransfer(1, 0, -1, TRUE), WindowsTransfer(2, 2, -1, FALSE)}
MCWinusbFailures == {"initialize", "associated", "descriptor", "setting", "refused"}

DarwinTransfer(id, h, endpoint, type) == [id |-> id, handle |-> h, endpoint |-> endpoint, type |-> type]
MCSharedEndpoints == 0 :> (0 :> {1} @@ 1 :> {1})
MCSharedTransfers == {DarwinTransfer(3, "b", 1, "interrupt")}
MCFailingEndpoints == (0 :> (0 :> {} @@ 1 :> {1})) @@ (1 :> (0 :> {2} @@ 1 :> {2}))
MCFailingTransfers == {DarwinTransfer(2, "a", 1, "bulk"), DarwinTransfer(3, "a", 1, "interrupt")}
MCFailingFailures == {"open", "set", "async", "endpoints", "altsetting", "reset"}

B == INSTANCE UsbBsd WITH
  Systems <- {"OpenBSD"}, Places <- {1, 2}, Ugen <- {1, 2}, Endpoints <- {1}, Configs <- {1}, Handles <- {"a",
  "b"}, Interfaces <- {0}, Leaving <- {}, MaxFd <- 2, MaxLost <- 0, Again <- FALSE, Shared <- FALSE, Several <-
  FALSE,
  system <- b_system, present <- b_present, config <- b_config, fds <- b_fds, cdesc <- b_cdesc, fd <- b_fd, held
  <- b_held, scan <- b_scan, place <- b_place, claimed <- b_claimed, endpoints <- b_endpoints, pc <- b_pc, node
  <- b_node, ran <- b_ran, lost <- b_lost, stale <- b_stale

F == INSTANCE UsbBsd WITH
  Systems <- {"OpenBSD", "NetBSD"}, Places <- {1}, Ugen <- {1}, Endpoints <- {1}, Configs <- {1, 2}, Handles <-
  {"a"}, Interfaces <- {0}, Leaving <- {1}, MaxFd <- 3, MaxLost <- 1, Again <- TRUE, Shared <- FALSE, Several <-
  FALSE,
  system <- f_system, present <- f_present, config <- f_config, fds <- f_fds, cdesc <- f_cdesc, fd <- f_fd, held
  <- f_held, scan <- f_scan, place <- f_place, claimed <- f_claimed, endpoints <- f_endpoints, pc <- f_pc, node
  <- f_node, ran <- f_ran, lost <- f_lost, stale <- f_stale

C == INSTANCE UsbWinCond WITH
  Threads <- {"a", "b", "c"}, Patient <- {"a"}, MaxCalls <- 3,
  mutex <- c_mutex, waiters <- c_waiters, not_waiting <- c_not_waiting, event <- c_event, pc <- c_pc, r2 <-
  c_r2, calls <- c_calls, due <- c_due

P == INSTANCE UsbWinPoll WITH
  MAX_FDS <- 3, MAXIMUM_WAIT_OBJECTS <- 3, Transfers <- {"s", "t"}, Writers <- {"w"}, MaxWrites <- 2,
  poll_fd <- p_poll_fd, lock <- p_lock, pending <- p_pending, set <- p_set, count <- p_count, done <- p_done, pc
  <- p_pc, row <- p_row, pc_writer <- p_pc_writer, writes <- p_writes, polled <- p_polled, told <- p_told,
  poller <- p_poller

W == INSTANCE UsbWindows WITH
  Handles <- {"a"}, Interfaces <- {0, 1}, Api <- MCApi, Composite <- TRUE, Restricted <- {0}, Endpoints <-
  MCWindowsEndpoints, Transfers <- MCCompositeTransfers, Failures <- MCCompositeFailures, MaxRows <- 2, MaxCount
  <- 2, Careless <- FALSE, ResetsFlying <- FALSE,
  files <- w_files, objects <- w_objects, alt <- w_alt, endpoint <- w_endpoint, open <- w_open, hs <- w_hs, rows
  <- w_rows, pc <- w_pc, left <- w_left, iface <- w_iface, fd <- w_fd, io <- w_io, asked <- w_asked, uneven <-
  w_uneven, unset <- w_unset, lost <- w_lost, wrong <- w_wrong

V == INSTANCE UsbWindows WITH
  Handles <- {"a"}, Interfaces <- {0, 1}, Api <- MCWinusb, Composite <- FALSE, Restricted <- {}, Endpoints <-
  MCWindowsEndpoints, Transfers <- MCWinusbTransfers, Failures <- MCWinusbFailures, MaxRows <- 1, MaxCount <- 2,
  Careless <- FALSE, ResetsFlying <- FALSE,
  files <- v_files, objects <- v_objects, alt <- v_alt, endpoint <- v_endpoint, open <- v_open, hs <- v_hs, rows
  <- v_rows, pc <- v_pc, left <- v_left, iface <- v_iface, fd <- v_fd, io <- v_io, asked <- v_asked, uneven <-
  v_uneven, unset <- v_unset, lost <- v_lost, wrong <- v_wrong

D == INSTANCE UsbDarwinDevices WITH
  Sessions <- {1, 2}, Hub <- <<0, 1>>, First <- 1, Poor <- {2}, Contexts <- {"a", "b"}, MaxInits <- 2, Racing <-
  FALSE,
  registry <- d_registry, born <- d_born, added <- d_added, removed <- d_removed, loop <- d_loop, mem <- d_mem,
  usb_devs <- d_usb_devs, msgs <- d_msgs, active <- d_active, ready <- d_ready, initCount <- d_initCount, inits
  <- d_inits, creating <- d_creating, scan <- d_scan, work <- d_work, pc <- d_pc, held <- d_held, twice <-
  d_twice, dangling <- d_dangling

S == INSTANCE UsbDarwin WITH
  Handles <- {"a", "b"}, Configs <- {1}, InterfacesOf <- <<{0}>>, Endpoints <- MCSharedEndpoints, Transfers <-
  MCSharedTransfers, Failures <- {"set"}, MaxSources <- 1,
  plugged <- s_plugged, config <- s_config, alt <- s_alt, owner <- s_owner, exclusive <- s_exclusive, sources <-
  s_sources, open_count <- s_open_count, active_config <- s_active_config, is_open <- s_is_open, cfSource <-
  s_cfSource, open <- s_open, claimed <- s_claimed, usb <- s_usb, state <- s_state, result <- s_result,
  timed_out <- s_timed_out, crossed <- s_crossed, adrift <- s_adrift, cause <- s_cause

G == INSTANCE UsbDarwin WITH
  Handles <- {"a"}, Configs <- {1, 2}, InterfacesOf <- <<{0}, {0, 1}>>, Endpoints <- MCFailingEndpoints,
  Transfers <- MCFailingTransfers, Failures <- MCFailingFailures, MaxSources <- 2,
  plugged <- g_plugged, config <- g_config, alt <- g_alt, owner <- g_owner, exclusive <- g_exclusive, sources <-
  g_sources, open_count <- g_open_count, active_config <- g_active_config, is_open <- g_is_open, cfSource <-
  g_cfSource, open <- g_open, claimed <- g_claimed, usb <- g_usb, state <- g_state, result <- g_result,
  timed_out <- g_timed_out, crossed <- g_crossed, adrift <- g_adrift, cause <- g_cause

ASSUME
  /\ ~Hasty
  /\ B!UsbBsdAssumption
  /\ F!UsbBsdAssumption
  /\ C!UsbWinCondAssumption
  /\ P!UsbWinPollAssumption /\ P!FewAtATime
  /\ W!UsbWindowsAssumption
  /\ V!UsbWindowsAssumption
  /\ D!UsbDarwinDevicesAssumption
  /\ S!UsbDarwinAssumption
  /\ G!UsbDarwinAssumption

\* The parts that are not chosen are as good in one state as in another.
SumInit ==
  /\ part \in {"hotplug", "bsd", "bsd failing", "condition", "poll",
               "windows composite", "windows", "darwin devices", "darwin sharing", "darwin failing"}
  /\ Init /\ B!Init /\ F!Init /\ C!Init /\ P!Init /\ W!Init /\ V!Init /\ D!Init /\ S!Init /\ G!Init
  /\ part # "hotplug" => life = [d \in Devices |-> "in"]
  /\ part # "bsd failing" => f_system = "OpenBSD"
  /\ part # "darwin devices" => d_born = 0
  /\ part # "darwin sharing" => s_config = 0 /\ s_exclusive = "none"
  /\ part # "darwin failing" => g_config = 0 /\ g_exclusive = "none"

Hotplug(A) ==
  /\ part = "hotplug" /\ A
  /\ UNCHANGED <<part, bsdVars, bsdFailingVars, conditionVars, pollVars, compositeVars, winusbVars,
                 darwinDevicesVars, sharingVars, darwinFailingVars>>
Bsd(A) ==
  /\ part = "bsd" /\ A
  /\ UNCHANGED <<part, vars, bsdFailingVars, conditionVars, pollVars, compositeVars, winusbVars,
                 darwinDevicesVars, sharingVars, darwinFailingVars>>
BsdFailing(A) ==
  /\ part = "bsd failing" /\ A
  /\ UNCHANGED <<part, vars, bsdVars, conditionVars, pollVars, compositeVars, winusbVars, darwinDevicesVars,
                 sharingVars, darwinFailingVars>>
Condition(A) ==
  /\ part = "condition" /\ A
  /\ UNCHANGED <<part, vars, bsdVars, bsdFailingVars, pollVars, compositeVars, winusbVars, darwinDevicesVars,
                 sharingVars, darwinFailingVars>>
Poll(A) ==
  /\ part = "poll" /\ A
  /\ UNCHANGED <<part, vars, bsdVars, bsdFailingVars, conditionVars, compositeVars, winusbVars,
                 darwinDevicesVars, sharingVars, darwinFailingVars>>
Composite(A) ==
  /\ part = "windows composite" /\ A
  /\ UNCHANGED <<part, vars, bsdVars, bsdFailingVars, conditionVars, pollVars, winusbVars, darwinDevicesVars,
                 sharingVars, darwinFailingVars>>
Winusb(A) ==
  /\ part = "windows" /\ A
  /\ UNCHANGED <<part, vars, bsdVars, bsdFailingVars, conditionVars, pollVars, compositeVars, darwinDevicesVars,
                 sharingVars, darwinFailingVars>>
DarwinDevices(A) ==
  /\ part = "darwin devices" /\ A
  /\ UNCHANGED <<part, vars, bsdVars, bsdFailingVars, conditionVars, pollVars, compositeVars, winusbVars,
                 sharingVars, darwinFailingVars>>
Sharing(A) ==
  /\ part = "darwin sharing" /\ A
  /\ UNCHANGED <<part, vars, bsdVars, bsdFailingVars, conditionVars, pollVars, compositeVars, winusbVars,
                 darwinDevicesVars, darwinFailingVars>>
DarwinFailing(A) ==
  /\ part = "darwin failing" /\ A
  /\ UNCHANGED <<part, vars, bsdVars, bsdFailingVars, conditionVars, pollVars, compositeVars, winusbVars,
                 darwinDevicesVars, sharingVars>>

SumNext ==
  \/ Hotplug(Next)
  \/ Bsd(B!Next)
  \/ BsdFailing(F!Next)
  \/ Condition(C!Next)
  \/ Poll(P!Next)
  \/ Composite(W!Next)
  \/ Winusb(V!Next)
  \/ DarwinDevices(D!Next)
  \/ Sharing(S!Next)
  \/ DarwinFailing(G!Next)

\* The fairness of the parts: their threads go on, events are handled and what the
\* kernel has ended is answered; a thread that waits for the mutex of a condition
\* variable gets it.
SumSpec ==
  /\ SumInit /\ [][SumNext]_sumVars
  /\ WF_vars(part = "hotplug" /\ (Handle \/ \E k \in Callbacks : Proceed(k)))
  /\ \A t \in {"a", "b", "c"} : /\ WF_conditionVars(part = "condition" /\ (C!Unlock(t) \/ C!Wake(t)))
                              /\ SF_conditionVars(part = "condition" /\ C!Return(t))
  /\ WF_pollVars(part = "poll" /\ P!Poll)
  /\ \A t \in {"s", "t"} : WF_pollVars(part = "poll" /\ (P!Submit(t) \/ P!Finishes(t)))
  /\ WF_pollVars(part = "poll" /\ P!Count("w"))
  /\ \A r \in {1, 2} : WF_compositeVars(part = "windows composite" /\ W!HandleEvents(r))
  /\ WF_winusbVars(part = "windows" /\ V!HandleEvents(1))
  /\ WF_darwinDevicesVars(part = "darwin devices" /\ D!Loop)
  /\ \A c \in {"a", "b"} : WF_darwinDevicesVars(part = "darwin devices" /\ D!Proceed(c))
  /\ \A t \in MCSharedTransfers : WF_sharingVars(part = "darwin sharing" /\ S!Serve(t))
  /\ \A t \in MCFailingTransfers : WF_darwinFailingVars(part = "darwin failing" /\ G!Serve(t))

\* The numbers the BSD backends keep stand for what they were kept for (see UsbBsd).
DescriptorsServeTheirDevice ==
  /\ B!RequestsReachTheirDevice /\ B!OnlyFailuresLeak /\ B!CachedIsActive
  /\ F!RequestsReachTheirDevice /\ F!OnlyFailuresLeak /\ F!CachedIsActive

\* Whoever waits on Windows is known to whoever wakes it (see UsbWinCond, UsbWinPoll).
WaitsAreKnown == C!WaitersAreListed /\ P!RowsAreOwn /\ P!PipeAgrees /\ P!PollIsTrue

\* Interfaces and descriptors are had by whom they serve (see UsbWindows).
InterfacesServeTheirTransfers == W!Safe /\ V!Safe

\* Cached devices outlive those that use them, and lists are true (see UsbDarwinDevices).
CacheIsTrue == D!CachedWhileUsed /\ D!ListsAreTrue /\ D!AllIsFreed


\* Who waits in the part there is: for a record to be freed, a wait to end, a context to
\* be made or given up; and of the transfers, which come again and again, one, to be
\* reported.
SomebodyWaits ==
  \/ part = "hotplug" /\ \E k \in Callbacks : Waits(k)
  \/ part = "condition" /\ c_due # {}
  \/ part = "poll" /\ p_pc["s"] = "submitted"
  \/ part = "windows composite" /\ \E t \in W!Flying : t.endpoint = 0 /\ w_io[t] # "pending"
  \/ part = "windows" /\ \E t \in V!Flying : t.endpoint = 0 /\ v_io[t] # "pending"
  \/ part = "darwin devices" /\ \E c \in {"a", "b"} : D!Waits(c)
  \/ part = "darwin sharing" /\ \E t \in MCSharedTransfers : s_state[t] = "answered"
  \/ part = "darwin failing" /\ \E t \in MCFailingTransfers : t.id = 2 /\ g_state[t] = "answered"

===============================================================================
