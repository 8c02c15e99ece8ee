# TLA+ models of the ConWeave/CPEM switch data plane

These modules model the switch data plane in `src/src/point-to-point/model/`:

- `switch-mmu.cc/.h`: buffer accounting, admission, PFC thresholds, and the CPEM credit state;
- `switch-node.cc/.h`: forwarding, PFC signalling, and CPEM feedback;
- `credit-feedback-header.*`: the CPEM wire format;
- `settings.*`: global knobs and helpers.

Every definition is a translation of the C++. `PROJECT.json` maps each definition to the lines it stands for.

## 1. The system

The parts of the system and what they do:

| Part | Code | State | Operations |
|---|---|---|---|
| MMU accounting and admission | `SwitchMmu::InitSwitch`, `Check/Update/RemoveFrom{Ingress,Egress}Admission` | ingress counters per PG, port, shared pool (SP), and headroom; egress guarantee (q_min) and shared counters per queue, port and pool; `m_usedTotalBytes` | admit or drop a packet, charge it on arrival, release it on departure |
| PFC engine | `GetPauseClasses`, `GetResumeClasses`, `SetPause`, `SetResume`, `SwitchNode::CheckAndSendPfc`, `CheckAndSendResume` | `paused`, `resumeEvt` (a pending timer), `m_pause_remote` | pause classes after an admission, resume after a dequeue or when a timer fires |
| Forwarding path | `SwitchReceiveFromDevice` → `SendToDev` → `SendToDevContinue` → `DoSwitchSend`, then `SwitchNotifyDequeue` | the egress queues (held by the net devices) | class selection, admission, enqueue; at dequeue, release plus ECN/INT marking |
| Load balancing | `GetOutDev`, `DoLbFlowECMP`, `EcmpHash`, `DoLbDrill`, `AddTableEntry`, `ClearTable`, `SetEcmpSeed` | routing table, ECMP seed, DRILL's remembered port per destination | choose the egress port and the class; build and clear the table |
| CPEM feedback generator (downstream switch D) | `CpemPeriodicFeedbackCheck`, `CpemSendFeedback`, `CpemGetDynamicThresholds`, `CpemCalculateCreditValue` | `lastQueueLen` per port | a periodic tick per ingress port; it may send a feedback packet on class 0 |
| CPEM credit integrator (upstream switch U) | `CpemUpdateInflightOnSend`, `CpemHandleFeedback`, `CpemUpdateCreditOnFeedback`, `CpemGetEffectiveCredit`, `CpemGetAdjustedRate` | `feedbackCredit`, `inflightCredit`, `inflightBytes`, `effectiveRate` per port | on every data send, and on every feedback received |
| Credit-feedback header | `CreditFeedbackHeader` constructors, setters, `Serialize`, `Deserialize` | the four fields | 9-byte encoding (big-endian per spec 6; the byte order comes from ns-3's `Buffer::Iterator`) |
| MMU configuration | `SwitchMmu::GetTypeId` attributes, `SetDynamicThreshold`, `SetMaxBufferBytesPerPort`, `SetActivePortCnt`/`ConfigNPort`, `ConfigBufferSize`, `SetPgHdrmLimit`, `ConfigHdrm`, all ending in `InitSwitch` | the buffer size, port count, mode and per-port headroom; the limits `InitSwitch` derives from them | a script's configuration calls, in any order |
| Settings | `settings.cc` | CPEM defaults | `node_id_to_ip` / `ip_to_node_id` (pure) |

How the parts interact. An arrival goes through both admission checks, then both updates, then `CheckAndSendPfc` for its ingress port and class. A departure goes through both removals, then `CheckAndSendResume`. The CPEM generator of a downstream switch reads that switch's ingress port bytes and ingress pool usage, which are the MMU's counters. It sends a feedback packet over the link to the upstream switch. The upstream switch folds the packet into the credit state of the port it arrived on, and recomputes that port's effective rate. Every handler is a simulator event that runs to completion; there are no threads. What makes the system hard is therefore:

- the order in which arrivals, dequeues, resume timers, CPEM ticks and feedback deliveries interleave;
- integer widths: uint32 counters, an int16 gradient, and conversions of doubles to uint32;
- whether the feedback loop actually closes;
- what the upstream device does with the PFC frames: it stops a class on PAUSE, after the packets already in flight, and starts it again on RESUME or when the pause time runs out.

## 2. Modules

| Module | Models | State (VARIABLES) | Actions |
|---|---|---|---|
| `SwitchMmu` | the MMU as pure operators on a record `mmu` whose fields are the C++ counters and flags | none (a library) | `CheckIngressAdmission`, `CheckEgressAdmission`, `UpdateIngressAdmission`, `UpdateEgressAdmission`, `RemoveFromIngressAdmission`, `RemoveFromEgressAdmission`, `GetPauseClasses`, `GetResumeClasses`, `SetPause`, `SetResume`, `ShouldSendCN` (as the set of answers its random draw allows), and `SwitchNode::CheckAndSendPfc` / `CheckAndSendResume`, which act on the MMU alone |
| `SwitchNode` | one switch: the MMU, the egress FIFOs per (port, class), and the PFC frames the last handler sent | `mmu`, `egq`, `pfcTx`, `ecn` (the last handler sent a packet marked CE) | `DoSwitchSend` (the whole receive path for a data packet: drops, both updates, `CheckAndSendPfc`, enqueue); `SwitchNotifyDequeue` (both removals, the ECN mark from `ShouldSendCN` when `m_ecnEnabled`, `CheckAndSendResume`, dequeue); `ResumeEvent` (the timer scheduled by `SetPause` fires) |
| `SwitchBuffer` | the abstract switch: what the MMU's counters stand for. It keeps no byte counters and takes every decision on the packets it holds | `queue`, `hdrm`, `pfc` (the three flags), `sent` | `Admit`, `Refuse`, `Leave`, `Expire` |
| `MCSwitchNode` | model-checking instance of `SwitchNode`: guarantees scaled to a 2-byte MTU | none | none |
| `PfcLink` | `SwitchNode` (by EXTENDS) plus the upstream device of each ingress port, which obeys the PFC frames | adds `peer` (each upstream class runs or is paused), `slack` (packets still in flight after a PAUSE), `lost` (the last arrival was refused at ingress) | `Deliver` (an upstream that runs, or has packets in flight, sends; then `DoSwitchSend`; the frames sent reach the upstream); `Dequeue` (`SwitchNotifyDequeue`, its RESUME reaches the upstream); `Expire` (the resume event of `SetPause` fires and the upstream's pause time ends in the same step) |
| `MCPfcLink` | model-checking instance of `PfcLink`, same scaling as `MCSwitchNode` | none | none |
| `CreditFeedbackHeader` | one header object and its wire format | `hdr` | `Construct`, `SetQueueLen`, `SetGradient`, `SetCreditValue`, `SetPortIndex`; `Serialize`/`Deserialize` as operators on byte sequences |
| `SwitchConfig` | the configuration of one `SwitchMmu`: the fields the setters write, and the limits `InitSwitch` computes from them | `dynamicth`, `perPort`, `staticMax`, `activePortCnt`, `pgHdrmLimit`, `lim` | `SetDynamicThreshold`, `SetMaxBufferBytesPerPort`, `ConfigNPort` (also `SetActivePortCnt`), `ConfigBufferSize`, `SetPgHdrmLimit`, `ConfigHdrm`; each ends in `InitSwitch` (an operator) |
| `LoadBalancer` | the routing half of the receive path: `SwitchReceiveFromDevice` → `SendToDev` → `SendToDevContinue` → `GetOutDev`, up to the call of `DoSwitchSend` | `rtTable`, `prevBest`, `ecmpSeed`, `load` (the devices' queue bytes), `fwd` (what the last receive did) | `Receive` (CPEM bypass, ECMP or DRILL, class choice), `AddTableEntry`, `ClearTable`, `SetEcmpSeed`, `QueueChange` (the environment); `EcmpHash`, `DoLbFlowECMP`, `DoLbDrill` are operators |
| `MCLoadBalancer` | model-checking instance of `LoadBalancer`; its `ASSUME` checks `EcmpHash` against reference vectors | none | none |
| `Cpem` | the CPEM loop over one link: an ingress port P of D, and U's port toward D | D: `qlen`, `dnSp`, `lastQueueLen`; the link: `chan`; U: `upSp`, `feedbackCredit`, `inflightCredit`, `inflightBytes`, `sentBefore`, `effectiveRate`; the build: `conv` | `CpemPeriodicFeedbackCheck` (includes `CpemSendFeedback`), `CpemUpdateInflightOnSend`, `CpemHandleFeedback` (includes `CpemUpdateCreditOnFeedback` and `CpemGetAdjustedRate`), `DataPathChange` (the environment) |

### Modelling choices

`SwitchNode`:
- A packet is its ingress port and its size. Its class is the FIFO it is in.
- Routing is a free choice of egress port: every admitted packet could have been routed anywhere.
- Admission is a function of the counters, so nothing is lost by not modelling routing.
- Time is not modelled. A pending resume timer may fire at any later step, which covers every pause duration.
- ECN: `ShouldSendCN` compares `GetValue(0, 1)`, a draw from [0, 1), with p = (shared − kmin) / (kmax − kmin) × pmax. The model computes p as an exact fraction and lets the mark be TRUE when p > 0 and FALSE when p < 1. `kmin`, `kmax` and `pmax` are constants: the values `ConfigEcn` gave every port before traffic (its ×1000 KB-to-byte scaling is folded into the scaled byte units). Only the mark is kept; the rest of the rewrite of the departing packet is not.

`PfcLink`:
- `QbbNetDevice` is outside `src/`; its reaction to a frame is taken from spec 4.2 (these definitions are `spec_modelled` in the map).
- A PAUSE that reaches a running upstream leaves `InFlight` packets of the class on their way. A PAUSE that reaches a paused upstream only restarts its timer.
- `CheckAndSendPfc` sends its PAUSEs before its RESUMEs, so a class that gets both in one call runs afterwards.
- The upstream's pause lasts the `paused_time` that `SetPause` schedules its resume event with. The switch's resume event and the end of the upstream's pause are therefore one step. The frame's delay only makes the upstream silent a little longer, which removes no behaviour of the switch.

`SwitchBuffer` and the refinement:
- `View(queue, hdrm, pfc)` is the `mmu` record with every counter recomputed from the FIFOs. A class's ingress bytes are summed over the egress queues. An egress queue fills its `QMinCell` guarantee before the shared pool. The pools are summed per class.
- The headroom counters and the PFC flags stay state: the headroom a class has charged depends on the order of arrivals, not on the buffer's content.
- The decision rules are the `SwitchMmu` operators (`Check*Admission`, `CheckAndSendPfc`, `CheckAndSendResume`) applied to `View`. The headroom charge and release are written out again, on `hdrm`.
- `Leave` marks the departing packet as `ShouldSendCN` decides on `View` of the FIFOs after the departure, so the ECN mark is part of what the refinement compares.
- `PfcLink` maps `queue` to `egq`, `hdrm` to `mmu.hdrm`, the flags to `mmu`'s flags, `sent` to `pfcTx` and `ecn` to `ecn` (`Buffer == INSTANCE SwitchBuffer WITH ...`). `BufferRefinement == Buffer!BufSpec` is checked as a `PROPERTY`.
- The refinement therefore says that the counters `SwitchNode` updates packet by packet, through partial fills and drains of the guarantee and through removals, always lead to the decisions that the bytes actually held would give. This includes the ECN mark: if `ShouldSendCN` were asked before `RemoveFromEgressAdmission`, TLC reports `BufferRefinement` violated.

`SwitchConfig`:
- `Init` is the object `CreateObject<SwitchMmu>` returns: the constructor, then the `GetTypeId` defaults in order. The last default, `PGHeadroomLimit` (12500 + 2 MTU), sets every port's headroom.
- The calls come from scripts outside `src/`, so any order and any argument of the constant sets is allowed.
- `InitSwitch` is translated whole except the byte counters it zeroes: no traffic is modelled here. `uint32_t` limits are kept as integers, so a negative one would be a wrap.
- The `SwitchMmu` and `SwitchNode` models take the limits as constants; `SwitchConfig` is the module that says where they come from.

`LoadBalancer`:
- The step ends at the call `DoSwitchSend(p, ch, idx, qIndex)`. Its effect on the MMU is `SwitchNode`'s, where the egress port is a free choice, so every choice made here is covered there.
- uint32 values are pairs of 16-bit halves, since TLC's integers are 32-bit signed. Products are formed byte by byte (`Mul32`). `EcmpHash` is MurmurHash3_x86_32 over a byte sequence, read in little-endian words as the x86 load `*key_x4` does. `MCLoadBalancer` checks it, by an `ASSUME` that TLC evaluates before every run, against the published reference vectors and against the source function compiled on 12-byte `DoLbFlowECMP` keys.
- `std::random_shuffle` is a choice among all index permutations. DRILL's samples and their order come from it, and the order decides ties.
- The queue bytes DRILL reads belong to the net devices, outside `src/`; `QueueChange` moves them freely (`spec_modelled`).
- `UINT32_MAX`, DRILL's start load when nothing is remembered, is the largest TLC integer: it is above every load either way.
- An `assert(false)` (no table entry, a protocol ECMP cannot hash) ends the simulation, so the step is disabled.
- `lb_mode` 3, 6 and 9 hand the packet to Conga, Letflow and ConWeave, which are outside `src/`.

`CreditFeedbackHeader`:
- `Buffer::Iterator::WriteU16/WriteU32` and the reads belong to ns-3, outside this repository. The order in which they lay out a value's bytes is the constant `ByteOrder`. The runs use `"lsb_first"`, the order of ns-3's `WriteU16`/`WriteU32` (the network-order writers are `WriteHtonU16`/`WriteHtonU32`).
- Queue lengths stay below 2^31, the largest TLC integer.

`Cpem`:
- Byte counts are exact, using the simulator's real values (MTU 1048, 12 ports × 375 kB, alpha 1/16).
- `uint32_t` thresholds are held as their two's-complement int32 reading. This makes `threshold_low + 5*MTU` wrap exactly as in C++; the comparisons `ULt` and `UMax` are unsigned.
- `(int16_t)` is taken modulo 2^16.
- `(uint32_t)` of a negative double is undefined behaviour. `conv` is the choice the build makes, fixed once in `Init`:
  - `"wrap"`: x86-64, the low 32 bits of the int64 conversion;
  - `"saturate"`: 0.
- Doubles are rounded: ratios to 1/1000, credits down to whole credits, rates down to Mb/s.
- The time-based decay of `inflightBytes` is a chosen factor per send, from `Decays`.
- In `CpemHandleFeedback`, the feedback's age is exactly 0 when `CpemGetAdjustedRate` runs, so the weight is exp(0) = 1.
- The data path of both switches is abstracted to the three MMU counters CPEM reads, which `DataPathChange` moves freely.

## 3. Runs

| Run | cfg | Expect | Checks | Shows |
|---|---|---|---|---|
| `static_accounting` | `MCSwitchNode_static.cfg` | pass (852 664 states, ~1.5 min) | `TypeOK`, `IngressAccounting`, `EgressAccounting`, `NoPauseResumeFlap`, `CongestionMarking` | Static thresholds, ports 1 and 2 sending classes 1 (pool 1) and 3 (pool 0) to port 3, sizes 1 and 2, up to 4 packets buffered. Every counter equals the bytes really buffered, whatever the order of admissions, drops, partial fills of the egress guarantee, dequeues and timers. The "Illegal Remove" clamps never fire, egress counters never wrap, and no call sends PAUSE and RESUME for one class. With ECN on (kmin 1, kmax 2, pmax 1/2), a departing packet is marked only when its FIFO still holds more than `QMinCell` + kmin bytes, and always when it holds more than `QMinCell` + kmax: the guarantee bytes never count towards congestion. |
| `pfc_flap_dynamic` | `MCSwitchNode_flap.cfg` | violation | `NoPauseResumeFlap` | In dynamic mode, three packets on port 1 (classes 1, 3, 1) make `CheckAndSendPfc` pause class 3 and resume it in the same call. The pause predicate uses the pool of the triggering class (switch-mmu.cc:348). |
| `headroom_limit` | `MCSwitchNode_headroom.cfg` | violation | `HeadroomWithinLimit` | The headroom counter of a class grows past `m_pg_hdrm_limit`. The check is skipped once the pool is back at its limit, but the counter keeps its charge. |
| `cpem_loop` | `MCCpem_loop.cfg` | pass (30 888 states, ~30 s) | `TypeOK`, `CongestionThrottles` | With the defaults, and D's pool at 0 or 3 MB: a port that stays congested eventually and permanently lowers U's rate. This holds for both conversions, and with U's own pool past its limit. |
| `cpem_fixed_gate` | `MCCpem_gate.cfg` | violation | `CongestionThrottles` | With D's pool at 3.5 MB, the dynamic thresholds are 23.7/37.9 kB. A port holding 40 kB forever is never reported, because the periodic check uses the fixed 50 kB threshold. |
| `cpem_negative_threshold` | `MCCpem_cast.cfg` | violation | `CongestionThrottles` | With D's pool at 4.3 MB, the PFC threshold is negative. With the x86-64 conversion, both CPEM thresholds come out near 4 GB, and a congested port is never reported. |
| `cpem_gradient_wrap` | `MCCpem_gradient.cfg` | violation | `GradientTracksQueue` | The first report after the port grew from 0 to 60 kB carries gradient −5536. |
| `pfc_link_dynamic` | `MCPfcLink_dynamic.cfg` | pass (77 499 states, ~1.2 min) | `NoPhantomResume`, `BufferRefinement` | Dynamic thresholds, two upstreams obeying the frames. No RESUME reaches an upstream that is running, although `m_pause_remote` stays set after `CheckAndSendResume` and after the pause timer. Only the `paused` test inside `GetResumeClasses` stops `CheckAndSendPfc`'s resume loop from acting on the stale flag. The switch implements `SwitchBuffer`: no admission, drop, headroom charge, pause, resume or ECN mark differs from the one that the bytes it holds would give. |
| `pfc_headroom_cycles` | `MCPfcLink_lossless.cfg` | violation | `Lossless` | An upstream that obeys every PAUSE still has a packet dropped. Class 1 of port 1 is paused, and its in-flight packet lands in headroom. The pause time ends with nothing dequeued, and the upstream's next packet re-triggers the pause. That packet and the next in-flight one need 6 bytes of a 4-byte headroom, which is sized for one cycle (the trigger plus `InFlight`). With `Expire` disabled, the same configuration is lossless over all 5.8 million states (13 min, not a run). |
| `cfh_roundtrip` | `MCCreditFeedbackHeader_roundtrip.cfg` | pass (270 states) | `RoundTrip` | For every header the constructor and setters build from boundary values, `Serialize` writes 9 bytes and `Deserialize`, reading the fields in the order and widths they were written, returns every field. The byte layout itself (spec 6 and S5) is not checked: it is ns-3's. |
| `drill_stale_port` | `MCLoadBalancer_drill.cfg` | violation | `RouteInTable` | Under DRILL, the table for a destination has uplink 2. A packet goes out on 2 and DRILL remembers it. The script clears the table and adds only uplink 1, as after a link failure. The next packet goes out on port 2 again: `DoLbDrill` starts from the remembered port, which `ClearTable` leaves, and the one sample (load 0) is not strictly less (switch-node.cc:138). |
| `config_headroom_reserve` | `MCSwitchConfig_hdrm.cfg` | violation | `HeadroomReserved` | `InitSwitch` subtracts the headroom of ports 0..n-1 from the ingress pool, but port 0 is unused and traffic comes in on ports 1..n (switch-mmu.cc:112). After `ConfigHdrm(12, 30000)` on the default switch, `m_buffer_cell_limit_sp` stays 4 224 240 B, and 15 404 B of port 12's headroom are not reserved. |

Each property of a passing run has a mutant in `PROJECT.json`: a plausible one-line bug in the mapped code that makes TLC report that property violated.

### Bounds and why they are enough

`SwitchNode`:
- Two data classes are enough to cover both ingress pools (class 1 is pool 1, the others pool 0) and the mixing of classes that the dynamic pause predicate does. The egress side has pool 1 only, and it covers every branch of the egress update.
- Two ingress ports and one egress port give cross-port sharing of the egress queue and the ingress pool.
- Sizes 1 and 2 against a q_min of 3 give every branch of `UpdateEgressAdmission` and `RemoveFromEgressAdmission`: whole fills, partial fills, and partial drains.
- A limit of 4 buffered packets reaches pause, resume, headroom use, ingress drops and egress drops; this was confirmed with probe invariants.
- ECN (static run): kmin 1 and kmax 2 over the shared bytes, which reach 3 after a departure, give all three answers of `ShouldSendCN`: never, the random draw, and always. pmax 1/2 lets the draw give both answers. The other `SwitchNode` cfgs turn ECN off, since their properties do not read the mark.
- Guarantees are scaled to a 2-byte MTU in `MCSwitchNode.tla`. In the dynamic cfg the guarantees are 0, which is negligible next to alpha × limit, as with the real defaults.

`Cpem`:
- The queue values straddle the real thresholds. At 3 MB, 60 kB lies between the low and high thresholds and 90 kB above both. At 0 they lie below both.
- The moves 60 → 90 kB (gradient +30000) and 0 → 60 kB (which wraps) exercise both signs of the gradient.
- One feedback packet in flight, and U's in-flight bytes bounded by one MTU, keep the liveness check within minutes.
- `cpem_max_credit` is 25 in `cpem_loop` (a legal setting), so that the EWMA stays within 26 values. The violation runs keep 100.

`PfcLink`:
- `pfc_link_dynamic`: packets of size 2 only, and at most 3 buffered, keep the run near a minute; the refinement recomputes the counters in every step. Three packets of 2 bytes fill a guarantee of 3 partly, then past it, and drain it back. The egress pool limit of 4 makes egress admission refuse too, so the refinement covers the egress counters as well as the ingress ones. Two classes on one port are what the dynamic pause/resume interplay needs, and two ports are what the shared pool needs.
- In `pfc_link_dynamic`, the shared bytes left after a departure are 0 or 1. kmin 0 and kmax 1, with pmax 1/2, give the "never" answer and both answers of the draw.
- `pfc_headroom_cycles`: sizes 1 and 2, up to 6 packets, one packet in flight. Headroom is 4: the trigger packet plus one in flight, at the largest size.

`LoadBalancer`: two uplinks and one destination are what a rebuilt table with one port fewer needs. Queue loads 0 and 1 000 give both ties and a strictly better sample. Table entries are bounded by 2 per destination. The data flow, its ACK (always ECMP) and a CPEM packet (bypass) cover every branch of `Receive`.

`CreditFeedbackHeader`: values at every byte boundary, the S5 values, and the int16 extremes.

`SwitchConfig`: the real MTU, 8 queues and 375 kB per port; port indices 0..12 and port counts 11 and 12, so that the last active port is both inside and outside the summed range; headroom the default 14 596 B and a larger 30 000 B; buffer size derived or a static 4.5 MB. The violation is two calls deep.

## 4. Fairness

`SwitchNode`, `SwitchConfig`, `LoadBalancer` and `CreditFeedbackHeader` have no fairness and state no liveness.

`PfcLink` has no fairness and states no liveness. A paused class is released by a RESUME or by the event `SetPause` schedules, but every `SetPause` cancels the pending event and schedules a new one (switch-mmu.cc:467-469). Pauses that keep coming, of the class itself or, in dynamic mode, triggered through another class of the same port, can postpone the release without bound. `SwitchNotifyDequeue` rechecks only the dequeued packet's own port and class. The code therefore guarantees no release that holds whatever the traffic does.

`Cpem` assumes weak fairness of `CpemPeriodicFeedbackCheck` and of `CpemHandleFeedback`:
- the tick reschedules itself every `cpem_feedback_interval_ns`, as long as it finds the port's link up. A tick that finds the link down returns before rescheduling (switch-node.cc:525), and the port's check never runs again. `Cpem` keeps the link up (link state belongs to `QbbNetDevice`, outside `src/`), and its fairness holds only under that assumption;
- a class-0 packet on a point-to-point link is delivered, since class 0 bypasses admission.

The data path (`DataPathChange`) and U's sends get no fairness. `CongestionThrottles` assumes only that the port eventually stays congested.

## 5. Not modelled, and why

- **HPCC INT at dequeue.** `PushHop` writes telemetry into the departing packet and `m_txBytes` is a statistic; no decision of the switch reads them.
- **Ports that `ConfigEcn` never configured.** `kmin`/`kmax`/`pmax` are not initialized, so `ShouldSendCN` would read indeterminate values; which ports are configured is decided outside `src/`.
- **Class 0, ConWeave's dummy in-dev, and rx/tx counters.** Class 0 does not touch the MMU; the counters are statistics.
- **Static whole-port pause.** It pauses all 8 classes; the model tracks the two data classes it carries.
- **`CpemGenerateFeedback` / `CpemScheduleFeedback`.** Nothing in `src/` calls them.
- **`SetBroadcomParams` and `ConfigEcn` as actions.** `SetBroadcomParams` writes the limits directly and nothing in `src/` calls it. `ConfigEcn`'s values are the constants kmin, kmax and pmax.
- **`node_id_to_ip` / `ip_to_node_id`.** Pure address arithmetic with no state.
- **Conga, Letflow and ConWeave routing** (`lb_mode` 3, 6, 9). They are outside `src/`.
- **The wire byte order of the credit-feedback header.** It is ns-3's `Buffer::Iterator`, a constant of `CreditFeedbackHeader`. With ns-3's order (least significant byte first), the header is not spec 6's big-endian layout; S5's header goes out as `04 03 02 01 FF FF F4 01 07`. No run checks this, because the layout is decided outside `src/`.
- **CPEM statistics counters** (`m_cpemFeedbackSent/Recv`, `m_cpemRateAdjustments`).

## 6. Plan for the next steps

1. **Composition.** Drive `Cpem`'s `qlen`/`dnSp` from `SwitchNode`'s MMU instead of the environment.
2. **Reconfiguration under traffic.** Compose `SwitchConfig`'s setters with `SwitchNode`: each ends in `InitSwitch`, which zeroes the byte counters while packets may still be buffered (`switch-mmu.cc:76`). `IngressAccounting` would then show what a later removal does to the zeroed counters.
3. **HPCC INT.** Model `PushHop` and `m_txBytes` once a property of the receiver's rate control needs the telemetry they carry.
