-------------------------- MODULE MessageSetsProofs --------------------------
(***************************************************************************)
(* Proofs about MessageSets: what a session can rely on, for every list of *)
(* modules a WTP and a controller may be started with.                     *)
(*                                                                         *)
(* The argument has three layers.  Of the tables of Elements it is proved, *)
(* row by row, that a handler takes what it writes, that the few handlers  *)
(* that end the program belong to elements no message of a session carries *)
(* (Unsent) or are replaced by those of Cisco (Own), and that the messages *)
(* are orderly (Orderly).  Of message sets it is proved that cw_msgset_add *)
(* keeps a set good (Good) whatever table comes next, and what the modules *)
(* make of one (Complete, CiscoSpoken, SessionSet).  The invariant (Inv)   *)
(* then says what the sets of both ends are at each stage of a session,    *)
(* and what the message on its way shows of the set it was written with    *)
(* (Request, Response): that is what detection and the version rest on.    *)
(***************************************************************************)
EXTENDS MessageSets, WellFoundedInduction, TLAPS

-----------------------------------------------------------------------------
(* Handlers and their rows. *)

Tables == {"capwap", "capwap80211", "cisco70", "cisco73", "cisco75"}

WtpDescriptor == <<"plain", "WTP_DESCRIPTOR">>
AcDescriptor == <<"plain", "AC_DESCRIPTOR">>
OperationalState == <<"plain", "RADIO_OPERATIONAL_STATE">>
RadName == <<"cisco", "RAD_NAME">>
RadioConfiguration == <<"cisco", "WTP_RADIO_CONFIGURATION">>
UserPassword == <<"lwapp", "AP_USERNAME_PASSWORD">>

\* The elements whose handlers in version 7.0 end the program, or write what
\* they do not take: no message of a session carries one.
Unsent ==
    Cisco({"AP_QOS", "ADD_WLAN", "OPER_STATE_DETAIL_CAUSE", "80211_ASSOC_LIMIT"})
    \cup Lwapp({"ADD_WLAN", "DELETE_WLAN", "RAD_EXTENDED_CONFIG"})
    \cup Plain({"DOT11R_WLC_MAC_AND_IP"})

IsHandler(h) == DOMAIN h = {"lo", "hi", "sizes", "shape", "radio", "get", "put"}
SameLengths(g, h) == g.lo = h.lo /\ g.hi = h.hi /\ g.sizes = h.sizes

\* What the modifiers of a handler leave alone.
LEMMA Modified ==
    ASSUME NEW h, IsHandler(h)
    PROVE  /\ IsHandler(Indexed(h)) /\ SameLengths(Indexed(h), h)
           /\ Indexed(h).get = h.get /\ Indexed(h).put = h.put
           /\ IsHandler(OfRadio(h)) /\ SameLengths(OfRadio(h), h)
           /\ OfRadio(h).get = h.get /\ OfRadio(h).put = h.put
           /\ IsHandler(Exits(h)) /\ SameLengths(Exits(h), h)
           /\ Exits(h).put = "exits"
           /\ IsHandler(NeedsKey(h)) /\ SameLengths(NeedsKey(h), h)
           /\ NeedsKey(h).get = h.get /\ NeedsKey(h).put = "needs"
           /\ IsHandler(TakenOnly(h)) /\ SameLengths(TakenOnly(h), h)
BY SMT DEF IsHandler, SameLengths, Indexed, OfRadio, Exits, NeedsKey, TakenOnly

\* Handlers without a modifier take and write the one length they are given.
LEMMA Plainly ==
    ASSUME NEW lo, NEW hi, NEW w
    PROVE  /\ IsHandler(Scalar(lo, hi, w)) /\ IsHandler(Struct(lo, hi, w))
           /\ SameLengths(Scalar(lo, hi, w), [lo |-> lo, hi |-> hi, sizes |-> {w}])
           /\ SameLengths(Struct(lo, hi, w), [lo |-> lo, hi |-> hi, sizes |-> {w}])
           /\ Scalar(lo, hi, w).get = "takes" /\ Scalar(lo, hi, w).put = "writes"
           /\ Struct(lo, hi, w).get = "takes" /\ Struct(lo, hi, w).put = "writes"
BY SMT DEF IsHandler, SameLengths, Scalar, Struct, Handler

\* ... and so do structures that end with a text, for two lengths.
LEMMA LongStructs == ASSUME NEW lo, NEW hi PROVE IsHandler(LongStruct(lo, hi))
BY SMT DEF IsHandler, LongStruct, Handler

\* A handler takes every length it writes.
Sound(e, h) == e \in Misfits \/ \A n \in h.sizes : Fits(h, n)

Stops(h) == h.get = "exits" \/ h.put = "exits"

OfCapwap(e, h) == Sound(e, h) /\ e[1] = "plain" /\ (Stops(h) => e = OperationalState)
OfBinding(e, h) ==
    /\ Sound(e, h) /\ e[1] = "plain" /\ ~Stops(h)
    /\ e \notin {WtpDescriptor, AcDescriptor, OperationalState}
Of70(e, h) ==
    /\ e \in Unsent \/ (Sound(e, h) /\ ~Stops(h))
    /\ e = WtpDescriptor =>
           h.lo = 4 /\ h.hi = 128 /\ h.sizes = {4, 128} /\ h.put = "writes"
    /\ e = RadName => 1 \in h.sizes /\ h.put = "writes"
    /\ e = UserPassword => h.put = "needs"
OfLater(e, h) ==
    /\ e \notin {WtpDescriptor, AcDescriptor, OperationalState, RadName, UserPassword}
    /\ e = RadioConfiguration => h.put = "exits"

\* Version 7.0 of Cisco: what a WTP and a controller say of themselves.
LEMMA Rows70Identity == \A r \in cisco_identity_handlers : Of70(r[1], r[2])
<1> USE DEF Of70, Sound, Stops, Fits, Each, Misfits, Plain, Cisco, Lwapp, Unsent,
            WtpDescriptor, RadName, UserPassword
<1>1. \A r \in Each(Plain({"AC_NAME"}), Text(0, 512)) : Of70(r[1], r[2])
  BY SMT DEF Text, Handler, Lengths
<1>2. \A r \in Each(Plain({"WTP_DESCRIPTOR", "AC_DESCRIPTOR"}),
                     LongStruct(4, 128)) :
         Of70(r[1], r[2])
  BY SMT DEF LongStruct, Handler, Lengths
<1>3. \A r \in Each(Cisco({"RAD_NAME", "AP_GROUP_NAME"}), Text(1, 512)) :
         Of70(r[1], r[2])
  BY SMT DEF Text, Handler, Lengths
<1>4. \A r \in Each(Cisco({"BOARD_DATA_OPTIONS"}),
                     Struct(4, 4, cisco_wtp_board_data_options)) :
         Of70(r[1], r[2])
  BY SMT DEF Struct, Handler, cisco_wtp_board_data_options
<1>5. \A r \in Each(Cisco({"AP_TIMESYNC"}), Struct(5, 5, ap_time_sync)) :
         Of70(r[1], r[2])
  BY SMT DEF Struct, Handler, ap_time_sync
<1>6. \A r \in Each(Cisco({"MWAR_TYPE"}), Scalar(1, 1, 1)) : Of70(r[1], r[2])
  BY SMT DEF Scalar, Handler
<1>7. \A r \in Each(Plain({"WTP_RADIO_INFORMATION"}),
                     OfRadio(Scalar(0, 0, 1 + 4))) :
         Of70(r[1], r[2])
  BY SMT DEF Scalar, OfRadio, Handler
<1>8. \A r \in Each(Plain({"SESSION_ID"}), Text(4, 16)) : Of70(r[1], r[2])
  BY SMT DEF Text, Handler, Lengths
<1>9. \A r \in Each(Cisco({"MWAR_ADDR"}), Struct(7, 7, mwar_addr)) :
         Of70(r[1], r[2])
  BY SMT DEF Struct, Handler, mwar_addr
<1>10. \A r \in Each(Plain({"WTP_IPV4_IP_ADDRESS"}), Scalar(4, 4, 4)) :
         Of70(r[1], r[2])
  BY SMT DEF Scalar, Handler
<1> HIDE DEF Of70
<1> QED BY <1>1, <1>2, <1>3, <1>4, <1>5, <1>6, <1>7, <1>8, <1>9, <1>10,
          SMT DEF cisco_identity_handlers

\* Version 7.0: the access point.
LEMMA Rows70Ap == \A r \in cisco_ap_handlers : Of70(r[1], r[2])
<1> USE DEF Of70, Sound, Stops, Fits, Each, Misfits, Plain, Cisco, Lwapp, Unsent,
            WtpDescriptor, RadName, UserPassword
<1>1. \A r \in Each(Plain({"WTP_IPV6_IP_ADDRESS"}), Scalar(16, 16, 4)) :
         Of70(r[1], r[2])
  BY SMT DEF Scalar, Handler
<1>2. \A r \in Each(Cisco({"SPAM_VENDOR_SPECIFIC"}), TakenOnly(Text(0, 0))) :
         Of70(r[1], r[2])
  BY SMT DEF Text, TakenOnly, Handler, Lengths
<1>3. \A r \in Each(Lwapp({"PATH_MTU"}), Struct(0, 0, cisco_lw_path_mtu)) :
         Of70(r[1], r[2])
  BY SMT DEF Struct, Handler, cisco_lw_path_mtu
<1>4. \A r \in Each(Cisco({"AP_UPTIME"}), Struct(8, 8, cisco_ap_uptime)) :
         Of70(r[1], r[2])
  BY SMT DEF Struct, Handler, cisco_ap_uptime
<1>5. \A r \in Each(Lwapp({"AP_USERNAME_PASSWORD"}),
                     NeedsKey(Indexed(Struct(0, 0, 1 + cisco_login)))) :
         Of70(r[1], r[2])
  BY Modified, Plainly, LongStructs, SMT DEF cisco_login, SameLengths
<1>6. \A r \in Each(Lwapp({"AP_LOGHOST_CONFIG"}),
                     Struct(36, 36, cisco_loghost_config)) :
         Of70(r[1], r[2])
  BY SMT DEF Struct, Handler, cisco_loghost_config
<1>7. \A r \in Each(Cisco({"AP_LED_STATE_CONFIG"}),
                     Struct(1, 1, cisco_ap_led_state_config70)) :
         Of70(r[1], r[2])
  BY SMT DEF Struct, Handler, cisco_ap_led_state_config70
<1>8. \A r \in Each(Lwapp({"AP_TELNET_SSH"}),
                     NeedsKey(Indexed(Scalar(2, 2, 1 + 1)))) :
         Of70(r[1], r[2])
  BY Modified, Plainly, LongStructs, SMT DEF SameLengths
<1>9. \A r \in Each(Cisco({"AP_LOG_FACILITY"}), Scalar(1, 1, 1)) :
         Of70(r[1], r[2])
  BY SMT DEF Scalar, Handler
<1>10. \A r \in Each(Cisco({"MULTI_DOMAIN_CAPABILITY"}),
                     OfRadio(Struct(8, 8, 1 + cisco_multi_domain_capability))) :
         Of70(r[1], r[2])
  BY SMT DEF Struct, OfRadio, Handler, cisco_multi_domain_capability
<1> HIDE DEF Of70
<1> QED BY <1>1, <1>2, <1>3, <1>4, <1>5, <1>6, <1>7, <1>8, <1>9, <1>10,
          SMT DEF cisco_ap_handlers

\* Version 7.0: its board, switch port and addresses.
LEMMA Rows70Board == \A r \in cisco_board_handlers : Of70(r[1], r[2])
<1> USE DEF Of70, Sound, Stops, Fits, Each, Misfits, Plain, Cisco, Lwapp, Unsent,
            WtpDescriptor, RadName, UserPassword
<1>1. \A r \in Each(Cisco({"WTP_BOARD_DATA"}),
                     Struct(8, 48, cisco_wtp_board_data)) :
         Of70(r[1], r[2])
  BY SMT DEF Struct, Handler, cisco_wtp_board_data
<1>2. \A r \in Each(Cisco({"AP_LED_FLASH_CONFIG"}),
                     Struct(0, 48, cisco_ap_led_flash_config)) :
         Of70(r[1], r[2])
  BY SMT DEF Struct, Handler, cisco_ap_led_flash_config
<1>3. \A r \in Each(Cisco({"AP_PRE_STD_SWITCH_CONFIG"}) \cup Lwapp({"AP_SUBMODE"}),
                     Scalar(1, 1, 1)) :
         Of70(r[1], r[2])
  BY SMT DEF Scalar, Handler
<1>4. \A r \in Each(Cisco({"AP_POWER_INJECTOR_CONFIG"}),
                     Struct(8, 8, cisco_ap_power_injector_config)) :
         Of70(r[1], r[2])
  BY SMT DEF Struct, Handler, cisco_ap_power_injector_config
<1>5. \A r \in Each(Cisco({"AP_MODE_AND_TYPE"}),
                     Struct(2, 2, cisco_ap_mode_and_type)) :
         Of70(r[1], r[2])
  BY SMT DEF Struct, Handler, cisco_ap_mode_and_type
<1>6. \A r \in Each(Cisco({"AP_STATIC_IP_ADDR"}),
                     Struct(17, 17, cisco_ap_static_ip_addr)) :
         Of70(r[1], r[2])
  BY SMT DEF Struct, Handler, cisco_ap_static_ip_addr
<1>7. \A r \in Each(Cisco({"AP_DNS"}), Struct(5, 5, cisco_ap_static_dns)) :
         Of70(r[1], r[2])
  BY SMT DEF Struct, Handler, cisco_ap_static_dns
<1>8. \A r \in Each(Cisco({"AP_DOMAIN"}), LongStruct(1, 128)) :
         Of70(r[1], r[2])
  BY SMT DEF LongStruct, Handler, Lengths
<1>9. \A r \in Each(Cisco({"AP_MIN_IOS_VERSION", "AP_BACKUP_SOFTWARE_VERSION"}),
                     Text(0, 32)) :
         Of70(r[1], r[2])
  BY SMT DEF Text, Handler, Lengths
<1> HIDE DEF Of70
<1> QED BY <1>1, <1>2, <1>3, <1>4, <1>5, <1>6, <1>7, <1>8, <1>9,
          SMT DEF cisco_board_handlers

\* Version 7.0: its model and its radios.
LEMMA Rows70Radio == \A r \in cisco_radio_handlers : Of70(r[1], r[2])
<1> USE DEF Of70, Sound, Stops, Fits, Each, Misfits, Plain, Cisco, Lwapp, Unsent,
            WtpDescriptor, RadName, UserPassword
<1>1. \A r \in Each(Lwapp({"AP_ETHERNET_PORT_SUBTYPE"}), Text(3, 3)) :
         Of70(r[1], r[2])
  BY SMT DEF Text, Handler, Lengths
<1>2. \A r \in Each(Cisco({"AP_REGULATORY_DOMAIN"}), Indexed(LongStruct(4, 5))) :
         Of70(r[1], r[2])
  BY SMT DEF LongStruct, Indexed, Handler, Lengths
<1>3. \A r \in Each(Cisco({"AP_MODEL"}), Struct(60, 60, cisco_ap_model)) :
         Of70(r[1], r[2])
  BY SMT DEF Struct, Handler, cisco_ap_model
<1>4. \A r \in Each(Cisco({"RESET_BUTTON_STATE"}), Scalar(1, 1, 1)) :
         Of70(r[1], r[2])
  BY SMT DEF Scalar, Handler
<1>5. \A r \in Each(Cisco({"WTP_RADIO_CONFIGURATION"}),
                     OfRadio(Struct(25, 25, 1 + cisco_wtp_radio_config70))) :
         Of70(r[1], r[2])
  BY SMT DEF Struct, OfRadio, Handler, cisco_wtp_radio_config70
<1>6. \A r \in Each(Cisco({"DIRECT_SEQUENCE_CONTROL"}),
                     OfRadio(Struct(9, 9, 1 + cisco_direct_sequence_control70))) :
         Of70(r[1], r[2])
  BY SMT DEF Struct, OfRadio, Handler, cisco_direct_sequence_control70
<1>7. \A r \in Each(Cisco({"ANTENNA_PAYLOAD"}),
                     OfRadio(Struct(9, 9, 1 + cisco_antenna_payload70))) :
         Of70(r[1], r[2])
  BY SMT DEF Struct, OfRadio, Handler, cisco_antenna_payload70
<1>8. \A r \in Each(Lwapp({"MWAR_HASH_VALUE"}), Text(1, 64)) :
         Of70(r[1], r[2])
  BY SMT DEF Text, Handler, Lengths
<1>9. \A r \in Each(Cisco({"MAC_OPERATION"}),
                     OfRadio(Struct(16, 16, 1 + cisco_mac_operation70))) :
         Of70(r[1], r[2])
  BY SMT DEF Struct, OfRadio, Handler, cisco_mac_operation70
<1>10. \A r \in Each(Cisco({"TX_POWER"}),
                     OfRadio(Struct(4, 4, 1 + cisco_tx_power))) :
         Of70(r[1], r[2])
  BY SMT DEF Struct, OfRadio, Handler, cisco_tx_power
<1> HIDE DEF Of70
<1> QED BY <1>1, <1>2, <1>3, <1>4, <1>5, <1>6, <1>7, <1>8, <1>9, <1>10,
          SMT DEF cisco_radio_handlers

\* Version 7.0: channels.
LEMMA Rows70Channel == \A r \in cisco_channel_handlers : Of70(r[1], r[2])
<1> USE DEF Of70, Sound, Stops, Fits, Each, Misfits, Plain, Cisco, Lwapp, Unsent,
            WtpDescriptor, RadName, UserPassword
<1>1. \A r \in Each(Cisco({"TX_POWER_LEVELS"}), OfRadio(Text(5, 150))) :
         Of70(r[1], r[2])
  BY SMT DEF Text, OfRadio, Handler, Lengths
<1>2. \A r \in Each(Cisco({"CHANNEL_POWER"}), OfRadio(Text(5, 1024))) :
         Of70(r[1], r[2])
  BY SMT DEF Text, OfRadio, Handler, Lengths
<1>3. \A r \in Each(Cisco({"SPAM_DOMAIN_SECRET", "ELEM_132", "ELEM_33"}),
                     Text(1, 1024)) :
         Of70(r[1], r[2])
  BY SMT DEF Text, Handler, Lengths
<1>4. \A r \in Each(Cisco({"ELEM_15"}), OfRadio(LongStruct(1, 1024))) :
         Of70(r[1], r[2])
  BY SMT DEF LongStruct, OfRadio, Handler, Lengths
<1>5. \A r \in Each(Cisco({"ELEM_16", "ELEM_39", "ELEM_145", "ELEM_146", "ELEM_153",
                           "ELEM_156"}),
                     OfRadio(Text(1, 1024))) :
         Of70(r[1], r[2])
  BY SMT DEF Text, OfRadio, Handler, Lengths
<1> HIDE DEF Of70
<1> QED BY <1>1, <1>2, <1>3, <1>4, <1>5, SMT DEF cisco_channel_handlers

\* Version 7.0: elements whose meaning is not known.
LEMMA Rows70Unknown == \A r \in cisco_unknown_handlers : Of70(r[1], r[2])
<1> USE DEF Of70, Sound, Stops, Fits, Each, Misfits, Plain, Cisco, Lwapp, Unsent,
            WtpDescriptor, RadName, UserPassword
<1>1. \A r \in Each(Cisco({"ELEM_48"})
                     \cup Lwapp({"ELEM_9", "ELEM_11", "ELEM_27", "ELEM_28", "ELEM_29",
                                 "ELEM_33", "ELEM_48", "ELEM_55"}),
                     OfRadio(Text(1, 1024))) :
         Of70(r[1], r[2])
  BY SMT DEF Text, OfRadio, Handler, Lengths
<1>2. \A r \in Each(Lwapp({"ELEM_14"}), Text(1, 1024)) : Of70(r[1], r[2])
  BY SMT DEF Text, Handler, Lengths
<1>3. \A r \in Each(Lwapp({"RADIO_MODULE_INFO"}),
                     OfRadio(Struct(183, 183, 1 + cisco_lw_radio_module_info_stru))) :
         Of70(r[1], r[2])
  BY SMT DEF Struct, OfRadio, Handler, cisco_lw_radio_module_info_stru
<1> HIDE DEF Of70
<1> QED BY <1>1, <1>2, <1>3, SMT DEF cisco_unknown_handlers

\* Version 7.0: the services of the access point.
LEMMA Rows70Service == \A r \in cisco_service_handlers : Of70(r[1], r[2])
<1> USE DEF Of70, Sound, Stops, Fits, Each, Misfits, Plain, Cisco, Lwapp, Unsent,
            WtpDescriptor, RadName, UserPassword
<1>1. \A r \in Each(Lwapp({"ELEM_105"}), Text(1, 1024)) : Of70(r[1], r[2])
  BY SMT DEF Text, Handler, Lengths
<1>2. \A r \in Each(Cisco({"ELEM_24", "ELEM_19", "ELEM_22", "ELEM_47", "ELEM_81"}),
                     OfRadio(Text(1, 1024))) :
         Of70(r[1], r[2])
  BY SMT DEF Text, OfRadio, Handler, Lengths
<1>3. \A r \in Each(Cisco({"AP_QOS"}),
                     Exits(OfRadio(Struct(52, 52, 1 + cisco_ap_qos)))) :
         Of70(r[1], r[2])
  BY Modified, Plainly, LongStructs, SMT DEF cisco_ap_qos, SameLengths
<1>4. \A r \in Each(Cisco({"AIRSPACE_CAPABILITY"}), OfRadio(Scalar(2, 2, 1 + 1))) :
         Of70(r[1], r[2])
  BY SMT DEF Scalar, OfRadio, Handler
<1>5. \A r \in Each(Cisco({"LOCATION_DATA"}), Text(0, 1024)) :
         Of70(r[1], r[2])
  BY SMT DEF Text, Handler, Lengths
<1>6. \A r \in Each(Cisco({"AP_CORE_DUMP"}), Struct(0, 1024, cisco_ap_core_dump)) :
         Of70(r[1], r[2])
  BY SMT DEF Struct, Handler, cisco_ap_core_dump
<1>7. \A r \in Each(Cisco({"STATISTICS_TIMER"}), Scalar(2, 2, 2)) :
         Of70(r[1], r[2])
  BY SMT DEF Scalar, Handler
<1> HIDE DEF Of70
<1> QED BY <1>1, <1>2, <1>3, <1>4, <1>5, <1>6, <1>7, SMT DEF cisco_service_handlers

\* Version 7.0: the controllers to try and the wireless networks.
LEMMA Rows70Wlan == \A r \in cisco_wlan_handlers : Of70(r[1], r[2])
<1> USE DEF Of70, Sound, Stops, Fits, Each, Misfits, Plain, Cisco, Lwapp, Unsent,
            WtpDescriptor, RadName, UserPassword
<1>1. \A r \in Each(Cisco({"AC_NAME_WITH_INDEX"}), Indexed(Text(1, 513))) :
         Of70(r[1], r[2])
  BY SMT DEF Text, Indexed, Handler, Lengths
<1>2. \A r \in Each(Lwapp({"AC_IP_ADDR_WITH_INDEX"}),
                     Indexed(Scalar(5, 5, 1 + 4))) :
         Of70(r[1], r[2])
  BY SMT DEF Scalar, Indexed, Handler
<1>3. \A r \in Each(Lwapp({"AP_FAILOVER_PRIORITY", "SSC_HASH_VALIDATION"}),
                     Scalar(1, 1, 1)) :
         Of70(r[1], r[2])
  BY SMT DEF Scalar, Handler
<1>4. \A r \in Each(Lwapp({"VLAN"}), Struct(3, 3, cisco_vlan)) :
         Of70(r[1], r[2])
  BY SMT DEF Struct, Handler, cisco_vlan
<1>5. \A r \in Each(Lwapp({"TCP_ADJUST_MSS"}), Struct(3, 3, cisco_rouge_and_mss)) :
         Of70(r[1], r[2])
  BY SMT DEF Struct, Handler, cisco_rouge_and_mss
<1>6. \A r \in Each(Lwapp({"ROUGE_DETECTION"}),
                     Struct(5, 5, cisco_rouge_detection70)) :
         Of70(r[1], r[2])
  BY SMT DEF Struct, Handler, cisco_rouge_detection70
<1>7. \A r \in Each(Cisco({"ADD_WLAN"}),
                     CannotBePut(Struct(7, 1117, cisco_add_wlan70))) :
         Of70(r[1], r[2])
  BY SMT DEF Struct, CannotBePut, Handler, cisco_add_wlan70
<1>8. \A r \in Each(Lwapp({"ADD_WLAN"}), Exits(LongStruct(7, 1117))) :
         Of70(r[1], r[2])
  BY Modified, Plainly, LongStructs, SMT DEF Lengths, SameLengths
<1>9. \A r \in Each(Lwapp({"SSC_HASH"}), LongStruct(1, 331)) :
         Of70(r[1], r[2])
  BY SMT DEF LongStruct, Handler, Lengths
<1>10. \A r \in Each(Lwapp({"DELETE_WLAN"}), TakenOnly(Exits(Scalar(4, 4, 4)))) :
         Of70(r[1], r[2])
  BY Modified, Plainly, LongStructs, SMT DEF SameLengths
<1> HIDE DEF Of70
<1> QED BY <1>1, <1>2, <1>3, <1>4, <1>5, <1>6, <1>7, <1>8, <1>9, <1>10,
          SMT DEF cisco_wlan_handlers

\* Version 7.0: states, and what hangs together with them.
LEMMA Rows70State == \A r \in cisco_state_handlers : Of70(r[1], r[2])
<1> USE DEF Of70, Sound, Stops, Fits, Each, Misfits, Plain, Cisco, Lwapp, Unsent,
            WtpDescriptor, RadName, UserPassword
<1>1. \A r \in Each(Plain({"RADIO_OPERATIONAL_STATE"}),
                     OfRadio(Struct(3, 3, 1 + cisco_radio_oper_state))) :
         Of70(r[1], r[2])
  BY SMT DEF Struct, OfRadio, Handler, cisco_radio_oper_state
<1>2. \A r \in Each(Lwapp({"HARDWARE_INFO"}),
                     Struct(17, 417, cisco_hardware_info)) :
         Of70(r[1], r[2])
  BY SMT DEF Struct, Handler, cisco_hardware_info
<1>3. \A r \in Each(Lwapp({"DISCOVERY_PROTOCOL"}),
                     Struct(3, 3, cisco_discovery_protocol)) :
         Of70(r[1], r[2])
  BY SMT DEF Struct, Handler, cisco_discovery_protocol
<1>4. \A r \in Each(Lwapp({"RAD_EXTENDED_CONFIG"}),
                     Exits(OfRadio(Struct(13, 13, 1 + cisco_rad_extended_config)))) :
         Of70(r[1], r[2])
  BY Modified, Plainly, LongStructs, SMT DEF cisco_rad_extended_config, SameLengths
<1>5. \A r \in Each(Cisco({"CAPWAP_TIMERS"}), Struct(2, 2, cisco_capwap_timers)) :
         Of70(r[1], r[2])
  BY SMT DEF Struct, Handler, cisco_capwap_timers
<1>6. \A r \in Each(Cisco({"80211_ASSOC_LIMIT"}),
                     Struct(4, 4, cisco_80211_assoc_limit)) :
         Of70(r[1], r[2])
  BY SMT DEF Struct, Handler, cisco_80211_assoc_limit
<1>7. \A r \in Each(Cisco({"SIG_TOGGLE"}), Scalar(1, 1, 1)) : Of70(r[1], r[2])
  BY SMT DEF Scalar, Handler
<1>8. \A r \in Each(Plain({"DOT11R_WLC_MAC_AND_IP"}),
                     Struct(4, 4, cisco_dot11r_wlc_mac_and_ip)) :
         Of70(r[1], r[2])
  BY SMT DEF Struct, Handler, cisco_dot11r_wlc_mac_and_ip
<1>9. \A r \in Each(Lwapp({"AP_DTLS_DATA_CFG"}), Struct(2, 2, dtls_data_cfg)) :
         Of70(r[1], r[2])
  BY SMT DEF Struct, Handler, dtls_data_cfg
<1>10. \A r \in Each(Cisco({"OPER_STATE_DETAIL_CAUSE"}),
                     OfRadio(Scalar(4, 4, 1 + 2))) :
         Of70(r[1], r[2])
  BY SMT DEF Scalar, OfRadio, Handler
<1>11. \A r \in Each(Lwapp({"MCAST_MGID_INFO"}), Text(4, 334)) :
         Of70(r[1], r[2])
  BY SMT DEF Text, Handler, Lengths
<1> HIDE DEF Of70
<1> QED BY <1>1, <1>2, <1>3, <1>4, <1>5, <1>6, <1>7, <1>8, <1>9, <1>10, <1>11,
          SMT DEF cisco_state_handlers

\* CAPWAP: what a WTP and a controller say of themselves.
LEMMA RowsCapwapDiscovery == \A r \in capwap_discovery_handlers : OfCapwap(r[1], r[2])
<1> USE DEF OfCapwap, Sound, Stops, Fits, Each, Misfits, Plain, Cisco, Lwapp,
            OperationalState
<1>1. \A r \in Each(Plain({"DISCOVERY_TYPE", "WTP_MAC_TYPE", "WTP_FRAME_TUNNEL_MODE"}),
                     Scalar(1, 1, 1)) :
         OfCapwap(r[1], r[2])
  BY SMT DEF Scalar, Handler
<1>2. \A r \in Each(Plain({"WTP_BOARD_DATA"}), LongStruct(14, 1024)) :
         OfCapwap(r[1], r[2])
  BY SMT DEF LongStruct, Handler, Lengths
<1>3. \A r \in Each(Plain({"WTP_DESCRIPTOR"}), LongStruct(33, 1024)) :
         OfCapwap(r[1], r[2])
  BY SMT DEF LongStruct, Handler, Lengths
<1>4. \A r \in Each(Plain({"VENDOR_SPECIFIC_PAYLOAD", "MTU_DISCOVERY_PADDING"}),
                     TakenOnly(Text(0, 0))) :
         OfCapwap(r[1], r[2])
  BY SMT DEF Text, TakenOnly, Handler, Lengths
<1>5. \A r \in Each(Plain({"AC_DESCRIPTOR"}), Struct(0, 0, 12)) :
         OfCapwap(r[1], r[2])
  BY SMT DEF Struct, Handler
<1>6. \A r \in Each(Plain({"AC_NAME"}), Text(1, 512)) : OfCapwap(r[1], r[2])
  BY SMT DEF Text, Handler, Lengths
<1>7. \A r \in Each(Plain({"CAPWAP_CONTROL_IPV4_ADDRESS"}), Scalar(6, 6, 6)) :
         OfCapwap(r[1], r[2])
  BY SMT DEF Scalar, Handler
<1>8. \A r \in Each(Plain({"CAPWAP_CONTROL_IPV6_ADDRESS"}), Scalar(18, 18, 18)) :
         OfCapwap(r[1], r[2])
  BY SMT DEF Scalar, Handler
<1> HIDE DEF OfCapwap
<1> QED BY <1>1, <1>2, <1>3, <1>4, <1>5, <1>6, <1>7, <1>8,
          SMT DEF capwap_discovery_handlers

\* CAPWAP: what joins them and what the WTP reports.
LEMMA RowsCapwapJoin == \A r \in capwap_join_handlers : OfCapwap(r[1], r[2])
<1> USE DEF OfCapwap, Sound, Stops, Fits, Each, Misfits, Plain, Cisco, Lwapp,
            OperationalState
<1>1. \A r \in Each(Plain({"LOCATION_DATA"}), Text(1, 1024)) :
         OfCapwap(r[1], r[2])
  BY SMT DEF Text, Handler, Lengths
<1>2. \A r \in Each(Plain({"WTP_NAME"}), Text(1, 512)) : OfCapwap(r[1], r[2])
  BY SMT DEF Text, Handler, Lengths
<1>3. \A r \in Each(Plain({"SESSION_ID"}), Text(16, 16)) :
         OfCapwap(r[1], r[2])
  BY SMT DEF Text, Handler, Lengths
<1>4. \A r \in Each(Plain({"RESULT_CODE", "CAPWAP_LOCAL_IPV4_ADDRESS"}),
                     Scalar(4, 4, 4)) :
         OfCapwap(r[1], r[2])
  BY SMT DEF Scalar, Handler
<1>5. \A r \in Each(Plain({"ECN_SUPPORT"}), Scalar(1, 1, 1)) :
         OfCapwap(r[1], r[2])
  BY SMT DEF Scalar, Handler
<1>6. \A r \in Each(Plain({"MAXIMUM_MESSAGE_LENGTH", "STATISTICS_TIMER"}),
                     Scalar(2, 2, 2)) :
         OfCapwap(r[1], r[2])
  BY SMT DEF Scalar, Handler
<1>7. \A r \in Each(Plain({"CAPWAP_LOCAL_IPV6_ADDRESS"}), Scalar(16, 16, 4)) :
         OfCapwap(r[1], r[2])
  BY SMT DEF Scalar, Handler
<1>8. \A r \in Each(Plain({"WTP_REBOOT_STATISTICS"}),
                     Struct(15, 15, wtp_reboot_statistics)) :
         OfCapwap(r[1], r[2])
  BY SMT DEF Struct, Handler, wtp_reboot_statistics
<1>9. \A r \in Each(Plain({"RADIO_ADMINISTRATIVE_STATE"}),
                     OfRadio(Struct(2, 2, 1 + radio_admin_state))) :
         OfCapwap(r[1], r[2])
  BY SMT DEF Struct, OfRadio, Handler, radio_admin_state
<1> HIDE DEF OfCapwap
<1> QED BY <1>1, <1>2, <1>3, <1>4, <1>5, <1>6, <1>7, <1>8, <1>9,
          SMT DEF capwap_join_handlers

\* CAPWAP: what the controller configures.
LEMMA RowsCapwapConfiguration ==
    \A r \in capwap_configuration_handlers : OfCapwap(r[1], r[2])
<1> USE DEF OfCapwap, Sound, Stops, Fits, Each, Misfits, Plain, Cisco, Lwapp,
            OperationalState
<1>1. \A r \in Each(Plain({"CAPWAP_TIMERS"}), Struct(2, 2, capwap_timers)) :
         OfCapwap(r[1], r[2])
  BY SMT DEF Struct, Handler, capwap_timers
<1>2. \A r \in Each(Plain({"DECRYPTION_ERROR_REPORT_PERIOD"}),
                     OfRadio(Scalar(3, 3, 1 + 2))) :
         OfCapwap(r[1], r[2])
  BY SMT DEF Scalar, OfRadio, Handler
<1>3. \A r \in Each(Plain({"IDLE_TIMEOUT"}), Scalar(4, 4, 4)) :
         OfCapwap(r[1], r[2])
  BY SMT DEF Scalar, Handler
<1>4. \A r \in Each(Plain({"WTP_FALLBACK"}), Scalar(1, 1, 1)) :
         OfCapwap(r[1], r[2])
  BY SMT DEF Scalar, Handler
<1>5. \A r \in Each(Plain({"RADIO_OPERATIONAL_STATE"}),
                     Exits(OfRadio(Struct(3, 3, 1 + radio_operational_state)))) :
         OfCapwap(r[1], r[2])
  BY Modified, Plainly, LongStructs, SMT DEF radio_operational_state, SameLengths
<1>6. \A r \in Each(Plain({"AC_NAME_WITH_PRIORITY"}), Indexed(Text(1, 513))) :
         OfCapwap(r[1], r[2])
  BY SMT DEF Text, Indexed, Handler, Lengths
<1>7. \A r \in Each(Plain({"IMAGE_IDENTIFIER"}), LongStruct(5, 1028)) :
         OfCapwap(r[1], r[2])
  BY SMT DEF LongStruct, Handler, Lengths
<1> HIDE DEF OfCapwap
<1> QED BY <1>1, <1>2, <1>3, <1>4, <1>5, <1>6, <1>7,
          SMT DEF capwap_configuration_handlers

\* The binding to IEEE 802.11.
LEMMA RowsBinding == \A r \in capwap80211_handlers : OfBinding(r[1], r[2])
<1> USE DEF OfBinding, Sound, Stops, Fits, Each, Misfits, Plain, Cisco, Lwapp,
            WtpDescriptor, AcDescriptor, OperationalState
<1>1. \A r \in Each(Plain({"WTP_RADIO_INFORMATION"}),
                     OfRadio(Scalar(0, 0, 1 + 4))) :
         OfBinding(r[1], r[2])
  BY SMT DEF Scalar, OfRadio, Handler
<1>2. \A r \in Each(Plain({"RATE_SET"}), OfRadio(Text(3, 0))) :
         OfBinding(r[1], r[2])
  BY SMT DEF Text, OfRadio, Handler, Lengths
<1>3. \A r \in Each(Plain({"ANTENNA"}),
                     OfRadio(Struct(3, 0, 1 + capwap80211_antenna_stru))) :
         OfBinding(r[1], r[2])
  BY SMT DEF Struct, OfRadio, Handler, capwap80211_antenna_stru
<1> HIDE DEF OfBinding
<1> QED BY <1>1, <1>2, <1>3, SMT DEF capwap80211_handlers

\* What version 7.3 changes.
LEMMA Rows73 == \A r \in cisco_handlers73 : OfLater(r[1], r[2])
<1> USE DEF OfLater, Sound, Stops, Fits, Each, Misfits, Plain, Cisco, Lwapp,
            AcDescriptor, RadioConfiguration, WtpDescriptor, OperationalState,
            RadName, UserPassword
<1>1. \A r \in Each(Lwapp({"ROUGE_DETECTION"}),
                     Struct(7, 7, cisco_rouge_detections)) :
         OfLater(r[1], r[2])
  BY SMT DEF Struct, Handler, cisco_rouge_detections
<1>2. \A r \in Each(Cisco({"AP_LED_STATE_CONFIG"}),
                     Struct(1, 1, cisco_ap_led_state_config73)) :
         OfLater(r[1], r[2])
  BY SMT DEF Struct, Handler, cisco_ap_led_state_config73
<1>3. \A r \in Each(Cisco({"WTP_RADIO_CONFIGURATION"}),
                     Exits(OfRadio(Struct(27, 27, 1 + cisco_wtp_radio_config73)))) :
         OfLater(r[1], r[2])
  BY Modified, Plainly, LongStructs, SMT DEF cisco_wtp_radio_config73, SameLengths
<1>4. \A r \in Each(Cisco({"AP_VENUE_SETTINGS"}), LongStruct(5, 1024)) :
         OfLater(r[1], r[2])
  BY SMT DEF LongStruct, Handler, Lengths
<1> HIDE DEF OfLater
<1> QED BY <1>1, <1>2, <1>3, <1>4, SMT DEF cisco_handlers73

\* What version 7.5 changes.
LEMMA Rows75 == \A r \in cisco_handlers75 : OfLater(r[1], r[2])
<1> USE DEF OfLater, Sound, Stops, Fits, Each, Misfits, Plain, Cisco, Lwapp,
            AcDescriptor, RadioConfiguration, WtpDescriptor, OperationalState,
            RadName, UserPassword
<1>1. \A r \in Each(Cisco({"WTP_RADIO_CONFIGURATION"}),
                     Exits(OfRadio(Struct(28, 28, 1 + cisco_wtp_radio_config75)))) :
         OfLater(r[1], r[2])
  BY Modified, Plainly, LongStructs, SMT DEF cisco_wtp_radio_config75, SameLengths
<1>2. \A r \in Each(Cisco({"MAC_OPERATION"}),
                     Exits(OfRadio(Struct(17, 17, 1 + cisco_mac_operation75)))) :
         OfLater(r[1], r[2])
  BY Modified, Plainly, LongStructs, SMT DEF cisco_mac_operation75, SameLengths
<1> HIDE DEF OfLater
<1> QED BY <1>1, <1>2, SMT DEF cisco_handlers75

-----------------------------------------------------------------------------
(* Messages. *)

\* The messages of a session.
Requests == {"DISCOVERY_REQUEST", "JOIN_REQUEST", "CONFIGURATION_STATUS_REQUEST",
             "CHANGE_STATE_EVENT_REQUEST", "ECHO_REQUEST"}
Responses == {"DISCOVERY_RESPONSE", "JOIN_RESPONSE", "CONFIGURATION_STATUS_RESPONSE",
              "CHANGE_STATE_EVENT_RESPONSE", "ECHO_RESPONSE"}
Spoken == Requests \cup Responses

AcStates == {"DISCOVERY", "JOIN", "CONFIGURE", "DATA_CHECK", "RUN"}

\* Two requests lead from one state to another, and only so.
Moves(type) ==
    Stays(AcStates) \cup {<<s, "-">> : s \in AcStates}
    \cup {s \in {<<"JOIN", "CONFIGURE">>} : type = "CONFIGURATION_STATUS_REQUEST"}
    \cup {s \in {<<"CONFIGURE", "DATA_CHECK">>} : type = "CHANGE_STATE_EVENT_REQUEST"}

\* What each table says of each message.
Orderly(type, def) ==
    /\ def.elems.mandatory \cap def.elems.optional = {}
    /\ type \in Spoken => def.elems.mandatory \cap Unsent = {}
    /\ type = "CONFIGURATION_STATUS_REQUEST" => def.elems.optional \cap Unsent = {}
    /\ def.states \subseteq Moves(type)

\* e is not in a list of def other than that of the ignored elements.
Untouched(def, e) ==
    e \notin def.elems.mandatory \cup def.elems.optional \cup def.elems.deleted

CapwapDef(type, def) ==
    /\ Orderly(type, def)
    /\ type = "JOIN_REQUEST" =>
           /\ def.receiver = "AC" /\ <<"JOIN", "JOIN">> \in def.states
           /\ WtpDescriptor \in def.elems.mandatory

BindingDef(type, def) ==
    /\ Orderly(type, def)
    /\ def.states = {}
    /\ \A e \in {WtpDescriptor, RadName, UserPassword, RadioConfiguration} :
           Untouched(def, e)
    /\ type \in {"JOIN_REQUEST", "JOIN_RESPONSE"} => def.receiver = "AC"

CiscoDef(type, def) ==
    /\ Orderly(type, def)
    /\ type = "DISCOVERY_REQUEST" => RadName \in def.elems.mandatory
    /\ type = "JOIN_REQUEST" =>
           def.receiver = "AC" /\ def.states = {} /\ Untouched(def, WtpDescriptor)
    /\ type = "CONFIGURATION_STATUS_REQUEST" => UserPassword \in def.elems.mandatory
    /\ type = "CONFIGURATION_STATUS_RESPONSE" =>
           RadioConfiguration \in def.elems.mandatory

\* The messages of CAPWAP.
LEMMA CapwapDefs == \A r \in capwap_messages : CapwapDef(r[1], r[2])
<1> USE DEF CapwapDef, WtpDescriptor, Orderly, Spoken, Requests, Responses, Moves,
            Stays, AcStates, Unsent, Msg, Elems, Plain, Cisco, Lwapp
<1>1. CapwapDef("DISCOVERY_REQUEST",
         Msg("AC", Stays({"DISCOVERY"}), capwap_discovery_request_elements))
  BY SMT DEF capwap_discovery_request_elements
<1>2. CapwapDef("DISCOVERY_RESPONSE",
         Msg("WTP", Stays({"DISCOVERY"}), capwap_discovery_response_elements))
  BY SMT DEF capwap_discovery_response_elements
<1>3. CapwapDef("PRIMARY_DISCOVERY_REQUEST",
         Msg("AC", Stays({"DISCOVERY"}), capwap_discovery_request_elements))
  BY SMT DEF capwap_discovery_request_elements
<1>4. CapwapDef("PRIMARY_DISCOVERY_RESPONSE",
         Msg("WTP", Stays({"DISCOVERY"}), capwap_discovery_response_elements))
  BY SMT DEF capwap_discovery_response_elements
<1>5. CapwapDef("JOIN_REQUEST",
         Msg("AC", Stays({"JOIN"}), capwap_join_request_elements))
  BY SMT DEF capwap_join_request_elements
<1>6. CapwapDef("JOIN_RESPONSE",
         Msg("WTP", Stays({"JOIN"}), capwap_join_response_elements))
  BY SMT DEF capwap_join_response_elements
<1>7. CapwapDef("CONFIGURATION_STATUS_REQUEST",
         Msg("AC", {<<"JOIN", "CONFIGURE">>},
             capwap_configuration_status_request_elements))
  BY SMT DEF capwap_configuration_status_request_elements
<1>8. CapwapDef("CONFIGURATION_STATUS_RESPONSE",
         Msg("WTP", Stays({"JOIN"}), capwap_configuration_status_response_elements))
  BY SMT DEF capwap_configuration_status_response_elements
<1>9. CapwapDef("CONFIGURATION_UPDATE_REQUEST",
         Msg("WTP", Stays({"RUN"}), capwap_configuration_update_request_elements))
  BY SMT DEF capwap_configuration_update_request_elements
<1>10. CapwapDef("CONFIGURATION_UPDATE_RESPONSE",
         Msg("AC", Stays({"RUN"}), capwap_configuration_update_response_elements))
  BY SMT DEF capwap_configuration_update_response_elements
<1>11. CapwapDef("CHANGE_STATE_EVENT_REQUEST",
         Msg("AC", {<<"CONFIGURE", "DATA_CHECK">>, <<"RUN", "RUN">>},
             capwap_change_state_event_request_elements))
  BY SMT DEF capwap_change_state_event_request_elements
<1>12. CapwapDef("CHANGE_STATE_EVENT_RESPONSE",
         Msg("WTP", Stays({"JOIN", "RUN"}),
             capwap_change_state_event_response_elements))
  BY SMT DEF capwap_change_state_event_response_elements
<1>13. CapwapDef("WTP_EVENT_REQUEST",
         Msg("AC", Stays({"RUN"}), capwap_wtp_event_request_elements))
  BY SMT DEF capwap_wtp_event_request_elements
<1>14. CapwapDef("WTP_EVENT_RESPONSE",
         Msg("WTP", {<<"JOIN", "-">>}, capwap_wtp_event_response_elements))
  BY SMT DEF capwap_wtp_event_response_elements
<1>15. CapwapDef("ECHO_REQUEST",
         Msg("AC", Stays({"RUN"}), capwap_echo_request_elements))
  BY SMT DEF capwap_echo_request_elements
<1>16. CapwapDef("ECHO_RESPONSE",
         Msg("WTP", {<<"RUN", "-">>}, capwap_echo_response_elements))
  BY SMT DEF capwap_echo_response_elements
<1> HIDE DEF CapwapDef, Msg, Stays
<1> QED BY <1>1, <1>2, <1>3, <1>4, <1>5, <1>6, <1>7, <1>8, <1>9, <1>10, <1>11,
          <1>12, <1>13, <1>14, <1>15, <1>16, SMT DEF capwap_messages

\* The elements the binding adds to them.
LEMMA BindingDefs == \A r \in capwap80211_messages : BindingDef(r[1], r[2])
<1> USE DEF BindingDef, Untouched, WtpDescriptor, RadName, UserPassword,
            RadioConfiguration, Orderly, Spoken, Requests, Responses, Moves, Stays,
            AcStates, Unsent, Msg, Elems, Plain, Cisco, Lwapp
<1>1. BindingDef("DISCOVERY_REQUEST",
         Msg("AC", {}, capwap80211_discovery_request_elements))
  BY SMT DEF capwap80211_discovery_request_elements
<1>2. BindingDef("DISCOVERY_RESPONSE",
         Msg("WTP", {}, capwap80211_discovery_response_elements))
  BY SMT DEF capwap80211_discovery_response_elements
<1>3. BindingDef("JOIN_REQUEST",
         Msg("AC", {}, capwap80211_join_request_elements))
  BY SMT DEF capwap80211_join_request_elements
<1>4. BindingDef("JOIN_RESPONSE",
         Msg("AC", {}, capwap80211_join_response_elements))
  BY SMT DEF capwap80211_join_response_elements
<1>5. BindingDef("CONFIGURATION_STATUS_RESPONSE",
         Msg("WTP", {}, capwap80211_configuration_status_response_elements))
  BY SMT DEF capwap80211_configuration_status_response_elements
<1> HIDE DEF BindingDef, Msg, Stays
<1> QED BY <1>1, <1>2, <1>3, <1>4, <1>5, SMT DEF capwap80211_messages

\* What Cisco makes of them.
LEMMA CiscoDefs == \A r \in cisco_messages : CiscoDef(r[1], r[2])
<1> USE DEF CiscoDef, Untouched, WtpDescriptor, RadName, UserPassword,
            RadioConfiguration, Orderly, Spoken, Requests, Responses, Moves, Stays,
            AcStates, Unsent, Msg, Elems, Plain, Cisco, Lwapp
<1>1. CiscoDef("DISCOVERY_REQUEST",
         Msg("AC", {}, cisco_discovery_request_elements))
  BY SMT DEF cisco_discovery_request_elements
<1>2. CiscoDef("DISCOVERY_RESPONSE",
         Msg("WTP", {}, cisco_discovery_response_elements))
  BY SMT DEF cisco_discovery_response_elements
<1>3. CiscoDef("PRIMARY_DISCOVERY_REQUEST",
         Msg("AC", {}, cisco_discovery_request_elements))
  BY SMT DEF cisco_discovery_request_elements
<1>4. CiscoDef("PRIMARY_DISCOVERY_RESPONSE",
         Msg("WTP", {}, cisco_discovery_response_elements))
  BY SMT DEF cisco_discovery_response_elements
<1>5. CiscoDef("JOIN_REQUEST", Msg("AC", {}, cisco_join_request_elements))
  BY SMT DEF cisco_join_request_elements
<1>6. CiscoDef("JOIN_RESPONSE", Msg("WTP", {}, cisco_join_response_elements))
  BY SMT DEF cisco_join_response_elements
<1>7. CiscoDef("CONFIGURATION_STATUS_REQUEST",
         Msg("AC", {<<"JOIN", "CONFIGURE">>, <<"RUN", "RUN">>},
             cisco_configuration_status_request_elements))
  BY SMT DEF cisco_configuration_status_request_elements, Unnamed
<1>8. CiscoDef("CONFIGURATION_STATUS_RESPONSE",
         Msg("WTP", {}, cisco_configuration_status_response_elements))
  BY SMT DEF cisco_configuration_status_response_elements, Unnamed
<1>9. CiscoDef("CONFIGURATION_UPDATE_REQUEST",
         Msg("WTP", {}, cisco_configuration_update_request_elements))
  BY SMT DEF cisco_configuration_update_request_elements, Unnamed
<1>10. CiscoDef("WTP_EVENT_REQUEST",
         Msg("AC", {}, cisco_wtp_event_request_elements))
  BY SMT DEF cisco_wtp_event_request_elements
<1>11. CiscoDef("WTP_EVENT_RESPONSE",
         Msg("WTP", {}, cisco_wtp_event_response_elements))
  BY SMT DEF cisco_wtp_event_response_elements
<1>12. CiscoDef("CHANGE_STATE_EVENT_REQUEST",
         Msg("AC", {}, cisco_change_state_event_request_elements))
  BY SMT DEF cisco_change_state_event_request_elements
<1>13. CiscoDef("CHANGE_STATE_EVENT_RESPONSE",
         Msg("WTP", {}, cisco_change_state_event_response_elements))
  BY SMT DEF cisco_change_state_event_response_elements
<1>14. CiscoDef("ECHO_RESPONSE",
         Msg("WTP", {}, cisco_wtp_echo_response_elements))
  BY SMT DEF cisco_wtp_echo_response_elements
<1> HIDE DEF CiscoDef, Msg, Stays
<1> QED BY <1>1, <1>2, <1>3, <1>4, <1>5, <1>6, <1>7, <1>8, <1>9, <1>10, <1>11,
          <1>12, <1>13, <1>14, SMT DEF cisco_messages

-----------------------------------------------------------------------------
(* The tables. *)

\* What a table says of a key is in one of its rows.
LEMMA RowOf ==
    ASSUME NEW rows, NEW e \in DOMAIN TableOf(rows)
    PROVE  \E r \in rows : r[1] = e /\ TableOf(rows)[e] = r[2]
<1>1. PICK r \in rows : r[1] = e
  BY DEF TableOf
<1>2. TableOf(rows)[e] = (CHOOSE x \in rows : x[1] = e)[2]
  BY DEF TableOf
<1>3. (CHOOSE x \in rows : x[1] = e) \in rows /\ (CHOOSE x \in rows : x[1] = e)[1] = e
  BY <1>1
<1> QED BY <1>2, <1>3

\* Every row of a table has its key in it.
LEMMA KeyOf == ASSUME NEW rows, NEW r \in rows PROVE r[1] \in DOMAIN TableOf(rows)
BY DEF TableOf

\* Every handler of mod_capwap takes what it writes; one of them ends the program.
LEMMA CapwapRows ==
    \A e \in DOMAIN handlers["capwap"] : OfCapwap(e, handlers["capwap"][e])
<1>1. handlers["capwap"] = TableOf(capwap_handlers)
  BY DEF handlers
<1>2. \A r \in capwap_handlers : OfCapwap(r[1], r[2])
  BY RowsCapwapDiscovery, RowsCapwapJoin, RowsCapwapConfiguration DEF capwap_handlers
<1> QED BY <1>1, <1>2, RowOf

\* Every handler of the binding takes what it writes.
LEMMA BindingRows ==
    \A e \in DOMAIN handlers["capwap80211"] : OfBinding(e, handlers["capwap80211"][e])
<1>1. handlers["capwap80211"] = TableOf(capwap80211_handlers)
  BY DEF handlers
<1> QED BY <1>1, RowsBinding, RowOf

\* The handlers of Cisco, but for those of elements that no message carries.
LEMMA Rows70 == \A e \in DOMAIN handlers["cisco70"] : Of70(e, handlers["cisco70"][e])
<1>1. handlers["cisco70"] = TableOf(cisco_handlers70)
  BY DEF handlers
<1>2. \A r \in cisco_handlers70 : Of70(r[1], r[2])
  BY Rows70Identity, Rows70Ap, Rows70Board, Rows70Radio, Rows70Channel, Rows70Unknown,
     Rows70Service, Rows70Wlan, Rows70State DEF cisco_handlers70
<1> QED BY <1>1, <1>2, RowOf

\* The handlers of the later versions leave Cisco's own elements alone, and the
\* one of WTP_RADIO_CONFIGURATION cannot be written.
LEMMA LaterRows ==
    \A t \in {"cisco73", "cisco75"} : \A e \in DOMAIN handlers[t] :
        OfLater(e, handlers[t][e])
<1>1. handlers["cisco73"] = TableOf(cisco_handlers73)
  BY DEF handlers
<1>2. handlers["cisco75"] = TableOf(cisco_handlers75)
  BY DEF handlers
<1>3. \A e \in DOMAIN handlers["cisco73"] : OfLater(e, handlers["cisco73"][e])
  BY <1>1, Rows73, RowOf
<1>4. \A e \in DOMAIN handlers["cisco75"] : OfLater(e, handlers["cisco75"][e])
  BY <1>2, Rows75, RowOf
<1> QED BY <1>3, <1>4

Own == {WtpDescriptor, AcDescriptor, OperationalState, RadName, UserPassword}

\* Version 7.0 has handlers of its own for the elements of Own.
LEMMA Keys70 ==
    Own \cup {RadioConfiguration} \subseteq DOMAIN handlers["cisco70"]
<1>1. handlers["cisco70"] = TableOf(cisco_handlers70)
  BY DEF handlers
<1>2. \A e \in {WtpDescriptor, AcDescriptor} :
          <<e, LongStruct(4, 128)>> \in cisco_handlers70
  BY SMT DEF cisco_handlers70, cisco_identity_handlers, Each, Plain, WtpDescriptor,
             AcDescriptor
<1>3. <<RadName, Text(1, 512)>> \in cisco_handlers70
  BY SMT DEF cisco_handlers70, cisco_identity_handlers, Each, Cisco, RadName
<1>4. \E h : <<OperationalState, h>> \in cisco_handlers70
  BY SMT DEF cisco_handlers70, cisco_state_handlers, Each, Plain, OperationalState
<1>5. \E h : <<UserPassword, h>> \in cisco_handlers70
  BY SMT DEF cisco_handlers70, cisco_ap_handlers, Each, Lwapp, UserPassword
<1>6. \E h : <<RadioConfiguration, h>> \in cisco_handlers70
  BY SMT DEF cisco_handlers70, cisco_radio_handlers, Each, Cisco, RadioConfiguration
<1>7. \A e, h : <<e, h>> \in cisco_handlers70 => e \in DOMAIN handlers["cisco70"]
  BY <1>1, KeyOf
<1> QED BY <1>2, <1>3, <1>4, <1>5, <1>6, <1>7 DEF Own

\* A row of a table for a single element.
LEMMA EachHas == \A S, e, h : e \in S => <<e, h>> \in Each(S, h)
BY SMT DEF Each

\* An element of a vendor specific payload of Cisco.
LEMMA CiscoHas == \A S, x : x \in S => <<"cisco", x>> \in Cisco(S)
BY SMT DEF Cisco

\* A table that has a row for an element of Cisco has it as a key.
LEMMA CiscoRow ==
    ASSUME NEW x, NEW h, NEW rows, Each(Cisco({x}), h) \subseteq rows
    PROVE  <<"cisco", x>> \in DOMAIN TableOf(rows)
<1> DEFINE e == <<"cisco", x>>
<1>1. e \in Cisco({x})
  BY CiscoHas
<1> HIDE DEF e
<1>2. <<e, h>> \in rows
  BY <1>1, EachHas
<1>3. <<e, h>>[1] = e
  OBVIOUS
<1>4. e \in DOMAIN TableOf(rows)
  BY <1>2, <1>3, KeyOf
<1> QED BY <1>4 DEF e

\* Both later versions replace the handler of WTP_RADIO_CONFIGURATION.
LEMMA KeysLater ==
    /\ RadioConfiguration \in DOMAIN handlers["cisco73"]
    /\ RadioConfiguration \in DOMAIN handlers["cisco75"]
<1> DEFINE h73 == Exits(OfRadio(Struct(27, 27, 1 + cisco_wtp_radio_config73)))
           h75 == Exits(OfRadio(Struct(28, 28, 1 + cisco_wtp_radio_config75)))
<1>1. handlers["cisco73"] = TableOf(cisco_handlers73)
  BY DEF handlers
<1>2. handlers["cisco75"] = TableOf(cisco_handlers75)
  BY DEF handlers
<1>3. Each(Cisco({"WTP_RADIO_CONFIGURATION"}), h73) \subseteq cisco_handlers73
  BY Zenon DEF cisco_handlers73
<1>4. Each(Cisco({"WTP_RADIO_CONFIGURATION"}), h75) \subseteq cisco_handlers75
  BY Zenon DEF cisco_handlers75
<1> HIDE DEF h73, h75
<1> QED BY <1>1, <1>2, <1>3, <1>4, CiscoRow DEF RadioConfiguration

\* mod_capwap has a handler for the descriptor of the WTP.
LEMMA KeyCapwap == WtpDescriptor \in DOMAIN handlers["capwap"]
<1>1. handlers["capwap"] = TableOf(capwap_handlers)
  BY DEF handlers
<1>2. \E h : <<WtpDescriptor, h>> \in capwap_handlers
  BY SMT DEF capwap_handlers, capwap_discovery_handlers, Each, Plain, WtpDescriptor
<1> QED BY <1>1, <1>2, KeyOf

\* mod_capwap has every message of a session.
LEMMA CapwapTypes == Spoken \subseteq DOMAIN messages["capwap"]
<1>1. messages["capwap"] = TableOf(capwap_messages)
  BY DEF messages
<1>2. \A type \in Spoken : \E d : <<type, d>> \in capwap_messages
  BY SMT DEF capwap_messages, Spoken, Requests, Responses
<1> QED BY <1>1, <1>2, KeyOf

\* mod_cisco has the messages CiscoDef speaks of.
LEMMA CiscoTypes ==
    {"DISCOVERY_REQUEST", "CONFIGURATION_STATUS_REQUEST",
     "CONFIGURATION_STATUS_RESPONSE"}
        \subseteq DOMAIN messages["cisco70"]
<1>1. messages["cisco70"] = TableOf(cisco_messages)
  BY DEF messages
<1>2. \A type \in {"DISCOVERY_REQUEST", "CONFIGURATION_STATUS_REQUEST",
                   "CONFIGURATION_STATUS_RESPONSE"} :
          \E d : <<type, d>> \in cisco_messages
  BY SMT DEF cisco_messages
<1> QED BY <1>1, <1>2, KeyOf

\* The binding has the Join Response.
LEMMA BindingTypes == "JOIN_RESPONSE" \in DOMAIN messages["capwap80211"]
<1>1. messages["capwap80211"] = TableOf(capwap80211_messages)
  BY DEF messages
<1>2. \E d : <<"JOIN_RESPONSE", d>> \in capwap80211_messages
  BY SMT DEF capwap80211_messages
<1> QED BY <1>1, <1>2, KeyOf

\* The later versions have no messages.
LEMMA LaterTypes == \A t \in {"cisco73", "cisco75"} : DOMAIN messages[t] = {}
BY DEF messages

\* What CapwapDef says holds of the messages of mod_capwap,
LEMMA CapwapIs ==
    \A type \in DOMAIN messages["capwap"] : CapwapDef(type, messages["capwap"][type])
<1>1. messages["capwap"] = TableOf(capwap_messages)
  BY DEF messages
<1> QED BY <1>1, CapwapDefs, RowOf

\* ... what BindingDef says of those of the binding,
LEMMA BindingIs ==
    \A type \in DOMAIN messages["capwap80211"] :
        BindingDef(type, messages["capwap80211"][type])
<1>1. messages["capwap80211"] = TableOf(capwap80211_messages)
  BY DEF messages
<1> QED BY <1>1, BindingDefs, RowOf

\* ... and what CiscoDef says of those of mod_cisco.
LEMMA CiscoIs ==
    \A type \in DOMAIN messages["cisco70"] : CiscoDef(type, messages["cisco70"][type])
<1>1. messages["cisco70"] = TableOf(cisco_messages)
  BY DEF messages
<1> QED BY <1>1, CiscoDefs, RowOf

\* No table makes an element mandatory and optional, has an element without a
\* working handler in a message that is sent, or leads out of a state but by
\* the two requests that do.
LEMMA AllOrderly ==
    \A t \in Tables : \A type \in DOMAIN messages[t] : Orderly(type, messages[t][type])
BY CapwapIs, BindingIs, CiscoIs, LaterTypes
   DEF CapwapDef, BindingDef, CiscoDef, Tables

-----------------------------------------------------------------------------
(* Message sets. *)

GoodMsg(type, m, known) ==
    /\ m.mandatory \cap m.optional = {}
    /\ m.mandatory \cup m.optional \subseteq m.allowed
    /\ m.allowed \subseteq known
    /\ m.states \subseteq Moves(type)
    /\ type \in Spoken => m.mandatory \cap Unsent = {}
    /\ type = "CONFIGURATION_STATUS_REQUEST" => m.optional \cap Unsent = {}

GoodHandlers(set) ==
    \A e \in DOMAIN set.handlers :
        set.handlers[e] \in Tables /\ e \in DOMAIN handlers[set.handlers[e]]

Good(set) ==
    /\ GoodHandlers(set)
    /\ \A type \in DOMAIN set.msgs :
           GoodMsg(type, set.msgs[type], DOMAIN set.handlers)

\* An update of a message (cw_msgset_add) keeps it good: what a definition
\* lists anew, ignores or deletes never leaves an element in both lists, in a
\* list but not in the tree, or in the tree without a handler.
LEMMA UpdateGood ==
    ASSUME NEW type, NEW m, NEW def, NEW old, NEW known, old \subseteq known,
           GoodMsg(type, m, old), Orderly(type, def)
    PROVE  GoodMsg(type, UpdateMessage(m, def, known), known)
<1> DEFINE u == UpdateMessage(m, def, known)
           mandatory == def.elems.mandatory \cap known
           optional  == def.elems.optional \cap known
           ignored   == def.elems.ignored \cap known
           deleted   == def.elems.deleted \cap known
           listed    == mandatory \cup optional
<1>1. /\ u.mandatory = (m.mandatory \ (listed \cup deleted)) \cup mandatory
      /\ u.optional = (m.optional \ (listed \cup deleted)) \cup optional
      /\ u.allowed = (m.allowed \ (listed \cup deleted)) \cup listed \cup ignored
      /\ u.states = IF def.states = {} THEN m.states ELSE def.states
  BY DEF UpdateMessage, Kept, StatesOf
<1>2. mandatory \cap optional = {}
  BY DEF Orderly
<1>3. /\ type \in Spoken => mandatory \cap Unsent = {}
      /\ type = "CONFIGURATION_STATUS_REQUEST" => optional \cap Unsent = {}
      /\ def.states \subseteq Moves(type)
  BY DEF Orderly
<1>4. mandatory \subseteq known /\ optional \subseteq known /\ ignored \subseteq known
  OBVIOUS
<1> HIDE DEF u, mandatory, optional, ignored, deleted
<1>5. u.mandatory \cap u.optional = {}
  BY <1>1, <1>2 DEF GoodMsg
<1>6. u.mandatory \cup u.optional \subseteq u.allowed
  BY <1>1 DEF GoodMsg
<1>7. u.allowed \subseteq known
  BY <1>1, <1>4 DEF GoodMsg
<1>8. u.states \subseteq Moves(type)
  BY <1>1, <1>3 DEF GoodMsg
<1>9. type \in Spoken => u.mandatory \cap Unsent = {}
  BY <1>1, <1>3 DEF GoodMsg
<1>10. type = "CONFIGURATION_STATUS_REQUEST" => u.optional \cap Unsent = {}
  BY <1>1, <1>3 DEF GoodMsg
<1>11. GoodMsg(type, u, known)
  BY <1>5, <1>6, <1>7, <1>8, <1>9, <1>10 DEF GoodMsg
<1> QED BY <1>11 DEF u

\* A message that is new to the set has nothing that could be wrong.
LEMMA NewGood == ASSUME NEW type, NEW known PROVE GoodMsg(type, NewMessage, known)
BY DEF GoodMsg, NewMessage

\* Nor has an empty set.
LEMMA EmptyGood == Good(EmptySet)
BY DEF Good, GoodHandlers, EmptySet

\* What the fields of a set are after cw_msgset_add.
LEMMA Added ==
    ASSUME NEW set, NEW table
    PROVE  /\ Add(set, table).handlers = ById(set, table)
           /\ Add(set, table).toRun = set.toRun
           /\ DOMAIN Add(set, table).msgs = DOMAIN set.msgs \cup DOMAIN messages[table]
           /\ DOMAIN ById(set, table) = DOMAIN set.handlers \cup DOMAIN handlers[table]
BY DEF Add, ById, Onto, Named

\* The handler of the table added last is the one that counts.
LEMMA AddedHandler ==
    ASSUME NEW set, NEW table, NEW e \in DOMAIN ById(set, table)
    PROVE  ById(set, table)[e] = IF e \in DOMAIN handlers[table] THEN table
                                                              ELSE set.handlers[e]
BY DEF ById, Onto, Named

\* A message the table does not list stays as it was.
LEMMA AddedMsg ==
    ASSUME NEW set, NEW table, NEW type \in DOMAIN set.msgs \cup DOMAIN messages[table]
    PROVE  Add(set, table).msgs[type] =
               IF type \in DOMAIN messages[table]
               THEN UpdateMessage(Known(set, type), messages[table][type],
                                  DOMAIN ById(set, table))
               ELSE set.msgs[type]
BY DEF Add

\* What an update makes of a message, in so far as it is needed below.
LEMMA Updated ==
    ASSUME NEW m, NEW def, NEW known
    PROVE  /\ UpdateMessage(m, def, known).receiver = def.receiver
           /\ UpdateMessage(m, def, known).states
                = IF def.states = {} THEN m.states ELSE def.states
           /\ \A e \in known : e \in def.elems.mandatory =>
                  e \in UpdateMessage(m, def, known).mandatory
           /\ \A e \in m.mandatory : Untouched(def, e) =>
                  e \in UpdateMessage(m, def, known).mandatory
BY DEF UpdateMessage, StatesOf, Kept, Untouched

\* A good set stays good whichever of the five tables is added, in whatever order.
LEMMA AddGood ==
    ASSUME NEW set, Good(set), NEW table \in Tables
    PROVE  Good(Add(set, table))
<1> DEFINE s == Add(set, table)
           known == DOMAIN ById(set, table)
<1>1. s.handlers = ById(set, table) /\ DOMAIN s.handlers = known
  BY Added
<1>2. known = DOMAIN set.handlers \cup DOMAIN handlers[table]
  BY Added
<1>3. GoodHandlers(s)
  <2> SUFFICES ASSUME NEW e \in known
               PROVE  /\ ById(set, table)[e] \in Tables
                      /\ e \in DOMAIN handlers[ById(set, table)[e]]
    BY <1>1 DEF GoodHandlers
  <2>1. CASE e \in DOMAIN handlers[table]
    BY <2>1, AddedHandler
  <2>2. CASE e \notin DOMAIN handlers[table]
    <3>1. e \in DOMAIN set.handlers
      BY <2>2, <1>2
    <3> QED BY <3>1, <2>2, AddedHandler DEF Good, GoodHandlers
  <2> QED BY <2>1, <2>2
<1>4. ASSUME NEW type \in DOMAIN s.msgs PROVE GoodMsg(type, s.msgs[type], known)
  <2>1. type \in DOMAIN set.msgs \cup DOMAIN messages[table]
    BY Added
  <2>2. CASE type \in DOMAIN messages[table]
    <3>1. s.msgs[type] = UpdateMessage(Known(set, type), messages[table][type], known)
      BY <2>1, <2>2, AddedMsg
    <3>2. GoodMsg(type, Known(set, type), DOMAIN set.handlers)
      BY NewGood DEF Known, Good
    <3>3. DOMAIN set.handlers \subseteq known
      BY <1>2
    <3>4. Orderly(type, messages[table][type])
      BY <2>2, AllOrderly
    <3> HIDE DEF known, s
    <3> QED BY <3>1, <3>2, <3>3, <3>4, UpdateGood
  <2>3. CASE type \notin DOMAIN messages[table]
    <3>1. type \in DOMAIN set.msgs /\ s.msgs[type] = set.msgs[type]
      BY <2>1, <2>3, AddedMsg
    <3>2. GoodMsg(type, set.msgs[type], DOMAIN set.handlers)
      BY <3>1 DEF Good
    <3>3. DOMAIN set.handlers \subseteq known
      BY <1>2
    <3> HIDE DEF known, s
    <3> QED BY <3>1, <3>2, <3>3 DEF GoodMsg
  <2> QED BY <2>2, <2>3
<1> HIDE DEF s, known
<1>5. Good(s)
  BY <1>1, <1>3, <1>4 DEF Good
<1> QED BY <1>5 DEF s

JoinHeard(set) ==
    /\ "JOIN_REQUEST" \in DOMAIN set.msgs
    /\ set.msgs["JOIN_REQUEST"].receiver = "AC"
    /\ \E s \in set.msgs["JOIN_REQUEST"].states : s[1] = "JOIN"
    /\ WtpDescriptor \in set.msgs["JOIN_REQUEST"].mandatory

Complete(set) == Spoken \subseteq DOMAIN set.msgs

OwnHandlers(set) ==
    \A e \in Own : e \in DOMAIN set.handlers /\ set.handlers[e] = "cisco70"

\* What a set has once the module cisco is registered.
CiscoLists(set) ==
    /\ RadName \in set.msgs["DISCOVERY_REQUEST"].mandatory
    /\ UserPassword \in set.msgs["CONFIGURATION_STATUS_REQUEST"].mandatory
    /\ RadioConfiguration \in set.msgs["CONFIGURATION_STATUS_RESPONSE"].mandatory

CiscoSpoken(set) ==
    /\ Complete(set) /\ JoinHeard(set) /\ OwnHandlers(set) /\ CiscoLists(set)
    /\ RadioConfiguration \in DOMAIN set.handlers

PlainOnly(set) == \A e \in DOMAIN set.handlers : e[1] = "plain"

Early(set) ==
    \A e \in DOMAIN set.handlers :
        set.handlers[e] \in {"capwap", "capwap80211", "cisco70"}

Silent(set) == \A type \in DOMAIN set.msgs : set.msgs[type].states = {}

\* A table only adds messages.
LEMMA AddedTypes ==
    ASSUME NEW set, NEW table, NEW type
    PROVE  type \in DOMAIN Add(set, table).msgs
             <=> type \in DOMAIN set.msgs \/ type \in DOMAIN messages[table]
BY DEF Add

\* A table only adds elements, and takes over those it has.
LEMMA AddedElements ==
    ASSUME NEW set, NEW table, NEW e
    PROVE  /\ e \in DOMAIN Add(set, table).handlers
                <=> e \in DOMAIN set.handlers \/ e \in DOMAIN handlers[table]
           /\ e \in DOMAIN handlers[table] => Add(set, table).handlers[e] = table
           /\ e \in DOMAIN set.handlers /\ e \notin DOMAIN handlers[table]
                => Add(set, table).handlers[e] = set.handlers[e]
<1>1. /\ Add(set, table).handlers = ById(set, table)
      /\ DOMAIN ById(set, table) = DOMAIN set.handlers \cup DOMAIN handlers[table]
  BY Added
<1> QED BY <1>1, AddedHandler

\* Nothing that is there gets lost.
LEMMA AddKeeps ==
    ASSUME NEW set, NEW table
    PROVE  /\ Complete(set) => Complete(Add(set, table))
           /\ Early(set) /\ table \in {"capwap", "capwap80211", "cisco70"}
                => Early(Add(set, table))
           /\ PlainOnly(set) /\ (\A e \in DOMAIN handlers[table] : e[1] = "plain")
                => PlainOnly(Add(set, table))
<1>1. Complete(set) => Complete(Add(set, table))
  BY AddedTypes DEF Complete
<1>2. ASSUME Early(set), table \in {"capwap", "capwap80211", "cisco70"}
      PROVE  Early(Add(set, table))
  BY <1>2, AddedElements DEF Early
<1>3. ASSUME PlainOnly(set), \A e \in DOMAIN handlers[table] : e[1] = "plain"
      PROVE  PlainOnly(Add(set, table))
  BY <1>3, AddedElements DEF PlainOnly
<1> QED BY <1>1, <1>2, <1>3

\* With mod_capwap a set has every message, and a controller in the state JOIN
\* hears the Join Request, which tells the descriptor.
LEMMA AddCapwap ==
    ASSUME NEW set, Good(set)
    PROVE  /\ Complete(Add(set, "capwap"))
           /\ JoinHeard(Add(set, "capwap"))
<1> DEFINE s == Add(set, "capwap")
           j == "JOIN_REQUEST"
           def == messages["capwap"][j]
           known == DOMAIN ById(set, "capwap")
<1>1. Complete(s)
  BY AddedTypes, CapwapTypes DEF Complete
<1>2. j \in DOMAIN messages["capwap"] /\ j \in DOMAIN s.msgs
  BY <1>1, CapwapTypes DEF Complete, Spoken, Requests
<1>3. s.msgs[j] = UpdateMessage(Known(set, j), def, known)
  BY <1>2, AddedMsg
<1>4. /\ def.receiver = "AC" /\ <<"JOIN", "JOIN">> \in def.states
      /\ WtpDescriptor \in def.elems.mandatory
  BY <1>2, CapwapIs DEF CapwapDef
<1>5. WtpDescriptor \in known
  BY AddedElements, Added, KeyCapwap
<1>6. s.msgs[j].receiver = "AC" /\ WtpDescriptor \in s.msgs[j].mandatory
  BY <1>3, <1>4, <1>5, Updated
<1>7. <<"JOIN", "JOIN">> \in s.msgs[j].states
  <2>1. def.states # {}
    BY <1>4
  <2>2. s.msgs[j].states = def.states
    BY <1>3, <2>1, Updated
  <2> QED BY <1>4, <2>2
<1> HIDE DEF s
<1>8. JoinHeard(s)
  BY <1>2, <1>6, <1>7 DEF JoinHeard
<1> QED BY <1>1, <1>8 DEF s

\* A table that leaves the Join Request alone, but for elements of its own.
LEMMA JoinKept ==
    ASSUME NEW set, NEW table, JoinHeard(set),
           "JOIN_REQUEST" \in DOMAIN messages[table] =>
               LET def == messages[table]["JOIN_REQUEST"]
               IN  /\ def.receiver = "AC" /\ def.states = {}
                   /\ Untouched(def, WtpDescriptor)
    PROVE  JoinHeard(Add(set, table))
<1> DEFINE s == Add(set, table)
           j == "JOIN_REQUEST"
           def == messages[table][j]
<1>1. j \in DOMAIN set.msgs /\ j \in DOMAIN s.msgs
  BY AddedTypes DEF JoinHeard
<1>2. CASE j \in DOMAIN messages[table]
  <2>1. def.receiver = "AC" /\ def.states = {} /\ Untouched(def, WtpDescriptor)
    BY <1>2
  <2>2. s.msgs[j] = UpdateMessage(set.msgs[j], def, DOMAIN ById(set, table))
    BY <1>1, <1>2, AddedMsg DEF Known
  <2> HIDE DEF s, def
  <2>3. /\ s.msgs[j].receiver = "AC" /\ s.msgs[j].states = set.msgs[j].states
        /\ WtpDescriptor \in s.msgs[j].mandatory
    BY <2>1, <2>2, Updated DEF JoinHeard
  <2>4. JoinHeard(s)
    BY <1>1, <2>3 DEF JoinHeard
  <2> QED BY <2>4 DEF s
<1>3. CASE j \notin DOMAIN messages[table]
  <2>1. s.msgs[j] = set.msgs[j]
    BY <1>1, <1>3, AddedMsg
  <2> HIDE DEF s
  <2>2. JoinHeard(s)
    BY <1>1, <2>1 DEF JoinHeard
  <2> QED BY <2>2 DEF s
<1> QED BY <1>2, <1>3

\* A mandatory element stays one if a table does not list or delete it.
LEMMA MandatoryKept ==
    ASSUME NEW set, NEW table, NEW type \in DOMAIN set.msgs,
           NEW e \in set.msgs[type].mandatory,
           type \in DOMAIN messages[table] => Untouched(messages[table][type], e)
    PROVE  e \in Add(set, table).msgs[type].mandatory
<1>1. CASE type \in DOMAIN messages[table]
  <2>1. Add(set, table).msgs[type]
          = UpdateMessage(set.msgs[type], messages[table][type], DOMAIN ById(set, table))
    BY <1>1, AddedMsg DEF Known
  <2> QED BY <1>1, <2>1, Updated
<1>2. CASE type \notin DOMAIN messages[table]
  BY <1>2, AddedMsg
<1> QED BY <1>1, <1>2

\* The binding leaves this alone, but declares the Join Response a message to the
\* controller (capwap80211_messages).
LEMMA AddBinding ==
    ASSUME NEW set, Good(set)
    PROVE  LET s == Add(set, "capwap80211")
           IN  /\ JoinHeard(set) => JoinHeard(s)
               /\ CiscoSpoken(set) => CiscoSpoken(s)
               /\ Silent(set) => Silent(s)
               /\ "JOIN_RESPONSE" \in DOMAIN s.msgs
               /\ s.msgs["JOIN_RESPONSE"].receiver = "AC"
<1> DEFINE t == "capwap80211"
           s == Add(set, t)
<1>1. ASSUME JoinHeard(set) PROVE JoinHeard(s)
  <2>1. "JOIN_REQUEST" \in DOMAIN messages[t] =>
            LET def == messages[t]["JOIN_REQUEST"]
            IN  def.receiver = "AC" /\ def.states = {} /\ Untouched(def, WtpDescriptor)
    BY BindingIs DEF BindingDef
  <2> QED BY <1>1, <2>1, JoinKept
<1>2. ASSUME CiscoSpoken(set) PROVE CiscoSpoken(s)
  <2>1. Complete(s) /\ JoinHeard(s)
    BY <1>1, <1>2, AddKeeps DEF CiscoSpoken
  <2>2. \A e \in Own : e \notin DOMAIN handlers[t]
    BY BindingRows DEF OfBinding, Own, WtpDescriptor, AcDescriptor, OperationalState,
                       RadName, UserPassword
  <2>3. OwnHandlers(s) /\ RadioConfiguration \in DOMAIN s.handlers
    BY <1>2, <2>2, AddedElements DEF CiscoSpoken, OwnHandlers
  <2>4. \A type \in DOMAIN messages[t] :
            \A e \in {RadName, UserPassword, RadioConfiguration} :
                Untouched(messages[t][type], e)
    BY BindingIs DEF BindingDef
  <2>5. {"DISCOVERY_REQUEST", "CONFIGURATION_STATUS_REQUEST",
         "CONFIGURATION_STATUS_RESPONSE"} \subseteq DOMAIN set.msgs
    BY <1>2 DEF CiscoSpoken, Complete, Spoken, Requests, Responses
  <2>6. CiscoLists(s)
    BY <1>2, <2>4, <2>5, MandatoryKept DEF CiscoSpoken, CiscoLists
  <2> HIDE DEF s
  <2> QED BY <2>1, <2>3, <2>6 DEF CiscoSpoken
<1>3. ASSUME Silent(set) PROVE Silent(s)
  <2> SUFFICES ASSUME NEW type \in DOMAIN s.msgs PROVE s.msgs[type].states = {}
    BY DEF Silent
  <2>1. type \in DOMAIN set.msgs \cup DOMAIN messages[t]
    BY AddedTypes
  <2>2. CASE type \in DOMAIN messages[t]
    <3>1. Known(set, type).states = {}
      BY <1>3 DEF Known, NewMessage, Silent
    <3>2. messages[t][type].states = {}
      BY <2>2, BindingIs DEF BindingDef
    <3> QED BY <2>1, <2>2, <3>1, <3>2, AddedMsg, Updated
  <2>3. CASE type \notin DOMAIN messages[t]
    BY <1>3, <2>1, <2>3, AddedMsg DEF Silent
  <2> QED BY <2>2, <2>3
<1>4. "JOIN_RESPONSE" \in DOMAIN s.msgs /\ s.msgs["JOIN_RESPONSE"].receiver = "AC"
  <2>1. messages[t]["JOIN_RESPONSE"].receiver = "AC"
    BY BindingTypes, BindingIs DEF BindingDef
  <2>2. s.msgs["JOIN_RESPONSE"]
          = UpdateMessage(Known(set, "JOIN_RESPONSE"), messages[t]["JOIN_RESPONSE"],
                          DOMAIN ById(set, t))
    BY BindingTypes, AddedMsg
  <2> QED BY <2>1, <2>2, BindingTypes, AddedTypes, Updated
<1> QED BY <1>1, <1>2, <1>3, <1>4

\* What the tables of Cisco make of a complete set.
LEMMA AddCisco ==
    ASSUME NEW set, Complete(set), JoinHeard(set)
    PROVE  CiscoSpoken(Add(set, "cisco70"))
<1> DEFINE t == "cisco70"
           s == Add(set, t)
           known == DOMAIN ById(set, t)
<1>1. Complete(s)
  BY AddKeeps
<1>2. JoinHeard(s)
  <2>1. "JOIN_REQUEST" \in DOMAIN messages[t] =>
            LET def == messages[t]["JOIN_REQUEST"]
            IN  def.receiver = "AC" /\ def.states = {} /\ Untouched(def, WtpDescriptor)
    BY CiscoIs DEF CiscoDef
  <2> QED BY <2>1, JoinKept
<1>3. \A e \in Own \cup {RadioConfiguration} : e \in known
  <2>1. s.handlers = ById(set, t)
    BY Added
  <2> QED BY <2>1, Keys70, AddedElements
<1>4. OwnHandlers(s) /\ RadioConfiguration \in DOMAIN s.handlers
  BY Keys70, AddedElements DEF OwnHandlers
<1>5. ASSUME NEW type \in DOMAIN messages[t], NEW e \in known,
             e \in messages[t][type].elems.mandatory
      PROVE  e \in s.msgs[type].mandatory
  BY <1>5, AddedMsg, Updated
<1>6. CiscoLists(s)
  <2>1. RadName \in known /\ UserPassword \in known /\ RadioConfiguration \in known
    BY <1>3 DEF Own
  <2> HIDE DEF s, known
  <2> QED BY <1>5, <2>1, CiscoTypes, CiscoIs DEF CiscoLists, CiscoDef
<1> HIDE DEF s
<1>7. CiscoSpoken(s)
  BY <1>1, <1>2, <1>4, <1>6 DEF CiscoSpoken
<1> QED BY <1>7 DEF s

\* The tables of the later versions have handlers only.
LEMMA AddLater ==
    ASSUME NEW set, NEW table \in {"cisco73", "cisco75"}
    PROVE  /\ CiscoSpoken(set) => CiscoSpoken(Add(set, table))
           /\ Silent(set) => Silent(Add(set, table))
           /\ RadioConfiguration \in DOMAIN Add(set, table).handlers
           /\ Add(set, table).handlers[RadioConfiguration] = table
<1> DEFINE s == Add(set, table)
<1>1. DOMAIN messages[table] = {}
  BY LaterTypes
<1>2. \A type : type \in DOMAIN s.msgs <=> type \in DOMAIN set.msgs
  BY <1>1, AddedTypes
<1>3. \A type \in DOMAIN set.msgs : s.msgs[type] = set.msgs[type]
  BY <1>1, AddedMsg
<1>4. RadioConfiguration \in DOMAIN s.handlers /\ s.handlers[RadioConfiguration] = table
  BY KeysLater, AddedElements
<1>5. \A e \in Own : e \notin DOMAIN handlers[table]
  BY LaterRows DEF OfLater, Own
<1>6. OwnHandlers(set) => OwnHandlers(s)
  BY <1>5, AddedElements DEF OwnHandlers
<1> HIDE DEF s
<1>7. JoinHeard(set) => JoinHeard(s)
  BY <1>2, <1>3 DEF JoinHeard
<1>8. Complete(set) => Complete(s)
  BY <1>2 DEF Complete
<1>9. Complete(set) /\ CiscoLists(set) => CiscoLists(s)
  <2>1. {"DISCOVERY_REQUEST", "CONFIGURATION_STATUS_REQUEST",
         "CONFIGURATION_STATUS_RESPONSE"} \subseteq Spoken
    BY DEF Spoken, Requests, Responses
  <2> QED BY <1>3, <2>1 DEF Complete, CiscoLists
<1>10. CiscoSpoken(set) => CiscoSpoken(s)
  BY <1>4, <1>6, <1>7, <1>8, <1>9 DEF CiscoSpoken
<1>11. Silent(set) => Silent(s)
  BY <1>2, <1>3 DEF Silent
<1> QED BY <1>4, <1>10, <1>11 DEF s

-----------------------------------------------------------------------------
(* What registering a module does. *)

\* The modes in which a module registers nothing.
LEMMA RegisterOther ==
    ASSUME NEW set
    PROVE  /\ Register(set, "capwap", "bindings") = set
           /\ Register(set, "cisco", "bindings") = set
           /\ Register(set, "none", "capwap") = set
           /\ Register(set, "none", "bindings") = set
           /\ Register(set, "capwap80211", "capwap") = set
           /\ Register(set, "capwap80211", "bindings") = Add(set, "capwap80211")
BY DEF Register

\* Registering mod_capwap.
LEMMA RegisterCapwap ==
    ASSUME NEW set, Good(set)
    PROVE  LET s == Register(set, "capwap", "capwap")
           IN  /\ Good(s) /\ Complete(s)
               /\ s.toRun = FALSE
               /\ Early(set) => Early(s)
               /\ PlainOnly(set) => PlainOnly(s)
<1> DEFINE a == Add(set, "capwap")
           s == Register(set, "capwap", "capwap")
<1>1. s = [a EXCEPT !.toRun = FALSE]
  BY DEF Register
<1>2. s.handlers = a.handlers /\ s.msgs = a.msgs /\ s.toRun = FALSE
  BY <1>1 DEF Add
<1>3. Good(a) /\ Complete(a)
  BY AddGood, AddCapwap DEF Tables
<1>4. (Early(set) => Early(a)) /\ (PlainOnly(set) => PlainOnly(a))
  BY AddKeeps, CapwapRows DEF OfCapwap
<1> HIDE DEF a, s
<1>5. Good(s) /\ Complete(s) /\ (Early(a) => Early(s)) /\ (PlainOnly(a) => PlainOnly(s))
  BY <1>2, <1>3 DEF Good, GoodHandlers, Complete, Early, PlainOnly
<1>6. Good(s) /\ Complete(s) /\ s.toRun = FALSE /\ (Early(set) => Early(s))
      /\ (PlainOnly(set) => PlainOnly(s))
  BY <1>2, <1>4, <1>5
<1> QED BY <1>6 DEF s

\* Registering mod_cisco, which brings in the two others.
LEMMA RegisterCisco ==
    ASSUME NEW set, Good(set)
    PROVE  LET s == Register(set, "cisco", "capwap")
           IN  /\ Good(s) /\ CiscoSpoken(s)
               /\ s.toRun = TRUE
               /\ Early(set) => Early(s)
<1> DEFINE a == Add(set, "capwap")
           b == Add(a, "capwap80211")
           c == Add(b, "cisco70")
           s == Register(set, "cisco", "capwap")
<1>1. s = [c EXCEPT !.toRun = TRUE]
  BY DEF Register
<1>2. s.handlers = c.handlers /\ s.msgs = c.msgs /\ s.toRun = TRUE
  BY <1>1 DEF Add
<1>3. Good(a) /\ Complete(a) /\ JoinHeard(a) /\ (Early(set) => Early(a))
  BY AddGood, AddCapwap, AddKeeps DEF Tables
<1> HIDE DEF a
<1>4. Good(b) /\ Complete(b) /\ JoinHeard(b) /\ (Early(a) => Early(b))
  BY <1>3, AddGood, AddBinding, AddKeeps DEF Tables
<1> HIDE DEF b
<1>5. Good(c) /\ CiscoSpoken(c) /\ (Early(b) => Early(c))
  BY <1>4, AddGood, AddCisco, AddKeeps DEF Tables
<1> HIDE DEF c, s
<1>6. Good(s) /\ CiscoSpoken(s) /\ (Early(c) => Early(s))
  BY <1>2, <1>5 DEF Good, GoodHandlers, CiscoSpoken, Complete, JoinHeard, OwnHandlers,
                    CiscoLists, Early
<1>7. Good(s) /\ CiscoSpoken(s) /\ s.toRun = TRUE /\ (Early(set) => Early(s))
  BY <1>2, <1>3, <1>4, <1>5, <1>6
<1> QED BY <1>7 DEF s

\* The set of a session for which the controller has detected the modules m.
SessionSet(set, m) ==
    /\ Good(set)
    /\ set.toRun = (m.capwap = "cisco")
    /\ m.capwap = "cisco" => CiscoSpoken(set)
    /\ m.capwap = "capwap" => Complete(set)
    /\ m.capwap = "none" => Silent(set)

Detectable(m) ==
    m.capwap \in {"cisco", "capwap", "none"} /\ m.bindings \in Modules \cup {"none"}

\* cw_mod_get_msg_set: the set for the modules that were detected.
LEMMA MsgSets ==
    ASSUME NEW m, Detectable(m)
    PROVE  SessionSet(MsgSetOf(m), m) /\ Early(MsgSetOf(m))
<1> DEFINE c == Register(EmptySet, m.capwap, "capwap")
           s == Register(c, m.bindings, "bindings")
<1>1. MsgSetOf(m) = s
  BY DEF MsgSetOf
<1>2. Good(EmptySet) /\ Early(EmptySet) /\ Silent(EmptySet) /\ EmptySet.toRun = FALSE
  BY EmptyGood DEF EmptySet, Early, Silent
<1>3. SessionSet(c, m) /\ Early(c)
  <2>1. CASE m.capwap = "cisco"
    <3>1. /\ Good(c) /\ CiscoSpoken(c) /\ c.toRun = TRUE /\ Early(c)
      BY <1>2, <2>1, RegisterCisco
    <3> HIDE DEF c
    <3> QED BY <2>1, <3>1 DEF SessionSet
  <2>2. CASE m.capwap = "capwap"
    <3>1. Good(c) /\ Complete(c) /\ c.toRun = FALSE /\ Early(c)
      BY <1>2, <2>2, RegisterCapwap
    <3> HIDE DEF c
    <3> QED BY <2>2, <3>1 DEF SessionSet
  <2>3. CASE m.capwap = "none"
    <3>1. c = EmptySet
      BY <2>3, RegisterOther
    <3> HIDE DEF c
    <3> QED BY <1>2, <2>3, <3>1 DEF SessionSet
  <2> QED BY <2>1, <2>2, <2>3 DEF Detectable
<1> HIDE DEF c
<1>4. CASE m.bindings = "capwap80211"
  <2>1. s = Add(c, "capwap80211")
    BY <1>4, RegisterOther
  <2> HIDE DEF s
  <2>2. Good(s) /\ s.toRun = c.toRun /\ Early(s)
    BY <1>3, <2>1, AddGood, Added, AddKeeps DEF SessionSet, Tables
  <2>3. /\ Complete(c) => Complete(s)
        /\ CiscoSpoken(c) => CiscoSpoken(s)
        /\ Silent(c) => Silent(s)
    BY <1>3, <2>1, AddBinding, AddKeeps DEF SessionSet
  <2>4. SessionSet(s, m)
    BY <1>3, <2>2, <2>3 DEF SessionSet
  <2> QED BY <1>1, <2>2, <2>4 DEF s
<1>5. CASE m.bindings # "capwap80211"
  <2>1. s = c
    BY <1>5, RegisterOther DEF Detectable, Modules
  <2> QED BY <1>1, <1>3, <2>1
<1> QED BY <1>4, <1>5

\* The tables of a later version leave the set of a session what it is.
LEMMA LaterSession ==
    ASSUME NEW set, NEW m, SessionSet(set, m), NEW table \in {"cisco73", "cisco75"}
    PROVE  SessionSet(Add(set, table), m)
<1> DEFINE s == Add(set, table)
<1>1. Good(s) /\ s.toRun = set.toRun
  BY AddGood, Added DEF SessionSet, Tables
<1>2. /\ Complete(set) => Complete(s)
      /\ CiscoSpoken(set) => CiscoSpoken(s)
      /\ Silent(set) => Silent(s)
  BY AddLater, AddKeeps
<1> HIDE DEF s
<1>3. SessionSet(s, m)
  BY <1>1, <1>2 DEF SessionSet
<1> QED BY <1>3 DEF s

\* set_ac_version: from version 7.3 on the radio configuration cannot be written.
LEMMA UpgradedIs ==
    ASSUME NEW set, NEW m, SessionSet(set, m), NEW version \in {70, 73, 75}
    PROVE  /\ SessionSet(Upgraded(set, version), m)
           /\ version < 73 => Upgraded(set, version) = set
           /\ version >= 73 =>
                /\ RadioConfiguration \in DOMAIN Upgraded(set, version).handlers
                /\ Upgraded(set, version).handlers[RadioConfiguration]
                      \in {"cisco73", "cisco75"}
<1> DEFINE for73 == Add(set, "cisco73")
<1>1. SessionSet(for73, m)
  BY LaterSession
<1>2. /\ RadioConfiguration \in DOMAIN for73.handlers
      /\ for73.handlers[RadioConfiguration] = "cisco73"
  BY AddLater
<1>3. CASE version = 70
  BY <1>3 DEF Upgraded
<1>4. CASE version = 73
  <2>1. Upgraded(set, version) = for73
    BY <1>4 DEF Upgraded
  <2> QED BY <1>1, <1>2, <1>4, <2>1
<1>5. CASE version = 75
  <2>1. Upgraded(set, version) = Add(for73, "cisco75")
    BY <1>5 DEF Upgraded
  <2> HIDE DEF for73
  <2>2. SessionSet(Add(for73, "cisco75"), m)
    BY <1>1, LaterSession
  <2>3. /\ RadioConfiguration \in DOMAIN Add(for73, "cisco75").handlers
        /\ Add(for73, "cisco75").handlers[RadioConfiguration] = "cisco75"
    BY AddLater
  <2> QED BY <1>5, <2>1, <2>2, <2>3
<1> QED BY <1>3, <1>4, <1>5

-----------------------------------------------------------------------------
(* Writing and reading. *)

\* What the handler of an element that is sent does, unless the table is of a
\* later version.
LEMMA RowIs ==
    ASSUME NEW set, Good(set), Early(set), NEW e \in DOMAIN set.handlers, e \notin Unsent
    PROVE  /\ Sound(e, Row(set, e))
           /\ Stops(Row(set, e)) => e = OperationalState /\ set.handlers[e] = "capwap"
<1>1. e \in DOMAIN handlers[set.handlers[e]]
  BY DEF Good, GoodHandlers
<1>2. set.handlers[e] \in {"capwap", "capwap80211", "cisco70"}
  BY DEF Early
<1>3. CASE set.handlers[e] = "capwap"
  BY <1>1, <1>3, CapwapRows DEF OfCapwap, Row
<1>4. CASE set.handlers[e] = "capwap80211"
  BY <1>1, <1>4, BindingRows DEF OfBinding, Row
<1>5. CASE set.handlers[e] = "cisco70"
  BY <1>1, <1>5, Rows70 DEF Of70, Row
<1> QED BY <1>2, <1>3, <1>4, <1>5

\* An element that is chosen for a message of a session has a handler, is allowed
\* in that message, and its handler is none of those that do not work.
LEMMA ChosenIs ==
    ASSUME NEW end, NEW set, Good(set), NEW type \in Spoken, type \in DOMAIN set.msgs,
           NEW e \in Chosen(end, set, type)
    PROVE  /\ e \in set.msgs[type].allowed /\ e \in DOMAIN set.handlers
           /\ e \notin Unsent
<1>1. GoodMsg(type, set.msgs[type], DOMAIN set.handlers)
  BY DEF Good
<1>2. \/ e \in set.msgs[type].mandatory
      \/ e \in set.msgs[type].optional /\ type = "CONFIGURATION_STATUS_REQUEST"
  BY DEF Chosen, ChosenOptional
<1> QED BY <1>1, <1>2 DEF GoodMsg

\* The elements of a message that has been written.
LEMMA ElementsOf ==
    ASSUME NEW end, NEW to, NEW set, NEW type,
           NEW x \in Message(end, to, set, type).elems
    PROVE  /\ x[1] \in Written(end, set, type)
           /\ x[1] \in Chosen(end, set, type)
           /\ x[2] \in Row(set, x[1]).sizes
<1>1. Message(end, to, set, type).elems
        = UNION {{<<e, n>> : n \in Row(set, e).sizes} : e \in Written(end, set, type)}
  BY DEF Message
<1>2. PICK e \in Written(end, set, type) : x \in {<<e, n>> : n \in Row(set, e).sizes}
  BY <1>1
<1>3. x[1] = e /\ x[2] \in Row(set, e).sizes
  BY <1>2
<1> QED BY <1>3 DEF Written

\* Where Cisco's handlers are in place, nothing that is sent stops the writer...
LEMMA WritesOn ==
    ASSUME NEW end, NEW set, Good(set), Early(set), OwnHandlers(set),
           NEW type \in Spoken, type \in DOMAIN set.msgs,
           \A e : HasValue(end, e)
    PROVE  ~ComposeExits(end, set, type)
<1> SUFFICES ASSUME NEW e \in Chosen(end, set, type), Row(set, e).put = "exits"
             PROVE  FALSE
  BY DEF ComposeExits
<1>1. e \in DOMAIN set.handlers /\ e \notin Unsent
  BY ChosenIs
<1>2. e = OperationalState /\ set.handlers[e] = "capwap"
  BY <1>1, RowIs DEF Stops
<1> QED BY <1>2 DEF OwnHandlers, Own

\* ... nor the reader.
LEMMA ReadsOn ==
    ASSUME NEW set, Good(set), Early(set), OwnHandlers(set),
           NEW m, \A x \in m.elems : x[1] \notin Unsent
    PROVE  ~DecodeExits(set, m)
<1> SUFFICES ASSUME NEW x \in Taken(set, m), Row(set, x[1]).get = "exits" PROVE FALSE
  BY DEF DecodeExits
<1>1. x[1] \in DOMAIN set.handlers /\ x[1] \notin Unsent
  BY DEF Taken
<1>2. x[1] = OperationalState /\ set.handlers[x[1]] = "capwap"
  BY <1>1, RowIs DEF Stops
<1> QED BY <1>2 DEF OwnHandlers, Own

-----------------------------------------------------------------------------
(* The WTP registers its modules. *)

\* The set of a WTP that has registered the first n modules of its list l.
WtpSet(set, l, n) ==
    /\ Good(set) /\ Early(set)
    /\ (\E i \in 1 .. n : l[i] = "cisco") => CiscoSpoken(set)
    /\ (\A i \in 1 .. n : l[i] # "cisco") => PlainOnly(set)
    /\ (\E i \in 1 .. n : l[i] # "capwap80211") => Complete(set)
    /\ n > 0 /\ l[n] = "capwap80211" =>
           /\ "JOIN_RESPONSE" \in DOMAIN set.msgs
           /\ set.msgs["JOIN_RESPONSE"].receiver = "AC"

\* A WTP that has registered nothing.
LEMMA WtpSetInit == \A l : WtpSet(EmptySet, l, 0)
<1>1. Good(EmptySet) /\ Early(EmptySet) /\ PlainOnly(EmptySet)
  BY EmptyGood DEF EmptySet, Early, PlainOnly
<1> QED BY <1>1 DEF WtpSet

\* One turn of the loop in main, for any list of modules.
LEMMA RegisterStep ==
    ASSUME NEW set, NEW l \in WtpLists, NEW n \in Nat, n < Len(l), WtpSet(set, l, n)
    PROVE  WtpSet(Register(Register(set, l[n + 1], "capwap"), l[n + 1], "bindings"),
                  l, n + 1)
<1> DEFINE mod == l[n + 1]
           c == Register(set, mod, "capwap")
           s == Register(c, mod, "bindings")
<1>1. l \in Seq(Modules) /\ n + 1 \in DOMAIN l /\ mod \in Modules
  BY ListsAssumption
<1>2. \A i \in 1 .. n : i \in DOMAIN l /\ ~(l[i] = "cisco" /\ mod = "capwap")
  <2> TAKE i \in 1 .. n
  <2>1. i \in DOMAIN l /\ i < n + 1
    BY <1>1
  <2> QED BY <1>1, <2>1, ListsAssumption
<1>3. 1 .. n + 1 = (1 .. n) \cup {n + 1}
  OBVIOUS
<1>4. Good(set) /\ Early(set)
  BY DEF WtpSet
<1> HIDE DEF mod
<1>5. CASE mod = "capwap"
  <2>1. s = c
    BY <1>5, RegisterOther
  <2>2. Good(c) /\ Early(c) /\ Complete(c) /\ (PlainOnly(set) => PlainOnly(c))
    BY <1>4, <1>5, RegisterCapwap
  <2>3. \A i \in 1 .. n + 1 : l[i] # "cisco"
    BY <1>2, <1>3, <1>5 DEF mod
  <2>4. PlainOnly(set)
    BY <2>3, <1>3 DEF WtpSet
  <2> HIDE DEF c, s
  <2>5. WtpSet(s, l, n + 1)
    BY <2>1, <2>2, <2>3, <2>4, <1>5 DEF WtpSet, mod
  <2> QED BY <2>5 DEF s, c, mod
<1>6. CASE mod = "cisco"
  <2>1. s = c
    BY <1>6, RegisterOther
  <2>2. Good(c) /\ Early(c) /\ CiscoSpoken(c)
    BY <1>4, <1>6, RegisterCisco
  <2>3. Complete(c)
    BY <2>2 DEF CiscoSpoken
  <2> HIDE DEF c, s
  <2>4. WtpSet(s, l, n + 1)
    BY <2>1, <2>2, <2>3, <1>3, <1>6 DEF WtpSet, mod
  <2> QED BY <2>4 DEF s, c, mod
<1>7. CASE mod = "capwap80211"
  <2>1. s = Add(set, "capwap80211")
    BY <1>7, RegisterOther
  <2>2. /\ Good(s) /\ Early(s)
        /\ PlainOnly(set) => PlainOnly(s)
        /\ Complete(set) => Complete(s)
    BY <2>1, <1>4, AddGood, AddKeeps, BindingRows DEF Tables, OfBinding
  <2>3. /\ CiscoSpoken(set) => CiscoSpoken(s)
        /\ "JOIN_RESPONSE" \in DOMAIN s.msgs
        /\ s.msgs["JOIN_RESPONSE"].receiver = "AC"
    BY <2>1, <1>4, AddBinding
  <2> HIDE DEF s
  <2>4. (\E i \in 1 .. n + 1 : l[i] = "cisco") => CiscoSpoken(s)
    BY <2>3, <1>3, <1>7 DEF WtpSet, mod
  <2>5. (\A i \in 1 .. n + 1 : l[i] # "cisco") => PlainOnly(s)
    BY <2>2, <1>3 DEF WtpSet
  <2>6. (\E i \in 1 .. n + 1 : l[i] # "capwap80211") => Complete(s)
    BY <2>2, <1>3, <1>7 DEF WtpSet, mod
  <2>7. WtpSet(s, l, n + 1)
    BY <2>2, <2>3, <2>4, <2>5, <2>6 DEF WtpSet
  <2> QED BY <2>7 DEF s, c, mod
<1> QED BY <1>1, <1>5, <1>6, <1>7 DEF Modules

-----------------------------------------------------------------------------
(* The controller detects the modules. *)

\* A set of numbers that is not empty has a least one.
LEMMA NatMin ==
    ASSUME NEW S, S \subseteq Nat, S # {}
    PROVE  \E k \in S : \A j \in S : k <= j
<1>1. PICK k \in S : \A j \in S : ~ (<<j, k>> \in OpToRel(<, Nat))
  BY NatLessThanWellFounded, WFMin
<1>2. \A j \in S : ~ (j < k)
  BY <1>1 DEF OpToRel
<1> QED BY <1>2

\* cw_mod_detect finds the first module that says yes,
LEMMA DetectFirst ==
    ASSUME NEW mode, NEW m, setup.ac \in Seq(Modules),
           NEW i0 \in DOMAIN setup.ac, Detects(setup.ac[i0], mode, m)
    PROVE  \E i \in DOMAIN setup.ac :
               /\ Detect(mode, m) = setup.ac[i]
               /\ Detects(setup.ac[i], mode, m)
               /\ \A j \in DOMAIN setup.ac : Detects(setup.ac[j], mode, m) => i <= j
<1> DEFINE yes == {i \in DOMAIN setup.ac : Detects(setup.ac[i], mode, m)}
           first == CHOOSE i \in yes : \A j \in yes : i <= j
<1>1. yes # {} /\ yes \subseteq Nat
  <2>1. DOMAIN setup.ac \subseteq Nat
    OBVIOUS
  <2>2. yes \subseteq DOMAIN setup.ac /\ i0 \in yes
    OBVIOUS
  <2> HIDE DEF yes
  <2> QED BY <2>1, <2>2
<1>2. \E i \in yes : \A j \in yes : i <= j
  <2> HIDE DEF yes
  <2> QED BY <1>1, NatMin
<1>3. first \in yes /\ \A j \in yes : first <= j
  <2> HIDE DEF yes
  <2> QED BY <1>2
<1>4. Detect(mode, m) = setup.ac[first]
  BY <1>1 DEF Detect
<1> HIDE DEF first
<1> QED BY <1>3, <1>4

\* ... if there is one.
LEMMA DetectNone ==
    ASSUME NEW mode, NEW m, \A i \in DOMAIN setup.ac : ~Detects(setup.ac[i], mode, m)
    PROVE  Detect(mode, m) = "none"
BY DEF Detect

\* In the mode capwap, capwap80211 says no and capwap yes, whatever it is.
LEMMA DetectsCapwap ==
    ASSUME NEW m
    PROVE  /\ Detects("capwap", "capwap", m)
           /\ ~Detects("capwap80211", "capwap", m)
           /\ Detects("cisco", "capwap", m)
                <=> \E x \in m.elems : x[1][1] \in {"cisco", "lwapp"}
BY DEF Detects

\* The binding is never detected for the mode capwap.
LEMMA DetectedIs ==
    ASSUME NEW m, setup.ac \in Seq(Modules)
    PROVE  Detectable(Detected(m))
<1>1. ASSUME NEW mode PROVE Detect(mode, m) \in Modules \cup {"none"}
  <2>1. CASE \E i \in DOMAIN setup.ac : Detects(setup.ac[i], mode, m)
    BY <2>1, DetectFirst
  <2>2. CASE \A i \in DOMAIN setup.ac : ~Detects(setup.ac[i], mode, m)
    BY <2>2, DetectNone
  <2> QED BY <2>1, <2>2
<1>2. Detect("capwap", m) # "capwap80211"
  <2>1. CASE \E i \in DOMAIN setup.ac : Detects(setup.ac[i], "capwap", m)
    <3>1. PICK i \in DOMAIN setup.ac : /\ Detect("capwap", m) = setup.ac[i]
                                      /\ Detects(setup.ac[i], "capwap", m)
      BY <2>1, DetectFirst
    <3> QED BY <3>1, DetectsCapwap
  <2>2. CASE \A i \in DOMAIN setup.ac : ~Detects(setup.ac[i], "capwap", m)
    BY <2>2, DetectNone
  <2> QED BY <2>1, <2>2
<1> QED BY <1>1, <1>2 DEF Detectable, Detected, Modules

CiscoFirst ==
    \E i \in DOMAIN setup.ac : /\ setup.ac[i] = "cisco"
                               /\ \A j \in 1 .. i - 1 : setup.ac[j] # "capwap"

\* cisco is detected if it stands before capwap in the list of the controller and
\* the message has an element of Cisco or LWAPP.
LEMMA DetectCisco ==
    ASSUME NEW m, setup.ac \in Seq(Modules)
    PROVE  Detect("capwap", m) = "cisco"
             <=> CiscoFirst /\ \E x \in m.elems : x[1][1] \in {"cisco", "lwapp"}
<1>1. ASSUME Detect("capwap", m) = "cisco"
      PROVE  CiscoFirst /\ \E x \in m.elems : x[1][1] \in {"cisco", "lwapp"}
  <2>1. \E i \in DOMAIN setup.ac : Detects(setup.ac[i], "capwap", m)
    BY <1>1, DetectNone
  <2>2. PICK i \in DOMAIN setup.ac :
            /\ setup.ac[i] = "cisco" /\ Detects("cisco", "capwap", m)
            /\ \A j \in DOMAIN setup.ac : Detects(setup.ac[j], "capwap", m) => i <= j
    BY <1>1, <2>1, DetectFirst
  <2>3. \A j \in 1 .. i - 1 : j \in DOMAIN setup.ac /\ ~(i <= j)
    OBVIOUS
  <2>4. \A j \in 1 .. i - 1 : setup.ac[j] # "capwap"
    <3> TAKE j \in 1 .. i - 1
    <3>1. ~Detects(setup.ac[j], "capwap", m)
      BY <2>2, <2>3
    <3> QED BY <3>1, DetectsCapwap
  <2> QED BY <2>2, <2>4, DetectsCapwap DEF CiscoFirst
<1>2. ASSUME CiscoFirst, \E x \in m.elems : x[1][1] \in {"cisco", "lwapp"}
      PROVE  Detect("capwap", m) = "cisco"
  <2>1. Detects("cisco", "capwap", m)
    BY <1>2, DetectsCapwap
  <2>2. PICK k \in DOMAIN setup.ac : /\ setup.ac[k] = "cisco"
                                     /\ \A j \in 1 .. k - 1 : setup.ac[j] # "capwap"
    BY <1>2 DEF CiscoFirst
  <2>3. PICK i \in DOMAIN setup.ac :
            /\ Detect("capwap", m) = setup.ac[i]
            /\ Detects(setup.ac[i], "capwap", m)
            /\ \A j \in DOMAIN setup.ac : Detects(setup.ac[j], "capwap", m) => i <= j
    BY <2>1, <2>2, DetectFirst
  <2>4. i <= k
    <3>1. Detects(setup.ac[k], "capwap", m)
      BY <2>1, <2>2
    <3> QED BY <2>3, <3>1
  <2>5. setup.ac[i] # "capwap"
    <3>1. i \in 1 .. k - 1 \/ i = k
      BY <2>4
    <3> QED BY <2>2, <3>1
  <2>6. setup.ac[i] # "capwap80211"
    BY <2>3, DetectsCapwap
  <2>7. setup.ac[i] \in Modules
    BY <2>3
  <2> QED BY <2>3, <2>5, <2>6, <2>7 DEF Modules
<1> QED BY <1>1, <1>2

-----------------------------------------------------------------------------
(* What a message shows of the set it was written with. *)

WellWritten(set, m) ==
    \A x \in m.elems : /\ x[1] \in set.msgs[m.type].allowed
                       /\ x[1] \in DOMAIN set.handlers
                       /\ x[1] \notin Unsent
                       /\ x[2] \in Row(set, x[1]).sizes

\* The request of type t written with the set w.
Request(w, m, t) ==
    /\ m.to = "AC" /\ m.type = t
    /\ WellWritten(w, m)
    /\ t = "DISCOVERY_REQUEST" /\ CiscoSpoken(w) =>
           \E x \in m.elems : x[1][1] \in {"cisco", "lwapp"}
    /\ t = "DISCOVERY_REQUEST" /\ PlainOnly(w) =>
           ~ \E x \in m.elems : x[1][1] \in {"cisco", "lwapp"}
    /\ t = "JOIN_REQUEST" /\ CiscoSpoken(w) => <<WtpDescriptor, 4>> \in m.elems

\* The response of type t written with the set s.
Response(s, m, t) ==
    /\ m.to = "WTP" /\ m.type = t
    /\ t \in DOMAIN s.msgs => WellWritten(s, m)
    /\ m.descriptor # "-" => m.descriptor = s.handlers[AcDescriptor]

\* The handler of an element of Cisco's own.
LEMMA OwnRow ==
    ASSUME NEW set, OwnHandlers(set)
    PROVE  /\ Row(set, WtpDescriptor).lo = 4 /\ Row(set, WtpDescriptor).hi = 128
           /\ 4 \in Row(set, WtpDescriptor).sizes
           /\ Row(set, WtpDescriptor).put = "writes"
           /\ 1 \in Row(set, RadName).sizes /\ Row(set, RadName).put = "writes"
           /\ Row(set, UserPassword).put = "needs"
<1>1. \A e \in {WtpDescriptor, RadName, UserPassword} :
          Of70(e, handlers["cisco70"][e]) /\ Row(set, e) = handlers["cisco70"][e]
  <2> TAKE e \in {WtpDescriptor, RadName, UserPassword}
  <2>1. e \in DOMAIN handlers["cisco70"] /\ set.handlers[e] = "cisco70"
    BY Keys70 DEF OwnHandlers, Own
  <2> QED BY <2>1, Rows70 DEF Row
<1>2. 4 \in {4, 128}
  BY SMT
<1> QED BY <1>1, <1>2 DEF Of70

\* A mandatory element that has a value is written with every length.
LEMMA MandatoryWritten ==
    ASSUME NEW end, NEW to, NEW set, NEW type, NEW e \in set.msgs[type].mandatory,
           Row(set, e).put # "none", e \notin OtherFamily, HasValue(end, e),
           NEW n \in Row(set, e).sizes
    PROVE  <<e, n>> \in Message(end, to, set, type).elems
<1>1. e \in Written(end, set, type)
  BY DEF Written, Chosen
<1>2. Message(end, to, set, type).elems
        = UNION {{<<x, k>> : k \in Row(set, x).sizes} : x \in Written(end, set, type)}
  BY DEF Message
<1>3. <<e, n>> \in {<<e, k>> : k \in Row(set, e).sizes}
  OBVIOUS
<1> QED BY <1>1, <1>2, <1>3

\* These two are written whatever the family of the socket is,
LEMMA NotOfFamily == RadName \notin OtherFamily /\ WtpDescriptor \notin OtherFamily
<1>1. \A names : RadName \notin Plain(names)
  BY SMT DEF Plain, RadName
<1>2. WtpDescriptor \notin Plain({"CAPWAP_LOCAL_IPV4_ADDRESS", "WTP_IPV4_IP_ADDRESS"})
  BY SMT DEF Plain, WtpDescriptor
<1>3. WtpDescriptor \notin Plain({"CAPWAP_LOCAL_IPV6_ADDRESS", "WTP_IPV6_IP_ADDRESS"})
  BY SMT DEF Plain, WtpDescriptor
<1> QED BY <1>1, <1>2, <1>3 DEF OtherFamily

\* ... and by every WTP.
LEMMA Valued == \A end : HasValue(end, RadName) /\ HasValue(end, WtpDescriptor)
<1>1. RadName \in UnderCapwapKeys
  BY CiscoHas DEF UnderCapwapKeys, RadName
<1> QED BY <1>1 DEF HasValue, WtpDescriptor

\* What is written is well written.
LEMMA WrittenWell ==
    ASSUME NEW end, NEW to, NEW set, Good(set),
           NEW type \in Spoken, type \in DOMAIN set.msgs
    PROVE  WellWritten(set, Message(end, to, set, type))
<1> DEFINE m == Message(end, to, set, type)
<1>1. m.type = type
  BY DEF Message
<1>2. ASSUME NEW x \in m.elems
      PROVE  /\ x[1] \in set.msgs[type].allowed /\ x[1] \in DOMAIN set.handlers
             /\ x[1] \notin Unsent /\ x[2] \in Row(set, x[1]).sizes
  BY ElementsOf, ChosenIs
<1> HIDE DEF m
<1>3. WellWritten(set, m)
  BY <1>1, <1>2 DEF WellWritten
<1> QED BY <1>3 DEF m

\* The set a message was written with takes it, but for the misfits.
LEMMA ReadAgain ==
    ASSUME NEW set, Good(set), Early(set), NEW m, WellWritten(set, m),
           NEW x \in m.elems \ Taken(set, m)
    PROVE  x[1] \in Misfits
<1>1. /\ x[1] \in set.msgs[m.type].allowed /\ x[1] \in DOMAIN set.handlers
      /\ x[1] \notin Unsent /\ x[2] \in Row(set, x[1]).sizes
  BY DEF WellWritten
<1>2. x[1] \in Misfits \/ Fits(Row(set, x[1]), x[2])
  BY <1>1, RowIs DEF Sound
<1> QED BY <1>1, <1>2 DEF Taken

\* Every request tells whether its WTP has registered cisco, and the Join Request
\* tells the version.
LEMMA RequestWritten ==
    ASSUME NEW w, Good(w), Complete(w), NEW t \in Requests
    PROVE  Request(w, Message("WTP", "AC", w, t), t)
<1> DEFINE m == Message("WTP", "AC", w, t)
<1>1. m.to = "AC" /\ m.type = t
  BY DEF Message
<1>2. t \in Spoken /\ t \in DOMAIN w.msgs
  BY DEF Complete, Spoken
<1>3. WellWritten(w, m)
  BY <1>2, WrittenWell
<1>4. ASSUME t = "DISCOVERY_REQUEST", CiscoSpoken(w)
      PROVE  \E x \in m.elems : x[1][1] \in {"cisco", "lwapp"}
  <2>1. /\ RadName \in w.msgs[t].mandatory
        /\ 1 \in Row(w, RadName).sizes /\ Row(w, RadName).put = "writes"
    BY <1>4, OwnRow DEF CiscoSpoken, CiscoLists
  <2>2. <<RadName, 1>> \in m.elems
    BY <2>1, NotOfFamily, Valued, MandatoryWritten
  <2>3. <<RadName, 1>>[1][1] = "cisco"
    BY DEF RadName
  <2> QED BY <2>2, <2>3
<1>5. ASSUME PlainOnly(w)
      PROVE  ~ \E x \in m.elems : x[1][1] \in {"cisco", "lwapp"}
  <2>1. \A x \in m.elems : x[1] \in DOMAIN w.handlers
    BY <1>3 DEF WellWritten
  <2> QED BY <1>5, <2>1 DEF PlainOnly
<1>6. ASSUME t = "JOIN_REQUEST", CiscoSpoken(w)
      PROVE  <<WtpDescriptor, 4>> \in m.elems
  <2>1. /\ WtpDescriptor \in w.msgs[t].mandatory
        /\ 4 \in Row(w, WtpDescriptor).sizes /\ Row(w, WtpDescriptor).put = "writes"
    BY <1>6, OwnRow DEF CiscoSpoken, JoinHeard
  <2> QED BY <2>1, NotOfFamily, Valued, MandatoryWritten
<1> HIDE DEF m
<1>7. Request(w, m, t)
  BY <1>1, <1>3, <1>4, <1>5, <1>6 DEF Request
<1> QED BY <1>7 DEF m

\* Every response is well written, and tells whose handler its descriptor is of.
LEMMA ResponseWritten ==
    ASSUME NEW s, Good(s), NEW t \in Responses
    PROVE  Response(s, Message("AC", "WTP", s, t), t)
<1> DEFINE m == Message("AC", "WTP", s, t)
<1>1. m.to = "WTP" /\ m.type = t
  BY DEF Message
<1>2. t \in DOMAIN s.msgs => WellWritten(s, m)
  BY WrittenWell DEF Spoken
<1>3. m.descriptor # "-" => m.descriptor = s.handlers[AcDescriptor]
  BY DEF Message, AcDescriptor
<1> HIDE DEF m
<1>4. Response(s, m, t)
  BY <1>1, <1>2, <1>3 DEF Response
<1> QED BY <1>4 DEF m

\* A set with Cisco's handlers takes the descriptor of the WTP.
LEMMA DescriptorTaken ==
    ASSUME NEW s, Good(s), CiscoSpoken(s), NEW m, m.type = "JOIN_REQUEST",
           <<WtpDescriptor, 4>> \in m.elems
    PROVE  Postprocessed(s, m) = Upgraded(s, setup.version)
<1>1. WtpDescriptor \in DOMAIN s.handlers /\ s.handlers[WtpDescriptor] = "cisco70"
  BY DEF CiscoSpoken, OwnHandlers, Own
<1>2. WtpDescriptor \in s.msgs[m.type].allowed
  BY DEF CiscoSpoken, JoinHeard, Good, GoodMsg
<1>3. Fits(Row(s, WtpDescriptor), 4)
  BY OwnRow, SMT DEF CiscoSpoken, Fits
<1>4. <<WtpDescriptor, 4>>[1] = WtpDescriptor /\ <<WtpDescriptor, 4>>[2] = 4
  OBVIOUS
<1>5. <<WtpDescriptor, 4>> \in Taken(s, m)
  BY <1>1, <1>2, <1>3, <1>4 DEF Taken
<1>6. \E x \in Taken(s, m) : x[1] = <<"plain", "WTP_DESCRIPTOR">>
  BY <1>4, <1>5 DEF WtpDescriptor
<1>7. "cisco70" \in {s.handlers[e] : e \in DOMAIN s.handlers}
  BY <1>1
<1> QED BY <1>6, <1>7 DEF Postprocessed

\* The postprocess function changes the set of a later version alone, and that on
\* the first two requests only.
LEMMA PostSession ==
    ASSUME NEW s, NEW mm, SessionSet(s, mm), NEW m, setup.version \in {70, 73, 75}
    PROVE  /\ SessionSet(Postprocessed(s, m), mm)
           /\ setup.version < 73 => Postprocessed(s, m) = s
           /\ m.type \notin {"DISCOVERY_REQUEST", "JOIN_REQUEST"} =>
                  Postprocessed(s, m) = s
<1>1. Postprocessed(s, m) = s \/ Postprocessed(s, m) = Upgraded(s, setup.version)
  BY DEF Postprocessed
<1>2. m.type \notin {"DISCOVERY_REQUEST", "JOIN_REQUEST"} => Postprocessed(s, m) = s
  BY DEF Postprocessed
<1> QED BY <1>1, <1>2, UpgradedIs

\* The handler of a later version ends the controller.
LEMMA UpgradeStops ==
    ASSUME NEW s, Good(s), CiscoSpoken(s),
           s.handlers[RadioConfiguration] \in {"cisco73", "cisco75"}
    PROVE  ComposeExits("AC", s, "CONFIGURATION_STATUS_RESPONSE")
<1> DEFINE t == "CONFIGURATION_STATUS_RESPONSE"
<1>1. RadioConfiguration \in DOMAIN handlers[s.handlers[RadioConfiguration]]
  BY DEF Good, GoodHandlers, CiscoSpoken
<1>2. Row(s, RadioConfiguration).put = "exits"
  BY <1>1, LaterRows DEF OfLater, Row
<1>3. RadioConfiguration \in s.msgs[t].mandatory
  BY DEF CiscoSpoken, CiscoLists
<1>4. RadioConfiguration \in Chosen("AC", s, t)
  BY <1>2, <1>3 DEF Chosen
<1> QED BY <1>2, <1>4 DEF ComposeExits

\* A WTP that has no password to tell does not get past its configuration.
LEMMA PasswordStops ==
    ASSUME NEW w, CiscoSpoken(w), ~setup.known
    PROVE  ComposeExits("WTP", w, "CONFIGURATION_STATUS_REQUEST")
<1> DEFINE t == "CONFIGURATION_STATUS_REQUEST"
<1>1. Row(w, UserPassword).put = "needs"
  BY OwnRow DEF CiscoSpoken
<1>2. UserPassword \in Chosen("WTP", w, t)
  BY <1>1 DEF CiscoSpoken, CiscoLists, Chosen
<1>3. UserPassword \notin UnderCapwapKeys
  BY SMT DEF UnderCapwapKeys, Cisco, UserPassword
<1>4. ~HasValue("WTP", UserPassword)
  BY <1>3 DEF HasValue, UserPassword
<1> QED BY <1>1, <1>2, <1>4 DEF ComposeExits

\* The state a request leads to.
LEMMA NextIs ==
    ASSUME NEW set, Good(set), NEW state \in AcStates, NEW type \in DOMAIN set.msgs,
           \E s \in set.msgs[type].states : s[1] = state
    PROVE  \/ NextState(set, state, type) = state
           \/ /\ NextState(set, state, type) = "CONFIGURE"
              /\ state = "JOIN" /\ type = "CONFIGURATION_STATUS_REQUEST"
           \/ /\ NextState(set, state, type) = "DATA_CHECK"
              /\ state = "CONFIGURE" /\ type = "CHANGE_STATE_EVENT_REQUEST"
<1> DEFINE s == CHOOSE s \in set.msgs[type].states : s[1] = state
<1>1. s \in set.msgs[type].states /\ s[1] = state
  OBVIOUS
<1>2. s \in Moves(type)
  BY <1>1 DEF Good, GoodMsg
<1>3. NextState(set, state, type) = IF s[2] = "-" THEN state ELSE s[2]
  BY DEF NextState
<1> HIDE DEF s
<1> QED BY <1>1, <1>2, <1>3 DEF Moves, Stays, AcStates

-----------------------------------------------------------------------------
(* The inductive invariant. *)

Settings ==
    /\ setup.wtp \in WtpLists /\ setup.ac \in AcLists /\ setup.version \in Versions
    /\ setup.bare \in BOOLEAN /\ setup.known \in BOOLEAN

WtpCisco == \E i \in 1 .. Len(setup.wtp) : setup.wtp[i] = "cisco"

Registered ==
    /\ DOMAIN sets = {"WTP", "AC"}
    /\ loaded \in 0 .. Len(setup.wtp)
    /\ WtpSet(sets.WTP, setup.wtp, loaded)
    /\ pc = "register" <=> loaded < Len(setup.wtp)
    /\ pc \in {"register", "connect", "ended", "exited"} \cup DOMAIN RequestOf

\* A message is on its way only while the WTP waits, and answers what it asked.
Flight ==
    /\ awaits \in BOOLEAN
    /\ awaits => pc \in DOMAIN RequestOf
    /\ \/ msg = None
       \/ awaits /\ Request(sets.WTP, msg, RequestOf[pc])
       \/ awaits /\ msg = ErrorResponse(RequestOf[pc])
       \/ awaits /\ Response(sets.AC, msg, ResponseTo[RequestOf[pc]])
    /\ pc = "configure" /\ awaits /\ CiscoSpoken(sets.WTP) => setup.known

Controlled ==
    /\ up \in BOOLEAN
    /\ acstate \in {"gone"} \cup AcStates
    /\ Detectable(mods)
    /\ Good(sets.AC)
    /\ setup.version < 73 => Early(sets.AC)
    /\ pc \in {"register", "discovery", "connect"} => acstate \in {"gone", "DISCOVERY"}
    /\ pc = "join" => acstate = "JOIN"

\* The controller has answered the request of the WTP: the modules it has
\* detected are those of this WTP.
Agreed ==
    \/ pc \in {"connect", "join", "configure", "changestate", "run"}
    \/ /\ pc = "discovery" /\ msg.to = "WTP"
       /\ msg # ErrorResponse("DISCOVERY_REQUEST")

Agreement ==
    /\ Agreed => /\ SessionSet(sets.AC, mods)
                 /\ mods.capwap = "cisco" <=> CiscoFirst /\ WtpCisco
    /\ pc \in {"connect", "join", "configure", "changestate", "run"}
       /\ mods.capwap = "cisco" => setup.bare

\* The Join Request has been answered.
Joined ==
    \/ pc = "join" /\ msg.to = "WTP"
    \/ pc \in {"configure", "changestate", "run"}

Admission ==
    /\ Joined /\ mods.capwap = "cisco" /\ setup.version >= 73 =>
           sets.AC.handlers[RadioConfiguration] \in {"cisco73", "cisco75"}
    /\ pc \in {"configure", "changestate", "run"} => Last(setup.wtp) # "capwap80211"

Service ==
    /\ acstate \in {"CONFIGURE", "DATA_CHECK", "RUN"} /\ sets.AC.toRun => Serviceable
    /\ acstate = "RUN" => sets.AC.toRun
    /\ Serviceable => up /\ pc # "exited"

Inv ==
    /\ Settings
    /\ Registered
    /\ Flight
    /\ Controlled
    /\ Agreement
    /\ Admission
    /\ Service

\* Nothing changes what the two were started with.
LEMMA Fixed ==
    ASSUME setup' = setup
    PROVE  /\ Settings => Settings'
           /\ CiscoFirst' <=> CiscoFirst
           /\ WtpCisco' <=> WtpCisco
           /\ Serviceable' <=> Serviceable
           /\ Last(setup'.wtp) = Last(setup.wtp)
BY DEF Settings, CiscoFirst, WtpCisco, Serviceable, Last

\* What the invariant says of the sets, and of the setup, in general.
LEMMA Lists ==
    ASSUME Settings
    PROVE  /\ setup.wtp \in Seq(Modules) /\ Len(setup.wtp) \in Nat /\ Len(setup.wtp) > 0
           /\ setup.ac \in Seq(Modules)
           /\ setup.version \in {70, 73, 75}
<1>1. \A l \in WtpLists \cup AcLists : l \in Seq(Modules) /\ l # <<>>
  BY ListsAssumption
<1>2. Versions \subseteq {70, 73, 75}
  BY ListsAssumption
<1>3. setup.wtp \in Seq(Modules) /\ setup.wtp # <<>> /\ setup.ac \in Seq(Modules)
  BY <1>1 DEF Settings
<1> HIDE DEF Modules
<1>4. Len(setup.wtp) \in Nat /\ Len(setup.wtp) > 0
  BY <1>3
<1> QED BY <1>2, <1>3, <1>4 DEF Settings

\* Once all modules are registered.
LEMMA WtpIs ==
    ASSUME Settings, Registered, pc # "register"
    PROVE  /\ Good(sets.WTP) /\ Early(sets.WTP) /\ Complete(sets.WTP)
           /\ loaded = Len(setup.wtp)
           /\ WtpCisco => CiscoSpoken(sets.WTP)
           /\ ~WtpCisco => PlainOnly(sets.WTP)
           /\ Last(setup.wtp) = "capwap80211" =>
                  sets.WTP.msgs["JOIN_RESPONSE"].receiver = "AC"
<1>1. Len(setup.wtp) \in Nat /\ Len(setup.wtp) > 0
  BY Lists
<1>2. loaded = Len(setup.wtp)
  BY <1>1 DEF Registered
<1>3. WtpSet(sets.WTP, setup.wtp, Len(setup.wtp))
  BY <1>2 DEF Registered
<1>4. \E i \in 1 .. Len(setup.wtp) : setup.wtp[i] # "capwap80211"
  <2>1. \E i \in DOMAIN setup.wtp : setup.wtp[i] # "capwap80211"
    BY ListsAssumption DEF Settings
  <2>2. DOMAIN setup.wtp = 1 .. Len(setup.wtp)
    BY Lists
  <2> QED BY <2>1, <2>2
<1> QED BY <1>1, <1>2, <1>3, <1>4 DEF WtpSet, WtpCisco, Last

\* The sets of the two ends are independent of each other.
LEMMA SetOf ==
    ASSUME NEW f, DOMAIN f = {"WTP", "AC"}, NEW v
    PROVE  /\ DOMAIN [f EXCEPT !.AC = v] = {"WTP", "AC"}
           /\ [f EXCEPT !.AC = v].AC = v /\ [f EXCEPT !.AC = v].WTP = f.WTP
           /\ DOMAIN [f EXCEPT !.WTP = v] = {"WTP", "AC"}
           /\ [f EXCEPT !.WTP = v].WTP = v /\ [f EXCEPT !.WTP = v].AC = f.AC
OBVIOUS

\* No message goes to nobody.
LEMMA NoneIs == None.to = "-" /\ None.descriptor = "-"
BY DEF None

\* The response of a refusal.
LEMMA ErrorIs ==
    ASSUME NEW t
    PROVE  /\ ErrorResponse(t).to = "WTP" /\ ErrorResponse(t).type = ResponseTo[t]
           /\ ErrorResponse(t).descriptor = "-"
           /\ \A x \in ErrorResponse(t).elems : x[1] \notin Unsent
<1>1. <<"plain", "RESULT_CODE">> \notin Unsent
  BY SMT DEF Unsent, Plain, Cisco, Lwapp
<1> QED BY <1>1 DEF ErrorResponse

\* Which request belongs to which state of main, and which response to it.
LEMMA Exchanges ==
    /\ DOMAIN RequestOf = {"discovery", "join", "configure", "changestate", "run"}
    /\ \A p \in DOMAIN RequestOf : /\ RequestOf[p] \in Requests
                                   /\ ResponseTo[RequestOf[p]] \in Responses
    /\ RequestOf["discovery"] = "DISCOVERY_REQUEST" /\ RequestOf["join"] = "JOIN_REQUEST"
    /\ RequestOf["configure"] = "CONFIGURATION_STATUS_REQUEST"
    /\ RequestOf["changestate"] = "CHANGE_STATE_EVENT_REQUEST"
    /\ RequestOf["run"] = "ECHO_REQUEST"
    /\ ResponseTo["JOIN_REQUEST"] = "JOIN_RESPONSE"
    /\ ResponseTo["CONFIGURATION_STATUS_REQUEST"] = "CONFIGURATION_STATUS_RESPONSE"
BY DEF RequestOf, ResponseTo, Requests, Responses

\* Which message is on its way tells what is known of it.
LEMMA FlightIs ==
    ASSUME Flight
    PROVE  /\ msg.to = "AC" => awaits /\ Request(sets.WTP, msg, RequestOf[pc])
           /\ msg.to = "WTP" =>
                  /\ awaits
                  /\ \/ msg = ErrorResponse(RequestOf[pc])
                     \/ Response(sets.AC, msg, ResponseTo[RequestOf[pc]])
           /\ ~awaits => msg = None
BY NoneIs, ErrorIs DEF Flight, Request, Response

\* The invariant holds at the start.
LEMMA InitInv == Init => Inv
<1> SUFFICES ASSUME Init PROVE Inv
  OBVIOUS
<1>1. Settings
  BY DEF Init, Settings
<1>2. Registered
  <2>1. Len(setup.wtp) \in Nat /\ Len(setup.wtp) > 0
    BY <1>1, Lists
  <2>2. WtpSet(sets.WTP, setup.wtp, loaded)
    BY WtpSetInit DEF Init
  <2> QED BY <2>1, <2>2 DEF Init, Registered
<1>3. Flight
  BY DEF Init, Flight
<1>4. Controlled
  <2>1. Good(sets.AC) /\ Early(sets.AC)
    BY EmptyGood DEF Init, Early, EmptySet
  <2> QED BY <2>1 DEF Init, Controlled, Detectable
<1>5. Agreement
  BY DEF Init, Agreement, Agreed
<1>6. Admission
  BY DEF Init, Admission, Joined
<1>7. Service
  BY DEF Init, Service
<1> QED BY <1>1, <1>2, <1>3, <1>4, <1>5, <1>6, <1>7 DEF Inv

\* main registers a module.
LEMMA RegisterNextInv == Inv /\ RegisterNext => Inv'
<1> SUFFICES ASSUME Inv, RegisterNext PROVE Inv'
  OBVIOUS
<1> DEFINE mod == setup.wtp[loaded + 1]
           s == Register(Register(sets.WTP, mod, "capwap"), mod, "bindings")
<1>1. /\ pc = "register" /\ setup' = setup /\ awaits' = awaits /\ msg' = msg
      /\ acstate' = acstate /\ mods' = mods /\ up' = up /\ loaded' = loaded + 1
      /\ pc' = IF loaded + 1 = Len(setup.wtp) THEN "discovery" ELSE pc
      /\ sets' = [sets EXCEPT !.WTP = s]
  BY DEF RegisterNext
<1>2. Len(setup.wtp) \in Nat /\ loaded \in Nat /\ loaded < Len(setup.wtp)
  BY <1>1, Lists DEF Inv, Registered
<1>3. WtpSet(s, setup.wtp, loaded + 1)
  BY <1>2, RegisterStep DEF Inv, Registered, Settings
<1> HIDE DEF s
<1>4. DOMAIN sets' = {"WTP", "AC"} /\ sets'.WTP = s /\ sets'.AC = sets.AC
  BY <1>1, SetOf DEF Inv, Registered
<1>5. pc' \in {"register", "discovery"} /\ ~awaits /\ msg = None
  BY <1>1, Exchanges, FlightIs DEF Inv, Flight
<1>6. Settings'
  BY <1>1, Fixed DEF Inv
<1>7. Registered'
  BY <1>1, <1>2, <1>3, <1>4, Exchanges DEF Registered
<1>8. Flight'
  BY <1>1, <1>5 DEF Inv, Flight
<1>9. Controlled'
  BY <1>1, <1>4, <1>5 DEF Inv, Controlled
<1>10. Agreement'
  BY <1>1, <1>5, NoneIs DEF Agreement, Agreed
<1>11. Admission'
  BY <1>1, <1>5, NoneIs DEF Admission, Joined
<1>12. Service'
  BY <1>1, <1>4, <1>5, Fixed DEF Inv, Service
<1> QED BY <1>6, <1>7, <1>8, <1>9, <1>10, <1>11, <1>12 DEF Inv

\* A message that is gone tells nothing.
LEMMA MsgGone ==
    ASSUME Inv, msg' = None,
           UNCHANGED <<setup, loaded, sets, pc, awaits, acstate, mods, up>>
    PROVE  Inv'
<1>1. Settings'
  BY Fixed DEF Inv
<1>2. Registered'
  BY DEF Inv, Registered
<1>3. Flight'
  BY DEF Inv, Flight
<1>4. Controlled'
  BY DEF Inv, Controlled
<1>5. Agreement'
  BY NoneIs, Fixed DEF Inv, Agreement, Agreed
<1>6. Admission'
  BY NoneIs, Fixed DEF Inv, Admission, Joined
<1>7. Service'
  BY Fixed DEF Inv, Service
<1> QED BY <1>1, <1>2, <1>3, <1>4, <1>5, <1>6, <1>7 DEF Inv

\* Lost messages, and those nobody takes.
LEMMA QuietInv == Inv /\ (DiscardAnswer \/ Lose \/ Unheard) => Inv'
BY MsgGone DEF DiscardAnswer, Lose, Unheard

\* Nothing happens.
LEMMA StutterInv == Inv /\ UNCHANGED vars => Inv'
<1> SUFFICES ASSUME Inv, UNCHANGED vars PROVE Inv'
  OBVIOUS
<1>1. UNCHANGED <<setup, loaded, sets, pc, awaits, msg, acstate, mods, up>>
  BY DEF vars
<1>2. Settings'
  BY <1>1, Fixed DEF Inv
<1>3. Registered'
  BY <1>1 DEF Inv, Registered
<1>4. Flight'
  BY <1>1 DEF Inv, Flight
<1>5. Controlled'
  BY <1>1 DEF Inv, Controlled
<1>6. Agreement'
  BY <1>1, Fixed DEF Inv, Agreement, Agreed
<1>7. Admission'
  BY <1>1, Fixed DEF Inv, Admission, Joined
<1>8. Service'
  BY <1>1, Fixed DEF Inv, Service
<1> QED BY <1>2, <1>3, <1>4, <1>5, <1>6, <1>7, <1>8 DEF Inv

\* In a session that can work the sets of both ends hold Cisco's handlers.
LEMMA ServiceSets ==
    ASSUME Inv, Serviceable, pc # "register"
    PROVE  /\ CiscoSpoken(sets.WTP)
           /\ \A end, e : HasValue(end, e)
           /\ Agreed => CiscoSpoken(sets.AC) /\ Early(sets.AC)
<1>1. WtpCisco /\ CiscoFirst
  <2>1. Len(setup.wtp) \in Nat /\ Len(setup.wtp) > 0
    BY Lists DEF Inv
  <2> QED BY <2>1 DEF Serviceable, WtpCisco, CiscoFirst, Last
<1>2. CiscoSpoken(sets.WTP)
  BY <1>1, WtpIs DEF Inv
<1>3. \A end, e : HasValue(end, e)
  BY DEF Serviceable, HasValue
<1>4. Agreed => CiscoSpoken(sets.AC)
  BY <1>1 DEF Inv, Agreement, SessionSet
<1>5. Early(sets.AC)
  BY DEF Inv, Controlled, Serviceable
<1> QED BY <1>2, <1>3, <1>4, <1>5

\* The WTP sends a request, or ends over it.
LEMMA AskInv == Inv /\ Ask => Inv'
<1> SUFFICES ASSUME Inv, Ask PROVE Inv'
  OBVIOUS
<1> DEFINE type == RequestOf[pc]
           m == Message("WTP", "AC", sets.WTP, type)
<1>1. /\ pc \in DOMAIN RequestOf /\ ~awaits /\ msg = None
      /\ UNCHANGED <<setup, loaded, sets, acstate, mods, up>>
  BY FlightIs DEF Inv, Ask
<1>2. /\ Good(sets.WTP) /\ Early(sets.WTP) /\ Complete(sets.WTP)
      /\ pc # "register" /\ loaded = Len(setup.wtp)
  BY <1>1, WtpIs, Exchanges DEF Inv
<1>3. type \in Requests /\ type \in Spoken /\ type \in DOMAIN sets.WTP.msgs
  BY <1>1, <1>2, Exchanges DEF Spoken, Complete
<1>4. \/ /\ ComposeExits("WTP", sets.WTP, type)
         /\ pc' = "exited" /\ msg' = msg /\ awaits' = awaits
      \/ /\ ~ComposeExits("WTP", sets.WTP, type)
         /\ pc' = pc /\ msg' = m /\ awaits' = TRUE
  BY DEF Ask
<1>5. msg'.to # "WTP" /\ pc' \in {pc, "exited"}
  BY <1>1, <1>4, NoneIs DEF Message
<1>6. Request(sets.WTP, m, type)
  BY <1>2, <1>3, RequestWritten
<1>7. pc = "configure" /\ CiscoSpoken(sets.WTP) /\ awaits' => setup.known
  BY <1>1, <1>4, PasswordStops, Exchanges
<1>8. Serviceable => pc' # "exited"
  <2> SUFFICES ASSUME Serviceable PROVE ~ComposeExits("WTP", sets.WTP, type)
    BY <1>1, <1>2, <1>4, Exchanges
  <2> QED BY <1>2, <1>3, ServiceSets, WritesOn DEF CiscoSpoken
<1> HIDE DEF m, type
<1>9. Settings'
  BY <1>1, Fixed DEF Inv
<1>10. Registered'
  BY <1>1, <1>2, <1>5 DEF Inv, Registered
<1>11. Flight'
  <2>1. CASE msg' = msg /\ awaits' = awaits
    <3>1. awaits' = FALSE /\ msg' = None
      BY <1>1, <2>1 DEF Inv, Flight
    <3> QED BY <3>1 DEF Flight
  <2>2. CASE pc' = pc /\ msg' = m /\ awaits' = TRUE
    <3>1. Request(sets'.WTP, msg', RequestOf[pc'])
      BY <1>1, <1>6, <2>2 DEF type
    <3> QED BY <1>1, <1>7, <2>2, <3>1 DEF Flight
  <2> QED BY <1>4, <2>1, <2>2
<1>12. Controlled'
  BY <1>1, <1>5 DEF Inv, Controlled
<1>13. Agreement'
  BY <1>1, <1>5, Fixed DEF Inv, Agreement, Agreed
<1>14. Admission'
  BY <1>1, <1>5, Fixed DEF Inv, Admission, Joined
<1>15. Service'
  BY <1>1, <1>8, Fixed DEF Inv, Service
<1> QED BY <1>9, <1>10, <1>11, <1>12, <1>13, <1>14, <1>15 DEF Inv

\* The WTP has got no answer.
LEMMA GiveUpInv == Inv /\ GiveUp => Inv'
<1> SUFFICES ASSUME Inv, GiveUp PROVE Inv'
  OBVIOUS
<1>1. /\ awaits /\ awaits' = FALSE /\ msg' = msg /\ msg = None /\ pc' = AfterFailure[pc]
      /\ UNCHANGED <<setup, loaded, sets, acstate, mods, up>>
  BY DEF GiveUp
<1>2. /\ pc \in DOMAIN RequestOf
      /\ pc' \in {"ended", "changestate", "run"}
      /\ pc' # "ended" => pc \in {"configure", "changestate"}
  BY <1>1, Exchanges DEF Inv, Flight, AfterFailure
<1>3. Settings'
  BY <1>1, Fixed DEF Inv
<1>4. Registered'
  BY <1>1, <1>2, Exchanges DEF Inv, Registered
<1>5. Flight'
  BY <1>1 DEF Inv, Flight
<1>6. Controlled'
  BY <1>1, <1>2 DEF Inv, Controlled
<1>7. Agreement'
  BY <1>1, <1>2, NoneIs, Fixed DEF Inv, Agreement, Agreed
<1>8. Admission'
  BY <1>1, <1>2, NoneIs, Fixed DEF Inv, Admission, Joined
<1>9. Service'
  BY <1>1, <1>2, Fixed DEF Inv, Service
<1> QED BY <1>3, <1>4, <1>5, <1>6, <1>7, <1>8, <1>9 DEF Inv

\* A timer of the controller expires.
LEMMA AcTimesOutInv == Inv /\ AcTimesOut => Inv'
<1> SUFFICES ASSUME Inv, AcTimesOut PROVE Inv'
  OBVIOUS
<1>1. /\ acstate' = "gone" /\ pc \in {"ended", "exited", "run"}
      /\ UNCHANGED <<setup, loaded, sets, pc, awaits, msg, mods, up>>
  BY DEF AcTimesOut, Over
<1>2. Settings'
  BY <1>1, Fixed DEF Inv
<1>3. Registered'
  BY <1>1 DEF Inv, Registered
<1>4. Flight'
  BY <1>1 DEF Inv, Flight
<1>5. Controlled'
  BY <1>1 DEF Inv, Controlled
<1>6. Agreement'
  BY <1>1, Fixed DEF Inv, Agreement, Agreed
<1>7. Admission'
  BY <1>1, Fixed DEF Inv, Admission, Joined
<1>8. Service'
  BY <1>1, Fixed DEF Inv, Service
<1> QED BY <1>2, <1>3, <1>4, <1>5, <1>6, <1>7, <1>8 DEF Inv

\* The DTLS session is set up.
LEMMA ConnectInv == Inv /\ Connect => Inv'
<1> SUFFICES ASSUME Inv, Connect PROVE Inv'
  OBVIOUS
<1>1. /\ pc = "connect" /\ pc' = "join" /\ acstate' = "JOIN"
      /\ sets' = [sets EXCEPT !.AC = MsgSetOf(mods)]
      /\ UNCHANGED <<setup, loaded, awaits, msg, mods, up>>
  BY DEF Connect
<1>2. ~awaits /\ msg = None
  BY <1>1, Exchanges, FlightIs DEF Inv, Flight
<1>3. SessionSet(MsgSetOf(mods), mods) /\ Early(MsgSetOf(mods))
  BY MsgSets DEF Inv, Controlled
<1>4. /\ DOMAIN sets' = {"WTP", "AC"} /\ sets'.WTP = sets.WTP
      /\ sets'.AC = MsgSetOf(mods)
  BY <1>1, SetOf DEF Inv, Registered
<1>5. Good(sets'.AC) /\ Early(sets'.AC) /\ SessionSet(sets'.AC, mods)
  BY <1>3, <1>4 DEF SessionSet
<1>6. Settings'
  BY <1>1, Fixed DEF Inv
<1>7. Registered'
  BY <1>1, <1>4, Exchanges DEF Inv, Registered
<1>8. Flight'
  BY <1>1, <1>2 DEF Inv, Flight
<1>9. Controlled'
  BY <1>1, <1>5 DEF Inv, Controlled, AcStates
<1>10. Agreement'
  BY <1>1, <1>5, Fixed DEF Inv, Agreement, Agreed
<1>11. Admission'
  BY <1>1, <1>2, NoneIs DEF Admission, Joined
<1>12. Service'
  BY <1>1, Fixed DEF Inv, Service
<1> QED BY <1>6, <1>7, <1>8, <1>9, <1>10, <1>11, <1>12 DEF Inv

\* The WTP takes an answer.
LEMMA TakeAnswerInv == Inv /\ TakeAnswer => Inv'
<1> SUFFICES ASSUME Inv, TakeAnswer PROVE Inv'
  OBVIOUS
<1>1. /\ msg.to = "WTP" /\ msg' = None /\ awaits' = FALSE
      /\ Judge("WTP", sets.WTP, WtpState, msg.type) = "accepted"
      /\ UNCHANGED <<setup, loaded, sets, acstate, mods, up>>
  BY DEF TakeAnswer
<1>2. /\ awaits
      /\ \/ msg = ErrorResponse(RequestOf[pc])
         \/ Response(sets.AC, msg, ResponseTo[RequestOf[pc]])
  BY <1>1, FlightIs DEF Inv
<1>3. pc \in {"discovery", "join", "configure", "changestate", "run"}
  BY <1>2, Exchanges DEF Inv, Flight
<1>4. \/ pc' = "exited" /\ DecodeExits(sets.WTP, msg)
      \/ pc' = "ended"
      \/ pc = "discovery" /\ pc' = "connect" /\ SharesSecurity
      \/ pc = "join" /\ pc' = "configure"
      \/ pc = "configure" /\ pc' = "changestate"
      \/ pc \in {"changestate", "run"} /\ pc' = "run"
  BY <1>3 DEF TakeAnswer, AfterSuccess
<1>5. /\ msg.type = ResponseTo[RequestOf[pc]]
      /\ msg.descriptor # "-" => Response(sets.AC, msg, ResponseTo[RequestOf[pc]])
  BY <1>2, ErrorIs DEF Response
<1>6. /\ Good(sets.WTP) /\ Early(sets.WTP) /\ loaded = Len(setup.wtp)
      /\ Last(setup.wtp) = "capwap80211" => sets.WTP.msgs["JOIN_RESPONSE"].receiver = "AC"
  BY <1>3, WtpIs DEF Inv
<1>7. pc = "join" => Last(setup.wtp) # "capwap80211"
  <2>1. pc = "join" => sets.WTP.msgs["JOIN_RESPONSE"].receiver = "WTP"
    BY <1>1, <1>5, Exchanges DEF Judge
  <2> QED BY <1>6, <2>1
<1>8. pc' = "connect" => Agreed /\ (mods.capwap = "cisco" => setup.bare)
  <2> SUFFICES ASSUME pc' = "connect"
               PROVE  Agreed /\ (mods.capwap = "cisco" => setup.bare)
    OBVIOUS
  <2>1. SharesSecurity /\ pc = "discovery"
    BY <1>4
  <2>2. Agreed
    BY <1>1, <2>1, ErrorIs DEF SharesSecurity, Agreed
  <2>3. ASSUME mods.capwap = "cisco" PROVE setup.bare
    <3>1. sets.AC.handlers[AcDescriptor] = "cisco70"
      BY <2>2, <2>3 DEF Inv, Agreement, SessionSet, CiscoSpoken, OwnHandlers, Own
    <3>2. msg.descriptor = "cisco70"
      BY <1>5, <2>1, <3>1 DEF SharesSecurity, Response
    <3> QED BY <2>1, <3>2 DEF SharesSecurity
  <2> QED BY <2>2, <2>3
<1>9. Serviceable => ~DecodeExits(sets.WTP, msg)
  <2> SUFFICES ASSUME Serviceable PROVE ~DecodeExits(sets.WTP, msg)
    OBVIOUS
  <2>1. OwnHandlers(sets.WTP)
    BY <1>3, ServiceSets DEF CiscoSpoken
  <2>2. \A x \in msg.elems : x[1] \notin Unsent
    <3>1. CASE msg = ErrorResponse(RequestOf[pc])
      BY <3>1, ErrorIs
    <3>2. CASE Response(sets.AC, msg, ResponseTo[RequestOf[pc]])
      <4>1. CASE msg = ErrorResponse("DISCOVERY_REQUEST")
        BY <4>1, ErrorIs
      <4>2. CASE msg # ErrorResponse("DISCOVERY_REQUEST")
        <5>1. Agreed
          BY <1>1, <1>3, <4>2 DEF Agreed
        <5>2. Spoken \subseteq DOMAIN sets.AC.msgs
          BY <1>3, <5>1, ServiceSets DEF CiscoSpoken, Complete
        <5>3. WellWritten(sets.AC, msg)
          BY <1>3, <3>2, <5>2, Exchanges DEF Response, Spoken
        <5> QED BY <5>3 DEF WellWritten
      <4> QED BY <4>1, <4>2
    <3> QED BY <1>2, <3>1, <3>2
  <2> QED BY <1>6, <2>1, <2>2, ReadsOn
<1>10. Settings'
  BY <1>1, Fixed DEF Inv
<1>11. Registered'
  BY <1>1, <1>3, <1>4, <1>6, Exchanges DEF Inv, Registered
<1>12. Flight'
  BY <1>1 DEF Flight
<1>13. Controlled'
  BY <1>1, <1>3, <1>4 DEF Inv, Controlled
<1>14. Agreement'
  BY <1>1, <1>3, <1>4, <1>8, NoneIs, Fixed DEF Inv, Agreement, Agreed
<1>15. Admission'
  BY <1>1, <1>4, <1>7, NoneIs, Fixed DEF Inv, Admission, Joined
<1>16. Service'
  BY <1>1, <1>4, <1>9, Fixed DEF Inv, Service
<1> QED BY <1>10, <1>11, <1>12, <1>13, <1>14, <1>15, <1>16 DEF Inv

\* What the controller reads a request with.
LEMMA HeardWith ==
    ASSUME Inv, msg.to = "AC", acstate # "gone" \/ msg.type = "DISCOVERY_REQUEST",
           NEW now, now = IF msg.type = "DISCOVERY_REQUEST" THEN Detected(msg) ELSE mods
    PROVE  /\ Request(sets.WTP, msg, RequestOf[pc]) /\ msg.type = RequestOf[pc]
           /\ awaits /\ pc \in DOMAIN RequestOf /\ pc # "register"
           /\ Detectable(now)
           /\ SessionSet(SetFor(msg), now)
           /\ now.capwap = "cisco" <=> CiscoFirst /\ WtpCisco
           /\ setup.version < 73 => Early(SetFor(msg))
           /\ StateFor(msg) \in AcStates
           /\ pc = "discovery" => StateFor(msg) = "DISCOVERY"
           /\ pc # "discovery" => /\ SetFor(msg) = sets.AC /\ now = mods /\ Agreed
                                  /\ StateFor(msg) = acstate
<1>1. awaits /\ Request(sets.WTP, msg, RequestOf[pc]) /\ msg.type = RequestOf[pc]
  BY FlightIs DEF Inv, Request
<1>2. pc \in DOMAIN RequestOf /\ pc # "register"
  BY <1>1, Exchanges DEF Inv, Flight
<1>3. pc = "discovery" <=> msg.type = "DISCOVERY_REQUEST"
  BY <1>1, <1>2, Exchanges
<1>4. CASE pc = "discovery"
  <2>1. /\ now = Detected(msg) /\ SetFor(msg) = MsgSetOf(now)
        /\ StateFor(msg) = "DISCOVERY"
    BY <1>3, <1>4 DEF SetFor, StateFor
  <2>2. Detectable(now)
    BY <2>1, Lists, DetectedIs DEF Inv
  <2>3. SessionSet(SetFor(msg), now) /\ Early(SetFor(msg))
    BY <2>1, <2>2, MsgSets
  <2>4. now.capwap = "cisco" <=> CiscoFirst /\ WtpCisco
    <3>1. now.capwap = Detect("capwap", msg)
      BY <2>1 DEF Detected
    <3>2. now.capwap = "cisco"
            <=> CiscoFirst /\ \E x \in msg.elems : x[1][1] \in {"cisco", "lwapp"}
      BY <3>1, Lists, DetectCisco DEF Inv
    <3>3. (\E x \in msg.elems : x[1][1] \in {"cisco", "lwapp"}) <=> WtpCisco
      BY <1>1, <1>2, <1>4, WtpIs, Exchanges DEF Inv, Request
    <3> QED BY <3>2, <3>3
  <2> QED BY <1>1, <1>2, <1>4, <2>1, <2>2, <2>3, <2>4 DEF AcStates
<1>5. CASE pc # "discovery"
  <2>1. now = mods /\ SetFor(msg) = sets.AC /\ StateFor(msg) = acstate
    BY <1>3, <1>5 DEF SetFor, StateFor
  <2>2. Agreed
    BY <1>2, <1>5, Exchanges DEF Agreed
  <2>3. acstate # "gone"
    BY <1>3, <1>5
  <2> QED BY <1>1, <1>2, <1>5, <2>1, <2>2, <2>3 DEF Inv, Controlled, Agreement
<1> QED BY <1>4, <1>5

\* The controller refuses a request.
LEMMA AcRefusesInv == Inv /\ AcRefuses => Inv'
<1> SUFFICES ASSUME Inv, AcRefuses PROVE Inv'
  OBVIOUS
<1>1. /\ msg.to = "AC" /\ (acstate # "gone" \/ msg.type = "DISCOVERY_REQUEST")
      /\ Judge("AC", SetFor(msg), StateFor(msg), msg.type) = "refused"
      /\ msg' = ErrorResponse(msg.type)
      /\ UNCHANGED <<setup, loaded, sets, pc, awaits, acstate, mods, up>>
  BY DEF AcRefuses, AcHears
<1>2. awaits /\ pc \in DOMAIN RequestOf /\ msg.type = RequestOf[pc]
  BY <1>1, HeardWith
<1>3. pc = "discovery" => msg' = ErrorResponse("DISCOVERY_REQUEST")
  BY <1>1, <1>2, Exchanges
<1>4. ~(pc = "join" /\ mods.capwap = "cisco")
  <2> SUFFICES ASSUME pc = "join", mods.capwap = "cisco" PROVE FALSE
    OBVIOUS
  <2>1. /\ SetFor(msg) = sets.AC /\ StateFor(msg) = "JOIN"
        /\ SessionSet(sets.AC, mods) /\ msg.type = "JOIN_REQUEST"
    BY <1>1, <1>2, HeardWith, Exchanges DEF Inv, Controlled
  <2>2. JoinHeard(sets.AC)
    BY <2>1 DEF SessionSet, CiscoSpoken
  <2> QED BY <1>1, <2>1, <2>2 DEF JoinHeard, Judge
<1>5. Settings'
  BY <1>1, Fixed DEF Inv
<1>6. Registered'
  BY <1>1 DEF Inv, Registered
<1>7. Flight'
  BY <1>1, <1>2 DEF Inv, Flight
<1>8. Controlled'
  BY <1>1 DEF Inv, Controlled
<1>9. Agreement'
  BY <1>1, <1>3, Fixed DEF Inv, Agreement, Agreed
<1>10. Admission'
  BY <1>1, <1>4, Fixed DEF Inv, Admission, Joined
<1>11. Service'
  BY <1>1, Fixed DEF Inv, Service
<1> QED BY <1>5, <1>6, <1>7, <1>8, <1>9, <1>10, <1>11 DEF Inv

\* A controller with Cisco's tables that lets a WTP configure itself can serve it.
LEMMA Admitted ==
    ASSUME Inv, pc = "configure", awaits, mods.capwap = "cisco",
           ~ComposeExits("AC", sets.AC, "CONFIGURATION_STATUS_RESPONSE")
    PROVE  Serviceable
<1>1. /\ SessionSet(sets.AC, mods) /\ CiscoFirst /\ WtpCisco /\ setup.bare
  BY DEF Inv, Agreement, Agreed
<1>2. Good(sets.AC) /\ CiscoSpoken(sets.AC)
  BY <1>1 DEF SessionSet
<1>3. setup.version < 73
  <2>1. CASE setup.version >= 73
    <3>1. sets.AC.handlers[RadioConfiguration] \in {"cisco73", "cisco75"}
      BY <2>1 DEF Inv, Admission, Joined
    <3> QED BY <1>2, <3>1, UpgradeStops
  <2> QED BY <2>1, Lists DEF Inv
<1>4. setup.known
  BY <1>1, WtpIs DEF Inv, Flight
<1>5. Last(setup.wtp) = "cisco"
  <2>1. /\ setup.wtp \in WtpLists /\ setup.wtp \in Seq(Modules)
        /\ Len(setup.wtp) \in Nat /\ Len(setup.wtp) > 0
    BY Lists DEF Inv, Settings
  <2>2. Last(setup.wtp) \in {"capwap", "cisco"}
    <3>1. setup.wtp[Len(setup.wtp)] \in Modules
      BY <2>1
    <3> QED BY <3>1 DEF Inv, Admission, Modules, Last
  <2>3. PICK i \in 1 .. Len(setup.wtp) : setup.wtp[i] = "cisco"
    BY <1>1 DEF WtpCisco
  <2>4. i < Len(setup.wtp) => setup.wtp[Len(setup.wtp)] # "capwap"
    <3>1. i \in DOMAIN setup.wtp /\ Len(setup.wtp) \in DOMAIN setup.wtp
      BY <2>1
    <3> QED BY <2>1, <2>3, <3>1, ListsAssumption
  <2> QED BY <2>1, <2>2, <2>3, <2>4 DEF Last
<1> QED BY <1>1, <1>3, <1>4, <1>5 DEF Serviceable, CiscoFirst

\* The controller answers a request, or ends over it.
LEMMA AcAnswersInv == Inv /\ AcAnswers => Inv'
<1> SUFFICES ASSUME Inv, AcAnswers PROVE Inv'
  OBVIOUS
<1> DEFINE before == SetFor(msg)
           set    == Postprocessed(before, msg)
           type   == ResponseTo[msg.type]
           next   == NextState(before, StateFor(msg), msg.type)
           m      == Message("AC", "WTP", set, type)
           stops  == DecodeExits(before, msg) \/ ComposeExits("AC", set, type)
<1>1. /\ msg.to = "AC" /\ (acstate # "gone" \/ msg.type = "DISCOVERY_REQUEST")
      /\ Judge("AC", before, StateFor(msg), msg.type) = "accepted"
      /\ sets' = [sets EXCEPT !.AC = set]
      /\ mods' = IF msg.type = "DISCOVERY_REQUEST" THEN Detected(msg) ELSE mods
      /\ UNCHANGED <<setup, loaded, pc, awaits>>
  BY DEF AcAnswers, AcHears
<1>2. \/ stops /\ up' = FALSE /\ msg' = None /\ acstate' = acstate
      \/ /\ ~stops /\ up' = up /\ msg' = m
         /\ acstate' = IF next = "DATA_CHECK" /\ set.toRun THEN "RUN" ELSE next
  BY DEF AcAnswers
<1>3. /\ Request(sets.WTP, msg, RequestOf[pc]) /\ msg.type = RequestOf[pc]
      /\ awaits /\ pc \in DOMAIN RequestOf /\ pc # "register"
      /\ Detectable(mods') /\ SessionSet(before, mods')
      /\ mods'.capwap = "cisco" <=> CiscoFirst /\ WtpCisco
      /\ setup.version < 73 => Early(before)
      /\ StateFor(msg) \in AcStates
      /\ pc = "discovery" => StateFor(msg) = "DISCOVERY"
      /\ pc # "discovery" => /\ before = sets.AC /\ mods' = mods /\ Agreed
                             /\ StateFor(msg) = acstate
  BY <1>1, HeardWith
<1>4. setup.version \in {70, 73, 75}
  BY Lists DEF Inv
<1>5. /\ SessionSet(set, mods')
      /\ setup.version < 73 => set = before
      /\ pc \notin {"discovery", "join"} => set = before
  BY <1>3, <1>4, PostSession, Exchanges
<1>6. /\ pc = "join" => msg.type = "JOIN_REQUEST" /\ type = "JOIN_RESPONSE"
      /\ pc = "configure" => type = "CONFIGURATION_STATUS_RESPONSE"
      /\ type \in Responses
      /\ msg.type = "CONFIGURATION_STATUS_REQUEST" => pc = "configure"
      /\ msg.type \in Requests
  BY <1>3, Exchanges
<1>7. /\ DOMAIN sets' = {"WTP", "AC"} /\ sets'.AC = set /\ sets'.WTP = sets.WTP
  BY <1>1, SetOf DEF Inv, Registered
<1>8. \/ next = StateFor(msg)
      \/ next = "CONFIGURE" /\ StateFor(msg) = "JOIN" /\ pc = "configure"
      \/ next = "DATA_CHECK" /\ StateFor(msg) = "CONFIGURE"
  <2>1. /\ msg.type \in DOMAIN before.msgs
        /\ \E s \in before.msgs[msg.type].states : s[1] = StateFor(msg)
    BY <1>1 DEF Judge
  <2>2. Good(before)
    BY <1>3 DEF SessionSet
  <2> QED BY <1>3, <1>6, <2>1, <2>2, NextIs
<1>9. Response(set, m, type)
  BY <1>5, <1>6, ResponseWritten DEF SessionSet
<1>10. pc = "discovery" => acstate \in {"gone", "DISCOVERY"}
  BY DEF Inv, Controlled
<1>11. pc = "join" => acstate = "JOIN"
  BY DEF Inv, Controlled
<1>12. pc # "discovery" => set.toRun = sets.AC.toRun
  BY <1>3, <1>5 DEF Inv, Agreement, SessionSet
<1>13. pc = "join" /\ mods'.capwap = "cisco" /\ setup.version >= 73 =>
           set.handlers[RadioConfiguration] \in {"cisco73", "cisco75"}
  <2> SUFFICES ASSUME pc = "join", mods'.capwap = "cisco", setup.version >= 73
               PROVE  set.handlers[RadioConfiguration] \in {"cisco73", "cisco75"}
    OBVIOUS
  <2>1. Good(before) /\ CiscoSpoken(before)
    BY <1>3 DEF SessionSet
  <2>2. CiscoSpoken(sets.WTP)
    BY <1>3, WtpIs DEF Inv
  <2>3. <<WtpDescriptor, 4>> \in msg.elems
    BY <1>3, <1>6, <2>2 DEF Request
  <2>4. set = Upgraded(before, setup.version)
    BY <1>6, <2>1, <2>3, DescriptorTaken
  <2> QED BY <1>3, <1>4, <2>4, UpgradedIs
<1>14. Serviceable => ~stops
  <2> SUFFICES ASSUME Serviceable PROVE ~stops
    OBVIOUS
  <2>1. CiscoSpoken(sets.WTP) /\ (\A end, e : HasValue(end, e)) /\ setup.version < 73
    BY <1>3, ServiceSets DEF Serviceable
  <2>2. CiscoFirst /\ WtpCisco
    <3>1. Len(setup.wtp) \in Nat /\ Len(setup.wtp) > 0
      BY Lists DEF Inv
    <3> QED BY <3>1 DEF Serviceable, WtpCisco, CiscoFirst, Last
  <2>3. Good(before) /\ Early(before) /\ CiscoSpoken(before) /\ set = before
    BY <1>3, <1>5, <2>1, <2>2 DEF SessionSet
  <2>4. \A x \in msg.elems : x[1] \notin Unsent
    BY <1>3 DEF Request, WellWritten
  <2>5. ~DecodeExits(before, msg)
    BY <2>3, <2>4, ReadsOn DEF CiscoSpoken
  <2>6. type \in Spoken /\ type \in DOMAIN before.msgs
    BY <1>6, <2>3 DEF CiscoSpoken, Complete, Spoken
  <2>7. ~ComposeExits("AC", before, type)
    BY <2>1, <2>3, <2>6, WritesOn DEF CiscoSpoken
  <2> QED BY <2>3, <2>5, <2>7
<1>15. pc = "configure" /\ ~stops /\ set.toRun => Serviceable
  <2> SUFFICES ASSUME pc = "configure", ~stops, set.toRun PROVE Serviceable
    OBVIOUS
  <2>1. set = sets.AC /\ mods' = mods
    BY <1>3, <1>5
  <2>2. mods.capwap = "cisco"
    BY <1>5, <2>1 DEF SessionSet
  <2> QED BY <1>3, <1>6, <2>1, <2>2, Admitted
<1> HIDE DEF before, set, type, next, m, stops
<1>16. Settings'
  BY <1>1, Fixed DEF Inv
<1>17. Registered'
  BY <1>1, <1>7 DEF Inv, Registered
<1>18. Flight'
  <2>1. CASE msg' = None
    BY <1>1, <1>7, <2>1 DEF Inv, Flight
  <2>2. CASE msg' = m
    <3>1. Response(sets'.AC, msg', ResponseTo[RequestOf[pc']])
      BY <1>1, <1>3, <1>7, <1>9, <2>2 DEF type
    <3> QED BY <1>1, <1>3, <1>7, <3>1 DEF Inv, Flight
  <2> QED BY <1>2, <2>1, <2>2
<1>19. Controlled'
  <2>1. Good(sets'.AC) /\ (setup.version < 73 => Early(sets'.AC))
    BY <1>3, <1>5, <1>7 DEF SessionSet
  <2>2. acstate' \in {"gone"} \cup AcStates
    BY <1>2, <1>3, <1>8 DEF Inv, Controlled, AcStates
  <2>3. pc = "discovery" => acstate' \in {"gone", "DISCOVERY"}
    BY <1>2, <1>3, <1>8, <1>10
  <2>4. pc = "join" => acstate' = "JOIN"
    BY <1>2, <1>3, <1>8, <1>11
  <2>5. pc \notin {"register", "connect"}
    BY <1>3, Exchanges
  <2>6. up' \in BOOLEAN
    BY <1>2 DEF Inv, Controlled
  <2> QED BY <1>1, <1>3, <2>1, <2>2, <2>3, <2>4, <2>5, <2>6 DEF Controlled
<1>20. Agreement'
  <2>1. SessionSet(sets'.AC, mods')
    BY <1>5, <1>7
  <2>2. pc \in {"connect", "join", "configure", "changestate", "run"} => mods' = mods
    BY <1>3
  <2> QED BY <1>1, <1>3, <2>1, <2>2, Fixed DEF Inv, Agreement
<1>21. Admission'
  <2>1. pc \in {"configure", "changestate", "run"} => sets'.AC = sets.AC /\ mods' = mods
    BY <1>3, <1>5, <1>7
  <2> QED BY <1>1, <1>7, <1>13, <2>1, Fixed DEF Inv, Admission, Joined
<1>22. Service'
  <2>1. ASSUME acstate' \in {"CONFIGURE", "DATA_CHECK", "RUN"}, set.toRun
        PROVE  Serviceable
    <3>1. CASE pc = "discovery"
      BY <1>2, <1>3, <1>8, <1>10, <2>1, <3>1
    <3>2. CASE pc # "discovery" /\ acstate \in {"CONFIGURE", "DATA_CHECK", "RUN"}
      BY <1>12, <2>1, <3>2 DEF Inv, Service
    <3>3. CASE pc # "discovery" /\ acstate \notin {"CONFIGURE", "DATA_CHECK", "RUN"}
      BY <1>2, <1>3, <1>8, <1>15, <2>1, <3>3
    <3> QED BY <3>1, <3>2, <3>3
  <2>2. acstate' = "RUN" => set.toRun
    <3> SUFFICES ASSUME acstate' = "RUN", ~set.toRun PROVE FALSE
      OBVIOUS
    <3>1. pc # "discovery" /\ acstate = "RUN"
      BY <1>2, <1>3, <1>8, <1>10
    <3> QED BY <1>12, <3>1 DEF Inv, Service
  <2>3. Serviceable => up' /\ pc' # "exited"
    BY <1>1, <1>2, <1>14 DEF Inv, Service
  <2> QED BY <1>1, <1>7, <2>1, <2>2, <2>3, Fixed DEF Service
<1> QED BY <1>16, <1>17, <1>18, <1>19, <1>20, <1>21, <1>22 DEF Inv

\* Every step preserves the invariant.
LEMMA StepInv == Inv /\ [Next]_vars => Inv'
BY RegisterNextInv, AskInv, TakeAnswerInv, QuietInv, GiveUpInv, AcAnswersInv,
   AcRefusesInv, ConnectInv, AcTimesOutInv, StutterInv DEF Next, Done

\* The invariant holds in every reachable state.
LEMMA Always == Spec => []Inv
<1>1. Init => Inv
  BY InitInv
<1>2. Inv /\ [Next]_vars => Inv'
  BY StepInv
<1> QED BY <1>1, <1>2, PTL DEF Spec

-----------------------------------------------------------------------------
(* What follows. *)

\* TypeOK holds for every list of modules both ends may be started with and every
\* version: no order of cw_msgset_add leaves an element mandatory and optional
\* in a message, and the state of a connection is one of the state machine's.
THEOREM TypeCorrect == Spec => []TypeOK
<1>1. Inv => TypeOK
  <2> SUFFICES ASSUME Inv PROVE TypeOK
    OBVIOUS
  <2>1. msg.to \in {"-", "WTP", "AC"}
    BY NoneIs, ErrorIs DEF Inv, Flight, Request, Response
  <2>2. Good(sets.WTP) /\ Good(sets.AC)
    BY DEF Inv, Registered, WtpSet, Controlled
  <2>3. \A end \in {"WTP", "AC"} : \A type \in DOMAIN sets[end].msgs :
            sets[end].msgs[type].mandatory \cap sets[end].msgs[type].optional = {}
    BY <2>2 DEF Good, GoodMsg
  <2> QED BY <2>1, <2>3 DEF Inv, Registered, Flight, Controlled, Detectable, AcStates,
                            Modules, TypeOK
<1> QED BY <1>1, Always, PTL

\* Understood: with the same set at both ends, whichever modules made it, the
\* reader takes every element that is written, but for the three whose handlers
\* accept another length than they write.
THEOREM SameTables == Spec => []Understood
<1>1. Inv => Understood
  <2> SUFFICES ASSUME Inv, NEW end \in {"WTP", "AC"}, msg.to = end, sets.WTP = sets.AC,
                      \A type \in DOMAIN ResponseTo : msg # ErrorResponse(type),
                      NEW x \in msg.elems \ Taken(sets[end], msg)
               PROVE  x[1] \in Misfits
    BY DEF Understood
  <2>1. awaits /\ pc # "register" /\ pc \in DOMAIN RequestOf
    BY FlightIs, Exchanges DEF Inv, Flight
  <2>2. sets[end] = sets.WTP
    OBVIOUS
  <2>3. Good(sets.WTP) /\ Early(sets.WTP) /\ Complete(sets.WTP)
    BY <2>1, WtpIs DEF Inv
  <2>4. RequestOf[pc] \in DOMAIN ResponseTo
    BY <2>1, Exchanges DEF ResponseTo, Requests
  <2>5. WellWritten(sets.WTP, msg)
    <3>1. CASE end = "AC"
      BY <3>1, FlightIs DEF Inv, Request
    <3>2. CASE end = "WTP"
      <4>1. Response(sets.WTP, msg, ResponseTo[RequestOf[pc]])
        BY <2>4, <3>2, FlightIs DEF Inv
      <4>2. ResponseTo[RequestOf[pc]] \in DOMAIN sets.WTP.msgs
        BY <2>1, <2>3, Exchanges DEF Complete, Spoken
      <4> QED BY <4>1, <4>2 DEF Response
    <3> QED BY <3>1, <3>2
  <2> QED BY <2>2, <2>3, <2>5, ReadAgain
<1> QED BY <1>1, Always, PTL

\* NobodyExits: in a session that can work, no handler calls stop(), whatever
\* messages get lost, and whatever else the lists of modules hold.
THEOREM NobodyStops == Spec => []NobodyExits
<1>1. Inv => NobodyExits
  BY DEF Inv, Service, NobodyExits
<1> QED BY <1>1, Always, PTL

\* RunsOnlyIf: a controller that has taken a session to RUN has cisco before capwap
\* in its list, its WTP has registered cisco last, tells a version before 7.3, and
\* knows the values Cisco's keys ask for.
THEOREM OnlyThenRun == Spec => []RunsOnlyIf
<1>1. Inv => RunsOnlyIf
  BY DEF Inv, Service, RunsOnlyIf
<1> QED BY <1>1, Always, PTL
=============================================================================
