------------------------------- MODULE Elements -------------------------------
(***************************************************************************)
(* The message elements and the message tables of mod_capwap,              *)
(* mod_capwap80211 and mod_cisco: for each element the lengths its handler *)
(* accepts and writes, for each message its receiver, the states it is     *)
(* allowed in, and its elements.                                           *)
(*                                                                         *)
(* An element is a pair of its family and the constant that names it:      *)
(* CAPWAP_ELEM_x and CAPWAP80211_ELEM_x are plain, CISCO_ELEM_x is in a    *)
(* vendor specific payload of Cisco, and CISCO_LWELEM_x is an element of   *)
(* LWAPP within one.  Values, and the keys they are kept under, are left   *)
(* out; the widths are those of the cw_ValStruct_t of the same name.       *)
(***************************************************************************)
EXTENDS Naturals

Plain(names) == {<<"plain", n>> : n \in names}
Cisco(names) == {<<"cisco", n>> : n \in names}
Lwapp(names) == {<<"lwapp", n>> : n \in names}

(***************************************************************************)
(* A handler: the lengths it takes (hi = 0 is no limit), the lengths it    *)
(* writes, where the value is kept (a scalar at the key itself, the others *)
(* below it), whether there is one for each radio, and what get and put    *)
(* do: "exits" calls stop(), "needs" calls it where the configuration has  *)
(* nothing below the key, "none" is a handler without put.                 *)
(***************************************************************************)
Handler(lo, hi, sizes, shape) ==
    [lo |-> lo, hi |-> hi, sizes |-> sizes, shape |-> shape, radio |-> FALSE,
     get |-> "takes", put |-> "writes"]

Scalar(lo, hi, width) == Handler(lo, hi, {width}, "scalar")
Struct(lo, hi, width) == Handler(lo, hi, {width}, "struct")

\* Texts, and structures that end with one, are as long as the bounds allow.
Lengths(lo, hi) == IF hi = 0 THEN {lo} ELSE {lo, hi}
Text(lo, hi) == Handler(lo, hi, Lengths(lo, hi), "scalar")
LongStruct(lo, hi) == Handler(lo, hi, Lengths(lo, hi), "struct")

Indexed(h) == [h EXCEPT !.shape = "index"]
OfRadio(h) == [h EXCEPT !.radio = TRUE]
Exits(h) == [h EXCEPT !.get = "exits", !.put = "exits"]
CannotBePut(h) == [h EXCEPT !.put = "exits"]
NeedsKey(h) == [h EXCEPT !.put = "needs"]
TakenOnly(h) == [h EXCEPT !.put = "none"]

\* The handlers of a module and the messages of one are tables: sets of rows
\* <<key, value>> with a row for each key.
Each(elements, h) == {<<e, h>> : e \in elements}

TableOf(rows) == [key \in {r[1] : r \in rows} |-> (CHOOSE r \in rows : r[1] = key)[2]]

\* The list of a message: CW_IGNORE allows an element to be received only,
\* CW_DELETE takes one away from the list of an earlier module.
Elems(mandatory, optional, ignored, deleted) ==
    [mandatory |-> mandatory, optional |-> optional, ignored |-> ignored,
     deleted |-> deleted]

\* A message: states is the set of <<allowed in, next>>, where "-" is no
\* change; a module that gives no states keeps those of an earlier one.
Msg(receiver, states, elems) ==
    [receiver |-> receiver, states |-> states, elems |-> elems]
Stays(states) == {<<s, s>> : s \in states}

-----------------------------------------------------------------------------
(* Widths of the structures, in bytes. *)

wtp_reboot_statistics           == 7 * 2 + 1
capwap_timers                   == 2 * 1
radio_operational_state         == 2 * 1
radio_admin_state               == 1
capwap80211_antenna_stru        == 3 * 1
ap_time_sync                    == 4 + 1
mwar_addr_without_type          == 4 + 2   \* mutant of mwar_addr
mwar_addr                       == 1 + 4 + 2
cisco_lw_path_mtu               == 2 * 2
cisco_ap_uptime                 == 2 * 4
cisco_login                     == 275 + 2
cisco_loghost_config            == 4 + 32
cisco_ap_led_state_config70     == 1
cisco_ap_led_state_config73     == 2 * 1
cisco_multi_domain_capability   == 1 + 3 * 2
cisco_wtp_board_data            == 40 + 6
cisco_wtp_board_data_options    == 4 * 1
cisco_ap_led_flash_config       == 8 + 4
cisco_ap_static_ip_addr         == 3 * 4 + 1 + 4
cisco_ap_static_dns             == 1 + 4
cisco_mac_operation70           == 1 + 2 + 2 * 1 + 2 + 2 * 4
cisco_mac_operation75           == 2 * 2 + 2 * 1 + 2 + 2 * 4
cisco_ap_power_injector_config  == 2 * 1 + 6
cisco_ap_model                  == 30 + 30
cisco_direct_sequence_control70 == 3 * 1 + 4 + 1
cisco_antenna_payload70         == 8 * 1
cisco_wtp_radio_config70        == 1 + 2 + 1 + 2 + 6 + 2 + 2 * 3 + 4
cisco_wtp_radio_config73        == 1 + 2 + 1 + 2 + 6 + 2 + 2 * 3 + 1 + 4 + 1
cisco_wtp_radio_config75        == 1 + 2 + 1 + 2 + 6 + 2 + 2 * 3 + 1 + 4 + 2 * 1
cisco_tx_power                  == 1 + 2
cisco_lw_radio_module_info_stru == 21 + 11 + 25 + 126
cisco_ap_qos                    == 1 + 5 * (1 + 2 * 2 + 1 + 2 + 2 * 1)
cisco_ap_core_dump              == 17 + 199
cisco_vlan                      == 1 + 2
cisco_rouge_and_mss             == 1 + 2
cisco_rouge_detection70         == 1 + 4
cisco_rouge_detections          == 1 + 6
cisco_ap_mode_and_type          == 2 * 1
dtls_data_cfg                   == 2 * 1
cisco_add_wlan70                == 474 + 33
cisco_radio_oper_state          == 2 * 1
cisco_capwap_timers             == 2 * 1
cisco_hardware_info             == 40 + 40
cisco_discovery_protocol        == 2 + 1
cisco_rad_extended_config       == 6 * 2
cisco_80211_assoc_limit         == 3 * 1
cisco_dot11r_wlc_mac_and_ip     == 4 + 6

-----------------------------------------------------------------------------
(* The handlers. *)

\* What a WTP and a controller say of themselves.
capwap_discovery_handlers ==
    Each(Plain({"DISCOVERY_TYPE", "WTP_MAC_TYPE", "WTP_FRAME_TUNNEL_MODE"}),
            Scalar(1, 1, 1))
    \cup Each(Plain({"WTP_BOARD_DATA"}), LongStruct(14, 1024))
    \cup Each(Plain({"WTP_DESCRIPTOR"}), LongStruct(33, 1024))
    \cup Each(Plain({"VENDOR_SPECIFIC_PAYLOAD", "MTU_DISCOVERY_PADDING"}),
            TakenOnly(Text(0, 0)))
    \cup Each(Plain({"AC_DESCRIPTOR"}), Struct(0, 0, 12))
    \cup Each(Plain({"AC_NAME"}), Text(1, 512))
    \cup Each(Plain({"CAPWAP_CONTROL_IPV4_ADDRESS"}), Scalar(6, 6, 6))
    \cup Each(Plain({"CAPWAP_CONTROL_IPV6_ADDRESS"}), Scalar(18, 18, 18))

\* What joins them and what the WTP reports.
capwap_join_handlers ==
    Each(Plain({"LOCATION_DATA"}), Text(1, 1024))
    \cup Each(Plain({"WTP_NAME"}), Text(1, 512))
    \cup Each(Plain({"SESSION_ID"}), Text(16, 16))
    \cup Each(Plain({"RESULT_CODE", "CAPWAP_LOCAL_IPV4_ADDRESS"}), Scalar(4, 4, 4))
    \cup Each(Plain({"ECN_SUPPORT"}), Scalar(1, 1, 1))
    \cup Each(Plain({"MAXIMUM_MESSAGE_LENGTH", "STATISTICS_TIMER"}), Scalar(2, 2, 2))
    \cup Each(Plain({"CAPWAP_LOCAL_IPV6_ADDRESS"}), Scalar(16, 16, 4))
    \cup Each(Plain({"WTP_REBOOT_STATISTICS"}), Struct(15, 15, wtp_reboot_statistics))
    \cup Each(Plain({"RADIO_ADMINISTRATIVE_STATE"}),
            OfRadio(Struct(2, 2, 1 + radio_admin_state)))

\* What the controller configures.
capwap_configuration_handlers ==
    Each(Plain({"CAPWAP_TIMERS"}), Struct(2, 2, capwap_timers))
    \cup Each(Plain({"DECRYPTION_ERROR_REPORT_PERIOD"}), OfRadio(Scalar(3, 3, 1 + 2)))
    \cup Each(Plain({"IDLE_TIMEOUT"}), Scalar(4, 4, 4))
    \cup Each(Plain({"WTP_FALLBACK"}), Scalar(1, 1, 1))
    \cup Each(Plain({"RADIO_OPERATIONAL_STATE"}),
            Exits(OfRadio(Struct(3, 3, 1 + radio_operational_state))))
    \cup Each(Plain({"AC_NAME_WITH_PRIORITY"}), Indexed(Text(1, 513)))
    \cup Each(Plain({"IMAGE_IDENTIFIER"}), LongStruct(5, 1028))

\* The binding to IEEE 802.11.
capwap80211_handlers ==
    Each(Plain({"WTP_RADIO_INFORMATION"}), OfRadio(Scalar(0, 0, 1 + 4)))
    \cup Each(Plain({"RATE_SET"}), OfRadio(Text(3, 0)))
    \cup Each(Plain({"ANTENNA"}), OfRadio(Struct(3, 0, 1 + capwap80211_antenna_stru)))

\* What a WTP of Cisco and its controller say of themselves.
cisco_identity_handlers ==
    Each(Plain({"AC_NAME"}), Text(0, 512))
    \cup Each(Plain({"WTP_DESCRIPTOR", "AC_DESCRIPTOR"}), LongStruct(4, 128))
    \cup Each(Cisco({"RAD_NAME", "AP_GROUP_NAME"}), Text(1, 512))
    \cup Each(Cisco({"BOARD_DATA_OPTIONS"}), Struct(4, 4, cisco_wtp_board_data_options))
    \cup Each(Cisco({"AP_TIMESYNC"}), Struct(5, 5, ap_time_sync))
    \cup Each(Cisco({"MWAR_TYPE"}), Scalar(1, 1, 1))
    \cup Each(Plain({"WTP_RADIO_INFORMATION"}), OfRadio(Scalar(0, 0, 1 + 4)))
    \cup Each(Plain({"SESSION_ID"}), Text(4, 16))
    \cup Each(Cisco({"MWAR_ADDR"}), Struct(7, 7, mwar_addr))
    \cup Each(Plain({"WTP_IPV4_IP_ADDRESS"}), Scalar(4, 4, 4))

\* The access point.
cisco_ap_handlers ==
    Each(Plain({"WTP_IPV6_IP_ADDRESS"}), Scalar(16, 16, 4))
    \cup Each(Cisco({"SPAM_VENDOR_SPECIFIC"}), TakenOnly(Text(0, 0)))
    \cup Each(Lwapp({"PATH_MTU"}), Struct(0, 0, cisco_lw_path_mtu))
    \cup Each(Cisco({"AP_UPTIME"}), Struct(8, 8, cisco_ap_uptime))
    \cup Each(Lwapp({"AP_USERNAME_PASSWORD"}),
            NeedsKey(Indexed(Struct(0, 0, 1 + cisco_login))))
    \cup Each(Lwapp({"AP_LOGHOST_CONFIG"}), Struct(36, 36, cisco_loghost_config))
    \cup Each(Cisco({"AP_LED_STATE_CONFIG"}), Struct(1, 1, cisco_ap_led_state_config70))
    \cup Each(Lwapp({"AP_TELNET_SSH"}), NeedsKey(Indexed(Scalar(2, 2, 1 + 1))))
    \cup Each(Cisco({"AP_LOG_FACILITY"}), Scalar(1, 1, 1))
    \cup Each(Cisco({"MULTI_DOMAIN_CAPABILITY"}),
            OfRadio(Struct(8, 8, 1 + cisco_multi_domain_capability)))

\* Its board, switch port and addresses.
cisco_board_handlers ==
    Each(Cisco({"WTP_BOARD_DATA"}), Struct(8, 48, cisco_wtp_board_data))
    \cup Each(Cisco({"AP_LED_FLASH_CONFIG"}), Struct(0, 48, cisco_ap_led_flash_config))
    \cup Each(Cisco({"AP_PRE_STD_SWITCH_CONFIG"})
            \cup Lwapp({"AP_SUBMODE"}),
            Scalar(1, 1, 1))
    \cup Each(Cisco({"AP_POWER_INJECTOR_CONFIG"}),
            Struct(8, 8, cisco_ap_power_injector_config))
    \cup Each(Cisco({"AP_MODE_AND_TYPE"}), Struct(2, 2, cisco_ap_mode_and_type))
    \cup Each(Cisco({"AP_STATIC_IP_ADDR"}), Struct(17, 17, cisco_ap_static_ip_addr))
    \cup Each(Cisco({"AP_DNS"}), Struct(5, 5, cisco_ap_static_dns))
    \cup Each(Cisco({"AP_DOMAIN"}), LongStruct(1, 128))
    \cup Each(Cisco({"AP_MIN_IOS_VERSION", "AP_BACKUP_SOFTWARE_VERSION"}), Text(0, 32))

\* Its model and its radios.
cisco_radio_handlers ==
    Each(Lwapp({"AP_ETHERNET_PORT_SUBTYPE"}), Text(3, 3))
    \cup Each(Cisco({"AP_REGULATORY_DOMAIN"}), Indexed(LongStruct(4, 5)))
    \cup Each(Cisco({"AP_MODEL"}), Struct(60, 60, cisco_ap_model))
    \cup Each(Cisco({"RESET_BUTTON_STATE"}), Scalar(1, 1, 1))
    \cup Each(Cisco({"WTP_RADIO_CONFIGURATION"}),
            OfRadio(Struct(25, 25, 1 + cisco_wtp_radio_config70)))
    \cup Each(Cisco({"DIRECT_SEQUENCE_CONTROL"}),
            OfRadio(Struct(9, 9, 1 + cisco_direct_sequence_control70)))
    \cup Each(Cisco({"ANTENNA_PAYLOAD"}),
            OfRadio(Struct(9, 9, 1 + cisco_antenna_payload70)))
    \cup Each(Lwapp({"MWAR_HASH_VALUE"}), Text(1, 64))
    \cup Each(Cisco({"MAC_OPERATION"}),
            OfRadio(Struct(16, 16, 1 + cisco_mac_operation70)))
    \cup Each(Cisco({"TX_POWER"}), OfRadio(Struct(4, 4, 1 + cisco_tx_power)))

\* Channels, and elements whose meaning is not known.
cisco_channel_handlers ==
    Each(Cisco({"TX_POWER_LEVELS"}), OfRadio(Text(5, 150)))
    \cup Each(Cisco({"CHANNEL_POWER"}), OfRadio(Text(5, 1024)))
    \cup Each(Cisco({"SPAM_DOMAIN_SECRET", "ELEM_132", "ELEM_33"}), Text(1, 1024))
    \cup Each(Cisco({"ELEM_15"}), OfRadio(LongStruct(1, 1024)))
    \cup Each(Cisco({"ELEM_16", "ELEM_39", "ELEM_145", "ELEM_146", "ELEM_153",
                   "ELEM_156"}),
            OfRadio(Text(1, 1024)))

\* More of those, from LWAPP too.
cisco_unknown_handlers ==
    Each(Cisco({"ELEM_48"})
            \cup Lwapp({"ELEM_9", "ELEM_11", "ELEM_27", "ELEM_28", "ELEM_29",
                        "ELEM_33", "ELEM_48", "ELEM_55"}),
            OfRadio(Text(1, 1024)))
    \cup Each(Lwapp({"ELEM_14"}), Text(1, 1024))
    \cup Each(Lwapp({"RADIO_MODULE_INFO"}),
            OfRadio(Struct(183, 183, 1 + cisco_lw_radio_module_info_stru)))

\* The rest of those, and the services of the access point.
cisco_service_handlers ==
    Each(Lwapp({"ELEM_105"}), Text(1, 1024))
    \cup Each(Cisco({"ELEM_24", "ELEM_19", "ELEM_22", "ELEM_47", "ELEM_81"}),
            OfRadio(Text(1, 1024)))
    \cup Each(Cisco({"AP_QOS"}), Exits(OfRadio(Struct(52, 52, 1 + cisco_ap_qos))))
    \cup Each(Cisco({"AIRSPACE_CAPABILITY"}), OfRadio(Scalar(2, 2, 1 + 1)))
    \cup Each(Cisco({"LOCATION_DATA"}), Text(0, 1024))
    \cup Each(Cisco({"AP_CORE_DUMP"}), Struct(0, 1024, cisco_ap_core_dump))
    \cup Each(Cisco({"STATISTICS_TIMER"}), Scalar(2, 2, 2))

\* The controllers to try and the wireless networks.
cisco_wlan_handlers ==
    Each(Cisco({"AC_NAME_WITH_INDEX"}), Indexed(Text(1, 513)))
    \cup Each(Lwapp({"AC_IP_ADDR_WITH_INDEX"}), Indexed(Scalar(5, 5, 1 + 4)))
    \cup Each(Lwapp({"AP_FAILOVER_PRIORITY", "SSC_HASH_VALIDATION"}), Scalar(1, 1, 1))
    \cup Each(Lwapp({"VLAN"}), Struct(3, 3, cisco_vlan))
    \cup Each(Lwapp({"TCP_ADJUST_MSS"}), Struct(3, 3, cisco_rouge_and_mss))
    \cup Each(Lwapp({"ROUGE_DETECTION"}), Struct(5, 5, cisco_rouge_detection70))
    \cup Each(Cisco({"ADD_WLAN"}), CannotBePut(Struct(7, 1117, cisco_add_wlan70)))
    \cup Each(Lwapp({"ADD_WLAN"}), Exits(LongStruct(7, 1117)))
    \cup Each(Lwapp({"SSC_HASH"}), LongStruct(1, 331))
    \cup Each(Lwapp({"DELETE_WLAN"}), TakenOnly(Exits(Scalar(4, 4, 4))))

\* States, and what hangs together with them.
cisco_state_handlers ==
    Each(Plain({"RADIO_OPERATIONAL_STATE"}),
            OfRadio(Struct(3, 3, 1 + cisco_radio_oper_state)))
    \cup Each(Lwapp({"HARDWARE_INFO"}), Struct(17, 417, cisco_hardware_info))
    \cup Each(Lwapp({"DISCOVERY_PROTOCOL"}), Struct(3, 3, cisco_discovery_protocol))
    \cup Each(Lwapp({"RAD_EXTENDED_CONFIG"}),
            Exits(OfRadio(Struct(13, 13, 1 + cisco_rad_extended_config))))
    \cup Each(Cisco({"CAPWAP_TIMERS"}), Struct(2, 2, cisco_capwap_timers))
    \cup Each(Cisco({"80211_ASSOC_LIMIT"}), Struct(4, 4, cisco_80211_assoc_limit))
    \cup Each(Cisco({"SIG_TOGGLE"}), Scalar(1, 1, 1))
    \cup Each(Plain({"DOT11R_WLC_MAC_AND_IP"}), Struct(4, 4, cisco_dot11r_wlc_mac_and_ip))
    \cup Each(Lwapp({"AP_DTLS_DATA_CFG"}), Struct(2, 2, dtls_data_cfg))
    \cup Each(Cisco({"OPER_STATE_DETAIL_CAUSE"}), OfRadio(Scalar(4, 4, 1 + 2)))
    \cup Each(Lwapp({"MCAST_MGID_INFO"}), Text(4, 334))

\* What version 7.3 changes.
cisco_handlers73 ==
    Each(Lwapp({"ROUGE_DETECTION"}), Struct(7, 7, cisco_rouge_detections))
    \cup Each(Cisco({"AP_LED_STATE_CONFIG"}), Struct(1, 1, cisco_ap_led_state_config73))
    \cup Each(Cisco({"WTP_RADIO_CONFIGURATION"}),
            Exits(OfRadio(Struct(27, 27, 1 + cisco_wtp_radio_config73))))
    \cup Each(Cisco({"AP_VENUE_SETTINGS"}), LongStruct(5, 1024))

\* What version 7.5 changes.
cisco_handlers75 ==
    Each(Cisco({"WTP_RADIO_CONFIGURATION"}),
            Exits(OfRadio(Struct(28, 28, 1 + cisco_wtp_radio_config75))))
    \cup Each(Cisco({"MAC_OPERATION"}),
            Exits(OfRadio(Struct(17, 17, 1 + cisco_mac_operation75))))

-----------------------------------------------------------------------------
(* The elements of the messages. *)

\* Seen from Cisco devices, meaning unknown.
Unnamed ==
    Cisco({"ELEM_15", "ELEM_16", "ELEM_19", "ELEM_22", "ELEM_24", "ELEM_33", "ELEM_39",
           "ELEM_47", "ELEM_48", "ELEM_81", "ELEM_132", "ELEM_145", "ELEM_146",
           "ELEM_153", "ELEM_156"})
    \cup Lwapp({"ELEM_9", "ELEM_11", "ELEM_14", "ELEM_27", "ELEM_28", "ELEM_29",
                "ELEM_33", "ELEM_48", "ELEM_55", "ELEM_105"})

capwap_discovery_request_elements ==
    Elems(Plain({"DISCOVERY_TYPE", "WTP_BOARD_DATA", "WTP_DESCRIPTOR",
                 "WTP_FRAME_TUNNEL_MODE", "WTP_MAC_TYPE"}),
          Plain({"MTU_DISCOVERY_PADDING"}),
          Plain({"VENDOR_SPECIFIC_PAYLOAD"}),
          {})
capwap_discovery_response_elements ==
    Elems(Plain({"AC_DESCRIPTOR", "AC_NAME", "CAPWAP_CONTROL_IPV4_ADDRESS",
                 "CAPWAP_CONTROL_IPV6_ADDRESS"}),
          {},
          Plain({"VENDOR_SPECIFIC_PAYLOAD"}),
          {})
capwap_join_request_elements ==
    Elems(Plain({"LOCATION_DATA", "WTP_BOARD_DATA", "WTP_DESCRIPTOR", "WTP_NAME",
                 "SESSION_ID", "WTP_FRAME_TUNNEL_MODE", "WTP_MAC_TYPE", "ECN_SUPPORT",
                 "CAPWAP_LOCAL_IPV4_ADDRESS", "CAPWAP_LOCAL_IPV6_ADDRESS"}),
          Plain({"MAXIMUM_MESSAGE_LENGTH"}),
          Plain({"VENDOR_SPECIFIC_PAYLOAD"}),
          {})
capwap_join_response_elements ==
    Elems(Plain({"RESULT_CODE", "AC_DESCRIPTOR", "AC_NAME", "ECN_SUPPORT",
                 "CAPWAP_CONTROL_IPV4_ADDRESS", "CAPWAP_CONTROL_IPV6_ADDRESS",
                 "CAPWAP_LOCAL_IPV4_ADDRESS", "CAPWAP_LOCAL_IPV6_ADDRESS"}),
          Plain({"MAXIMUM_MESSAGE_LENGTH"}),
          Plain({"VENDOR_SPECIFIC_PAYLOAD"}),
          {})
capwap_configuration_status_request_elements ==
    Elems(Plain({"AC_NAME", "RADIO_ADMINISTRATIVE_STATE", "STATISTICS_TIMER",
                 "WTP_REBOOT_STATISTICS"}),
          Plain({"AC_NAME_WITH_PRIORITY"}),
          Plain({"VENDOR_SPECIFIC_PAYLOAD"}),
          {})
capwap_configuration_status_response_elements ==
    Elems(Plain({"CAPWAP_TIMERS", "DECRYPTION_ERROR_REPORT_PERIOD", "IDLE_TIMEOUT",
                 "WTP_FALLBACK"}),
          {},
          Plain({"VENDOR_SPECIFIC_PAYLOAD"}),
          {})
capwap_configuration_update_request_elements ==
    Elems({},
          Plain({"RADIO_ADMINISTRATIVE_STATE", "STATISTICS_TIMER", "IMAGE_IDENTIFIER"}),
          Plain({"VENDOR_SPECIFIC_PAYLOAD"}),
          {})
capwap_configuration_update_response_elements ==
    Elems(Plain({"RESULT_CODE"}), {}, {}, {})
capwap_change_state_event_request_elements ==
    Elems(Plain({"RADIO_OPERATIONAL_STATE", "RESULT_CODE"}),
          {},
          Plain({"VENDOR_SPECIFIC_PAYLOAD"}),
          {})
capwap_change_state_event_response_elements == Elems(Plain({"RESULT_CODE"}), {}, {}, {})
capwap_wtp_event_request_elements ==
    Elems({}, {}, Plain({"VENDOR_SPECIFIC_PAYLOAD"}), {})
capwap_wtp_event_response_elements == Elems(Plain({"RESULT_CODE"}), {}, {}, {})
capwap_echo_request_elements == Elems({}, {}, Plain({"VENDOR_SPECIFIC_PAYLOAD"}), {})
capwap_echo_response_elements == Elems({}, {}, Plain({"VENDOR_SPECIFIC_PAYLOAD"}), {})
capwap80211_discovery_request_elements ==
    Elems(Plain({"WTP_RADIO_INFORMATION"}), {}, {}, {})
capwap80211_discovery_response_elements ==
    Elems(Plain({"WTP_RADIO_INFORMATION"}), {}, {}, {})
capwap80211_join_request_elements == Elems(Plain({"WTP_RADIO_INFORMATION"}), {}, {}, {})
capwap80211_join_response_elements ==
    Elems(Plain({"WTP_RADIO_INFORMATION"}), {}, {}, {})
capwap80211_configuration_status_response_elements ==
    Elems(Plain({"RATE_SET"}), {}, {}, {})
cisco_discovery_request_elements ==
    Elems(Plain({"WTP_RADIO_INFORMATION"})
          \cup Cisco({"RAD_NAME"}),
          Plain({"WTP_BOARD_DATA"})
          \cup Cisco({"BOARD_DATA_OPTIONS"}),
          {},
          {})
cisco_discovery_response_elements ==
    Elems(Plain({"WTP_RADIO_INFORMATION"})
          \cup Cisco({"AP_TIMESYNC"}),
          Cisco({"MWAR_TYPE"}),
          {},
          {})
cisco_join_request_elements ==
    Elems(Plain({"WTP_IPV4_IP_ADDRESS", "WTP_IPV6_IP_ADDRESS"})
          \cup Cisco({"AP_GROUP_NAME", "MWAR_ADDR", "BOARD_DATA_OPTIONS"}),
          Lwapp({"PATH_MTU"}),
          Cisco({"SPAM_VENDOR_SPECIFIC"}),
          Plain({"CAPWAP_LOCAL_IPV4_ADDRESS", "CAPWAP_LOCAL_IPV6_ADDRESS",
                 "ECN_SUPPORT"}))
cisco_join_response_elements ==
    Elems(Lwapp({"PATH_MTU"}),
          {},
          Cisco({"SPAM_VENDOR_SPECIFIC"}),
          Plain({"ECN_SUPPORT"}))
cisco_configuration_status_request_elements ==
    Elems(Cisco({"AP_REGULATORY_DOMAIN", "AP_MODEL", "RESET_BUTTON_STATE",
                 "WTP_RADIO_CONFIGURATION", "ANTENNA_PAYLOAD", "TX_POWER",
                 "TX_POWER_LEVELS", "CHANNEL_POWER"})
          \cup Lwapp({"AP_USERNAME_PASSWORD", "AP_LOGHOST_CONFIG", "AP_TELNET_SSH",
                      "AP_SUBMODE", "AP_ETHERNET_PORT_SUBTYPE", "DISCOVERY_PROTOCOL"}),
          Unnamed
          \cup Cisco({"CAPWAP_TIMERS", "DIRECT_SEQUENCE_CONTROL", "AP_UPTIME",
                 "AP_LED_STATE_CONFIG", "AP_LOG_FACILITY", "MULTI_DOMAIN_CAPABILITY",
                 "WTP_BOARD_DATA", "AP_LED_FLASH_CONFIG", "AP_PRE_STD_SWITCH_CONFIG",
                 "AP_POWER_INJECTOR_CONFIG", "AP_MODE_AND_TYPE", "AP_STATIC_IP_ADDR",
                 "AP_DOMAIN", "AP_DNS", "AP_MIN_IOS_VERSION",
                 "AP_BACKUP_SOFTWARE_VERSION", "AP_CORE_DUMP", "AP_VENUE_SETTINGS",
                 "MAC_OPERATION"})
          \cup Lwapp({"AC_IP_ADDR_WITH_INDEX", "VLAN", "TCP_ADJUST_MSS",
                      "HARDWARE_INFO", "ROUGE_DETECTION", "AP_DTLS_DATA_CFG"}),
          Cisco({"SPAM_VENDOR_SPECIFIC", "AC_NAME_WITH_INDEX"}),
          {})
cisco_configuration_status_response_elements ==
    Elems(Plain({"RADIO_ADMINISTRATIVE_STATE", "RADIO_OPERATIONAL_STATE"})
          \cup Cisco({"WTP_RADIO_CONFIGURATION", "ANTENNA_PAYLOAD"})
          \cup Lwapp({"MWAR_HASH_VALUE"}),
          Unnamed
          \cup Cisco({"CAPWAP_TIMERS", "MULTI_DOMAIN_CAPABILITY",
                 "DIRECT_SEQUENCE_CONTROL", "AP_LED_STATE_CONFIG", "AP_LOG_FACILITY",
                 "MAC_OPERATION", "TX_POWER", "AP_QOS", "AIRSPACE_CAPABILITY",
                 "SPAM_DOMAIN_SECRET"}),
          Cisco({"SPAM_VENDOR_SPECIFIC"}),
          {})
cisco_configuration_update_request_elements ==
    Elems({}, Unnamed \cup Plain({"RADIO_OPERATIONAL_STATE"})
          \cup Cisco({"CAPWAP_TIMERS", "ANTENNA_PAYLOAD", "AP_UPTIME",
                      "AP_LED_STATE_CONFIG", "AP_LOG_FACILITY",
                      "MULTI_DOMAIN_CAPABILITY", "WTP_BOARD_DATA",
                      "AP_LED_FLASH_CONFIG", "AP_PRE_STD_SWITCH_CONFIG",
                      "AP_POWER_INJECTOR_CONFIG", "AP_MODE_AND_TYPE",
                      "AP_STATIC_IP_ADDR", "AP_DOMAIN", "AP_DNS",
                      "DIRECT_SEQUENCE_CONTROL", "AP_MIN_IOS_VERSION",
                      "AP_BACKUP_SOFTWARE_VERSION", "AP_REGULATORY_DOMAIN",
                      "AP_MODEL", "RESET_BUTTON_STATE", "WTP_RADIO_CONFIGURATION",
                      "LOCATION_DATA", "RAD_NAME", "AP_CORE_DUMP", "STATISTICS_TIMER",
                      "AC_NAME_WITH_INDEX", "80211_ASSOC_LIMIT", "SIG_TOGGLE",
                      "MAC_OPERATION", "TX_POWER", "ADD_WLAN"})
          \cup Lwapp({"MCAST_MGID_INFO", "AP_USERNAME_PASSWORD", "AP_LOGHOST_CONFIG",
                      "AP_TELNET_SSH", "AP_SUBMODE", "AP_ETHERNET_PORT_SUBTYPE",
                      "AC_IP_ADDR_WITH_INDEX", "AP_FAILOVER_PRIORITY", "VLAN",
                      "SSC_HASH_VALIDATION", "SSC_HASH", "DISCOVERY_PROTOCOL",
                      "ADD_WLAN", "DELETE_WLAN", "TCP_ADJUST_MSS", "ROUGE_DETECTION",
                      "RAD_EXTENDED_CONFIG"}),
          Cisco({"SPAM_VENDOR_SPECIFIC"}),
          {})
cisco_wtp_event_request_elements ==
    Elems({},
          Lwapp({"ADD_WLAN", "HARDWARE_INFO", "RADIO_MODULE_INFO", "ELEM_29"}),
          Cisco({"SPAM_VENDOR_SPECIFIC", "ADD_WLAN"}),
          {})
cisco_wtp_event_response_elements == Elems({}, {}, {}, Plain({"RESULT_CODE"}))
cisco_change_state_event_request_elements ==
    Elems(Plain({"RADIO_ADMINISTRATIVE_STATE"})
          \cup Lwapp({"HARDWARE_INFO", "RADIO_MODULE_INFO"}),
          Lwapp({"ELEM_105"}),
          Cisco({"SPAM_VENDOR_SPECIFIC", "ADD_WLAN", "OPER_STATE_DETAIL_CAUSE"}),
          {})
cisco_change_state_event_response_elements == Elems({}, {}, {}, {})
cisco_wtp_echo_response_elements == Elems(Cisco({"AP_TIMESYNC"}), {}, {}, {})
-----------------------------------------------------------------------------
(* The messages. *)

capwap_messages ==
    {<<"DISCOVERY_REQUEST",
       Msg("AC", Stays({"DISCOVERY"}), capwap_discovery_request_elements)>>,
     <<"DISCOVERY_RESPONSE",
       Msg("WTP", Stays({"DISCOVERY"}), capwap_discovery_response_elements)>>,
     <<"PRIMARY_DISCOVERY_REQUEST",
       Msg("AC", Stays({"DISCOVERY"}), capwap_discovery_request_elements)>>,
     <<"PRIMARY_DISCOVERY_RESPONSE",
       Msg("WTP", Stays({"DISCOVERY"}), capwap_discovery_response_elements)>>,
     <<"JOIN_REQUEST", Msg("AC", Stays({"JOIN"}), capwap_join_request_elements)>>,
     <<"JOIN_RESPONSE", Msg("WTP", Stays({"JOIN"}), capwap_join_response_elements)>>,
     <<"CONFIGURATION_STATUS_REQUEST",
       Msg("AC", {<<"JOIN", "CONFIGURE">>},
           capwap_configuration_status_request_elements)>>,
     <<"CONFIGURATION_STATUS_RESPONSE",
       Msg("WTP", Stays({"JOIN"}), capwap_configuration_status_response_elements)>>,
     <<"CONFIGURATION_UPDATE_REQUEST",
       Msg("WTP", Stays({"RUN"}), capwap_configuration_update_request_elements)>>,
     <<"CONFIGURATION_UPDATE_RESPONSE",
       Msg("AC", Stays({"RUN"}), capwap_configuration_update_response_elements)>>,
     <<"CHANGE_STATE_EVENT_REQUEST",
       Msg("AC", {<<"CONFIGURE", "DATA_CHECK">>, <<"RUN", "RUN">>},
           capwap_change_state_event_request_elements)>>,
     <<"CHANGE_STATE_EVENT_RESPONSE",
       Msg("WTP", Stays({"JOIN", "RUN"}),
           capwap_change_state_event_response_elements)>>,
     <<"WTP_EVENT_REQUEST",
       Msg("AC", Stays({"RUN"}), capwap_wtp_event_request_elements)>>,
     <<"WTP_EVENT_RESPONSE",
       Msg("WTP", {<<"JOIN", "-">>}, capwap_wtp_event_response_elements)>>,
     <<"ECHO_REQUEST", Msg("AC", Stays({"RUN"}), capwap_echo_request_elements)>>,
     <<"ECHO_RESPONSE", Msg("WTP", {<<"RUN", "-">>}, capwap_echo_response_elements)>>}

capwap80211_messages ==
    {<<"DISCOVERY_REQUEST", Msg("AC", {}, capwap80211_discovery_request_elements)>>,
     <<"DISCOVERY_RESPONSE",
       Msg("WTP", {}, capwap80211_discovery_response_elements)>>,
     <<"JOIN_REQUEST", Msg("AC", {}, capwap80211_join_request_elements)>>,
     <<"JOIN_RESPONSE", Msg("AC", {}, capwap80211_join_response_elements)>>,
     <<"CONFIGURATION_STATUS_RESPONSE",
       Msg("WTP", {}, capwap80211_configuration_status_response_elements)>>}

cisco_messages ==
    {<<"DISCOVERY_REQUEST", Msg("AC", {}, cisco_discovery_request_elements)>>,
     <<"DISCOVERY_RESPONSE", Msg("WTP", {}, cisco_discovery_response_elements)>>,
     <<"PRIMARY_DISCOVERY_REQUEST", Msg("AC", {}, cisco_discovery_request_elements)>>,
     <<"PRIMARY_DISCOVERY_RESPONSE",
       Msg("WTP", {}, cisco_discovery_response_elements)>>,
     <<"JOIN_REQUEST", Msg("AC", {}, cisco_join_request_elements)>>,
     <<"JOIN_RESPONSE", Msg("WTP", {}, cisco_join_response_elements)>>,
     <<"CONFIGURATION_STATUS_REQUEST",
       Msg("AC", {<<"JOIN", "CONFIGURE">>, <<"RUN", "RUN">>},
           cisco_configuration_status_request_elements)>>,
     <<"CONFIGURATION_STATUS_RESPONSE",
       Msg("WTP", {}, cisco_configuration_status_response_elements)>>,
     <<"CONFIGURATION_UPDATE_REQUEST",
       Msg("WTP", {}, cisco_configuration_update_request_elements)>>,
     <<"WTP_EVENT_REQUEST", Msg("AC", {}, cisco_wtp_event_request_elements)>>,
     <<"WTP_EVENT_RESPONSE", Msg("WTP", {}, cisco_wtp_event_response_elements)>>,
     <<"CHANGE_STATE_EVENT_REQUEST",
       Msg("AC", {}, cisco_change_state_event_request_elements)>>,
     <<"CHANGE_STATE_EVENT_RESPONSE",
       Msg("WTP", {}, cisco_change_state_event_response_elements)>>,
     <<"ECHO_RESPONSE", Msg("WTP", {}, cisco_wtp_echo_response_elements)>>}

-----------------------------------------------------------------------------
(* What a module registers. *)

capwap_handlers ==
    capwap_discovery_handlers \cup capwap_join_handlers
    \cup capwap_configuration_handlers

cisco_handlers70 ==
    cisco_identity_handlers \cup cisco_ap_handlers \cup cisco_board_handlers
    \cup cisco_radio_handlers \cup cisco_channel_handlers
    \cup cisco_unknown_handlers \cup cisco_service_handlers
    \cup cisco_wlan_handlers \cup cisco_state_handlers

handlers == [capwap      |-> TableOf(capwap_handlers),
             capwap80211 |-> TableOf(capwap80211_handlers),
             cisco70     |-> TableOf(cisco_handlers70),
             cisco73     |-> TableOf(cisco_handlers73),
             cisco75     |-> TableOf(cisco_handlers75)]

messages == [capwap      |-> TableOf(capwap_messages),
             capwap80211 |-> TableOf(capwap80211_messages),
             cisco70     |-> TableOf(cisco_messages),
             cisco73     |-> <<>>,
             cisco75     |-> <<>>]
=============================================================================
