------------------------------ MODULE BtEvents ------------------------------
(***************************************************************************)
(* What the closures of the Bluedroid profiles hear. The stack posts an    *)
(* event and a union with the member of that event filled in; from() of    *)
(* the profile tells, by the event, which member to read and which variant *)
(* of the Rust enum to make of it. A row is <<event, member, variant>>: an *)
(* event with several rows is told apart by what its member says. Events   *)
(* without a row become Other, with the union as it is.                    *)
(***************************************************************************)
EXTENDS FiniteSets

(* An event that carries nothing. *)
NoMember == "none"

-----------------------------------------------------------------------------
(* GATT client: bt/ble/gatt/client.rs *)

GattcEvent == {"ClientRegistered", "ClientUnregistered", "Open", "Close",
    "ReadCharacteristic", "ReadDescriptor", "ReadMultipleChar",
    "ReadMultipleVarChar", "WriteCharacteristic", "WriteDescriptor",
    "PrepareWrite", "ExecWrite", "SearchComplete", "SearchResult", "Notify",
    "RegisterNotify", "UnregisterNotify", "ServiceChanged", "Mtu", "Congest",
    "Connected", "Disconnected", "QueueFull", "SetAssociation", "AddressList",
    "DiscoveryCompleted"}

GattcAttributes == {
    <<"REG", "reg", "ClientRegistered">>,
    <<"UNREG", NoMember, "ClientUnregistered">>,
    <<"OPEN", "open", "Open">>,
    <<"READ_CHAR", "read", "ReadCharacteristic">>,
    <<"WRITE_CHAR", "write", "WriteCharacteristic">>,
    <<"CLOSE", "close", "Close">>,
    <<"SEARCH_CMPL", "search_cmpl", "SearchComplete">>,
    <<"SEARCH_RES", "search_res", "SearchResult">>,
    <<"READ_DESCR", "read", "ReadDescriptor">>,
    <<"WRITE_DESCR", "write", "WriteDescriptor">>,
    <<"NOTIFY", "notify", "Notify">>,
    <<"PREP_WRITE", "write", "PrepareWrite">>,
    <<"EXEC", "exec_cmpl", "ExecWrite">>}

GattcConnection == {
    <<"SRVC_CHG", "srvc_chg", "ServiceChanged">>,
    <<"CFG_MTU", "cfg_mtu", "Mtu">>,
    <<"CONGEST", "congest", "Congest">>,
    <<"REG_FOR_NOTIFY", "reg_for_notify", "RegisterNotify">>,
    <<"UNREG_FOR_NOTIFY", "unreg_for_notify", "UnregisterNotify">>,
    <<"CONNECT", "connect", "Connected">>,
    <<"DISCONNECT", "disconnect", "Disconnected">>,
    <<"READ_MULTIPLE", "read", "ReadMultipleChar">>,
    <<"QUEUE_FULL", "queue_full", "QueueFull">>,
    <<"SET_ASSOC", "set_assoc_cmp", "SetAssociation">>,
    <<"GET_ADDR_LIST", "get_addr_list", "AddressList">>,
    <<"DIS_SRVC_CMPL", "dis_srvc_cmpl", "DiscoveryCompleted">>,
    <<"READ_MULTI_VAR", "read", "ReadMultipleVarChar">>}

-----------------------------------------------------------------------------
(* GATT server: bt/ble/gatt/server.rs *)

GattsEvent == {"ServiceRegistered", "Read", "Write", "ExecWrite", "Mtu",
    "Confirm", "ServiceUnregistered", "ServiceCreated",
    "IncludedServiceAdded", "CharacteristicAdded", "DescriptorAdded",
    "ServiceDeleted", "ServiceStarted", "ServiceStopped", "PeerConnected",
    "PeerDisconnected", "Open", "Close", "Listen", "Congest",
    "ResponseComplete", "AttributeTableCreated", "AttributeValueModified",
    "ServiceChanged"}

GattsAttributes == {
    <<"REG", "reg", "ServiceRegistered">>,
    <<"READ", "read", "Read">>,
    <<"WRITE", "write", "Write">>,
    <<"EXEC_WRITE", "exec_write", "ExecWrite">>,
    <<"MTU", "mtu", "Mtu">>,
    <<"CONF", "conf", "Confirm">>,
    <<"UNREG", "create", "ServiceUnregistered">>,
    <<"CREATE", "create", "ServiceCreated">>,
    <<"ADD_INCL_SRVC", "add_incl_srvc", "IncludedServiceAdded">>,
    <<"ADD_CHAR", "add_char", "CharacteristicAdded">>,
    <<"ADD_CHAR_DESCR", "add_char_descr", "DescriptorAdded">>,
    <<"DELETE", "del", "ServiceDeleted">>,
    <<"START", "start", "ServiceStarted">>,
    <<"STOP", "stop", "ServiceStopped">>}

GattsConnection == {
    <<"CONNECT", "connect", "PeerConnected">>,
    <<"DISCONNECT", "disconnect", "PeerDisconnected">>,
    <<"OPEN", "open", "Open">>,
    <<"CLOSE", "close", "Close">>,
    <<"LISTEN", "congest", "Listen">>,
    <<"CONGEST", "congest", "Congest">>,
    <<"RESPONSE", "rsp", "ResponseComplete">>,
    <<"CREAT_ATTR_TAB", "add_attr_tab", "AttributeTableCreated">>,
    <<"SET_ATTR_VAL", "set_attr_val", "AttributeValueModified">>,
    <<"SEND_SERVICE_CHANGE", "service_change", "ServiceChanged">>}

-----------------------------------------------------------------------------
(* GAP of Bluetooth classic: bt/gap.rs *)

GapEvent == {"DeviceDiscoveryStarted", "DeviceDiscoveryStopped",
    "DeviceDiscovered", "RemoteServiceDiscovered", "RemoteServiceDetails",
    "AuthenticationCompleted", "PairingPinRequest",
    "PairingUserConfirmationRequest", "SspPasskey", "SspPasskeyRequest",
    "Rssi", "EirDataConfigured", "AfhChannelsConfigured", "RemoteName",
    "ModeChange", "BondedServiceRemoved", "AclConnected", "AclDisconnected",
    "QosComplete"}

GapFrom == {
    <<"DISC_RES", "disc_res", "DeviceDiscovered">>,
    <<"DISC_STATE_CHANGED", "disc_st_chg", "DeviceDiscoveryStopped">>,
    <<"DISC_STATE_CHANGED", "disc_st_chg", "DeviceDiscoveryStarted">>,
    <<"RMT_SRVCS", "rmt_srvcs", "RemoteServiceDiscovered">>,
    <<"RMT_SRVC_REC", "rmt_srvcs", "RemoteServiceDetails">>,
    <<"AUTH_CMPL", "auth_cmpl", "AuthenticationCompleted">>,
    <<"PIN_REQ", "pin_req", "PairingPinRequest">>,
    <<"CFM_REQ", "cfm_req", "PairingUserConfirmationRequest">>,
    <<"KEY_NOTIF", "key_notif", "SspPasskey">>,
    <<"KEY_REQ", "key_req", "SspPasskeyRequest">>,
    <<"READ_RSSI_DELTA", "read_rssi_delta", "Rssi">>,
    <<"CONFIG_EIR_DATA", "config_eir_data", "EirDataConfigured">>,
    <<"SET_AFH_CHANNELS", "set_afh_channels", "AfhChannelsConfigured">>,
    <<"READ_REMOTE_NAME", "read_rmt_name", "RemoteName">>,
    <<"MODE_CHG", "mode_chg", "ModeChange">>,
    <<"REMOVE_BOND_DEV", "remove_bond_dev_cmpl", "BondedServiceRemoved">>,
    <<"QOS_CMPL", "qos_cmpl", "QosComplete">>,
    <<"ACL_CONN_CMPL_STAT", "acl_conn_cmpl_stat", "AclConnected">>,
    <<"ACL_DISCONN_CMPL_STAT", "acl_disconn_cmpl_stat", "AclDisconnected">>}

-----------------------------------------------------------------------------
(* A2DP and AVRC: bt/a2dp.rs, bt/avrc.rs. The two kinds of data of A2DP     *)
(* come to handlers of their own.                                          *)

A2dpEvent == {"ConnectionState", "AudioState", "AudioCodecConfigured",
    "MediaControlAcknowledged", "Initialized", "Deinitialized",
    "SinkServiceCapabilitiesConfigured", "SinkDelaySetState", "SinkDelay",
    "SourceDelay", "SinkData", "SourceData"}

A2dpFrom == {
    <<"CONNECTION_STATE", "conn_stat", "ConnectionState">>,
    <<"AUDIO_STATE", "audio_stat", "AudioState">>,
    <<"AUDIO_CFG", "audio_cfg", "AudioCodecConfigured">>,
    <<"MEDIA_CTRL_ACK", "media_ctrl_stat", "MediaControlAcknowledged">>,
    <<"PROF_STATE", "a2d_prof_stat", "Initialized">>,
    <<"PROF_STATE", "a2d_prof_stat", "Deinitialized">>,
    <<"SNK_PSC_CFG", "a2d_psc_cfg_stat", "SinkServiceCapabilitiesConfigured">>,
    <<"SNK_SET_DELAY", "a2d_set_delay_value_stat", "SinkDelaySetState">>,
    <<"SNK_GET_DELAY", "a2d_get_delay_value_stat", "SinkDelay">>,
    <<"REPORT_SNK_DELAY", "a2d_report_delay_value_stat", "SourceDelay">>}

A2dpData == {<<"SINK_DATA", "buf", "SinkData">>,
             <<"SOURCE_DATA", "buf", "SourceData">>}

AvrccEvent == {"Connected", "Disconnected", "Passthrough", "Metadata",
    "PlayStatus", "Notification", "RemoteFeatures",
    "NotificationCapabilities", "Volume"}

AvrccFrom == {
    <<"CONNECTION_STATE", "conn_stat", "Connected">>,
    <<"CONNECTION_STATE", "conn_stat", "Disconnected">>,
    <<"PASSTHROUGH_RSP", "psth_rsp", "Passthrough">>,
    <<"METADATA_RSP", "meta_rsp", "Metadata">>,
    <<"PLAY_STATUS_RSP", NoMember, "PlayStatus">>,
    <<"CHANGE_NOTIFY", "change_ntf", "Notification">>,
    <<"REMOTE_FEATURES", "rmt_feats", "RemoteFeatures">>,
    <<"GET_RN_CAPABILITIES", "get_rn_caps_rsp", "NotificationCapabilities">>,
    <<"SET_ABSOLUTE_VOLUME", "set_volume_rsp", "Volume">>}

-----------------------------------------------------------------------------
(* Hands-free: bt/hfp.rs *)

HfpcEvent == {"ConnectionState", "AudioState", "CallState", "CallSetupState",
    "VoiceRecognitionEnabled", "VoiceRecognitionDisabled", "CallHeld",
    "NetworkServiceAvailability", "SignalStrength", "Roaming",
    "BatteryLevel", "NetworkOperator", "CallResponseAndHold",
    "CallingLineIdentification", "CallWaiting", "CurrentCall",
    "VolumeControl", "AtResponse", "SubscriberInfo", "RingTone",
    "VoiceInput", "RingIndication", "RecvData", "SendData"}

HfpcFrom == {
    <<"CONNECTION_STATE", "conn_stat", "ConnectionState">>,
    <<"AUDIO_STATE", "audio_stat", "AudioState">>,
    <<"BVRA", "bvra", "VoiceRecognitionEnabled">>,
    <<"BVRA", "bvra", "VoiceRecognitionDisabled">>,
    <<"CIND_CALL", "call", "CallState">>,
    <<"CIND_CALL_SETUP", "call_setup", "CallSetupState">>,
    <<"CIND_CALL_HELD", "call_held", "CallHeld">>,
    <<"CIND_SERVICE_AVAILABILITY", "service_availability",
        "NetworkServiceAvailability">>,
    <<"CIND_SIGNAL_STRENGTH", "signal_strength", "SignalStrength">>,
    <<"CIND_ROAMING_STATUS", "roaming", "Roaming">>,
    <<"CIND_BATTERY_LEVEL", "battery_level", "BatteryLevel">>,
    <<"COPS_CURRENT_OPERATOR", "cops", "NetworkOperator">>,
    <<"BTRH", "btrh", "CallResponseAndHold">>,
    <<"CLIP", "clip", "CallingLineIdentification">>,
    <<"CCWA", "ccwa", "CallWaiting">>,
    <<"CLCC", "clcc", "CurrentCall">>,
    <<"VOLUME_CONTROL", "volume_control", "VolumeControl">>,
    <<"AT_RESPONSE", "at_response", "AtResponse">>,
    <<"CNUM", "cnum", "SubscriberInfo">>,
    <<"BSIR", "bsir", "RingTone">>,
    <<"BINP", "binp", "VoiceInput">>,
    <<"RING_IND", NoMember, "RingIndication">>}

HfpcData == {<<"RECV_DATA", "buf", "RecvData">>,
             <<"SEND_DATA", "buf", "SendData">>}

-----------------------------------------------------------------------------
(* GAP of Bluetooth low energy: bt/ble/gap.rs. A scan result is itself told *)
(* apart by the search event that it carries.                              *)

GapSearchEvent == {"InquiryResult", "InquiryComplete", "DiscoveryResult",
    "DiscoveryBleResult", "DiscoveryComplete", "DiDiscoveryComplete",
    "SearchCanceled", "InquiryDiscardedNum", "UnknownEvent"}

BleGapEvent == {"AdvertisingConfigured", "ScanResponseConfigured",
    "ScanParameterConfigured", "RawAdvertisingConfigured",
    "RawScanResponseConfigured", "AdvertisingStarted", "ScanStarted",
    "AuthenticationComplete", "Key", "SecurityRequest",
    "PasskeyNotification", "PasskeyRequest", "OOBRequest", "LocalIR",
    "LocalER", "NumericComparisonRequest", "AdvertisingStopped",
    "ScanStopped", "StaticRandomAddressConfigured",
    "ConnectionParamsConfigured", "PacketLengthConfigured",
    "LocalPrivacyConfigured", "DeviceBondRemoved", "DeviceBondCleared",
    "DeviceBond", "ReadRssiConfigured", "WhitelistUpdated",
    "DuplicateListUpdated", "ChannelsConfigured", "ReadFeaturesConfigured",
    "PreferredDefaultPhyConfigured", "PreferredPhyConfigured",
    "ExtendedAdvertisingRandomAddressConfigured",
    "ExtendedAdvertisingParametersConfigured",
    "ExtendedAdvertisingConfigured",
    "ExtendedAdvertisingScanResponseConfigured",
    "ExtendedAdvertisingStarted", "ExtendedAdvertisingStopped",
    "ExtendedAdvertisingRemoved", "ExtendedAdvertisingCleared",
    "PeriodicAdvertisingParametersConfigured",
    "PeriodicAdvertisingDataSetComplete", "PeriodicAdvertisingStarted",
    "PeriodicAdvertisingStopped", "PeriodicAdvertisingSyncCreated",
    "PeriodicAdvertisingSyncCanceled", "PeriodicAdvertisingSyncTerminated",
    "PeriodicAdvertisingDeviceListAdded",
    "PeriodicAdvertisingDeviceListRemoved",
    "PeriodicAdvertisingDeviceListCleared",
    "ExtendedAdvertisingScanParametersConfigured",
    "ExtendedAdvertisingScanStarted", "ExtendedAdvertisingScanStopped",
    "ExtendedAdvertisingExtendedConnectionParamsConfigured"}

ScanResult ==
    {<<"SCAN_RESULT", "scan_rst", search>> : search \in GapSearchEvent}

BleGapAdvertising == {
    <<"ADV_DATA_SET", "adv_data_cmpl", "AdvertisingConfigured">>,
    <<"SCAN_RSP_DATA_SET", "scan_rsp_data_cmpl", "ScanResponseConfigured">>,
    <<"SCAN_PARAM_SET", "scan_param_cmpl", "ScanParameterConfigured">>,
    <<"ADV_DATA_RAW_SET", "adv_data_raw_cmpl", "RawAdvertisingConfigured">>,
    <<"SCAN_RSP_DATA_RAW_SET", "scan_rsp_data_raw_cmpl",
        "RawScanResponseConfigured">>,
    <<"ADV_START", "adv_start_cmpl", "AdvertisingStarted">>,
    <<"SCAN_START", "scan_start_cmpl", "ScanStarted">>,
    <<"AUTH_CMPL", "ble_security.auth_cmpl", "AuthenticationComplete">>,
    <<"KEY", NoMember, "Key">>,
    <<"SEC_REQ", NoMember, "SecurityRequest">>,
    <<"PASSKEY_NOTIF", "ble_security.key_notif", "PasskeyNotification">>,
    <<"PASSKEY_REQ", NoMember, "PasskeyRequest">>,
    <<"OOB_REQ", "ble_security.oob_data", "OOBRequest">>,
    <<"LOCAL_IR", NoMember, "LocalIR">>,
    <<"LOCAL_ER", NoMember, "LocalER">>,
    <<"NC_REQ", NoMember, "NumericComparisonRequest">>,
    <<"ADV_STOP", "adv_stop_cmpl", "AdvertisingStopped">>,
    <<"SCAN_STOP", "scan_stop_cmpl", "ScanStopped">>,
    <<"SET_STATIC_RAND_ADDR", "set_rand_addr_cmpl",
        "StaticRandomAddressConfigured">>}

BleGapConnection == {
    <<"UPDATE_CONN_PARAMS", "update_conn_params",
        "ConnectionParamsConfigured">>,
    <<"SET_PKT_LENGTH", "pkt_data_length_cmpl", "PacketLengthConfigured">>,
    <<"SET_LOCAL_PRIVACY", "local_privacy_cmpl", "LocalPrivacyConfigured">>,
    <<"REMOVE_BOND_DEV", "remove_bond_dev_cmpl", "DeviceBondRemoved">>,
    <<"CLEAR_BOND_DEV", "clear_bond_dev_cmpl", "DeviceBondCleared">>,
    <<"GET_BOND_DEV", "get_bond_dev_cmpl", "DeviceBond">>,
    <<"READ_RSSI", "read_rssi_cmpl", "ReadRssiConfigured">>,
    <<"UPDATE_WHITELIST", "update_whitelist_cmpl", "WhitelistUpdated">>,
    <<"UPDATE_DUPLICATE_LIST", "update_duplicate_exceptional_list_cmpl",
        "DuplicateListUpdated">>,
    <<"SET_CHANNELS", "ble_set_channels", "ChannelsConfigured">>,
    <<"READ_PHY", "read_phy", "ReadFeaturesConfigured">>,
    <<"SET_PREFERRED_DEFAULT_PHY", "set_perf_def_phy",
        "PreferredDefaultPhyConfigured">>,
    <<"SET_PREFERRED_PHY", "set_perf_phy", "PreferredPhyConfigured">>}

BleGapExtended == {
    <<"EXT_ADV_SET_RAND_ADDR", "ext_adv_set_rand_addr",
        "ExtendedAdvertisingRandomAddressConfigured">>,
    <<"EXT_ADV_SET_PARAMS", "ext_adv_set_params",
        "ExtendedAdvertisingParametersConfigured">>,
    <<"EXT_ADV_DATA_SET", "ext_adv_data_set",
        "ExtendedAdvertisingConfigured">>,
    <<"EXT_SCAN_RSP_DATA_SET", "scan_rsp_set",
        "ExtendedAdvertisingScanResponseConfigured">>,
    <<"EXT_ADV_START", "ext_adv_start", "ExtendedAdvertisingStarted">>,
    <<"EXT_ADV_STOP", "ext_adv_stop", "ExtendedAdvertisingStopped">>,
    <<"EXT_ADV_SET_REMOVE", "ext_adv_remove", "ExtendedAdvertisingRemoved">>,
    <<"EXT_ADV_SET_CLEAR", "ext_adv_clear", "ExtendedAdvertisingCleared">>,
    <<"SET_EXT_SCAN_PARAMS", "set_ext_scan_params",
        "ExtendedAdvertisingScanParametersConfigured">>,
    <<"EXT_SCAN_START", "ext_scan_start", "ExtendedAdvertisingScanStarted">>,
    <<"EXT_SCAN_STOP", "ext_scan_stop", "ExtendedAdvertisingScanStopped">>,
    <<"PREFER_EXT_CONN_PARAMS_SET", "ext_conn_params_set",
        "ExtendedAdvertisingExtendedConnectionParamsConfigured">>}

BleGapPeriodic == {
    <<"PERIODIC_ADV_SET_PARAMS", "peroid_adv_set_params",
        "PeriodicAdvertisingParametersConfigured">>,
    <<"PERIODIC_ADV_DATA_SET", "period_adv_data_set",
        "PeriodicAdvertisingDataSetComplete">>,
    <<"PERIODIC_ADV_START", "period_adv_start",
        "PeriodicAdvertisingStarted">>,
    <<"PERIODIC_ADV_STOP", "period_adv_stop", "PeriodicAdvertisingStopped">>,
    <<"PERIODIC_ADV_CREATE_SYNC", "period_adv_create_sync",
        "PeriodicAdvertisingSyncCreated">>,
    <<"PERIODIC_ADV_SYNC_CANCEL", "period_adv_sync_cancel",
        "PeriodicAdvertisingSyncCanceled">>,
    <<"PERIODIC_ADV_SYNC_TERMINATE", "period_adv_sync_term",
        "PeriodicAdvertisingSyncTerminated">>,
    <<"PERIODIC_ADV_ADD_DEV", "period_adv_add_dev",
        "PeriodicAdvertisingDeviceListAdded">>,
    <<"PERIODIC_ADV_REMOVE_DEV", "period_adv_remove_dev",
        "PeriodicAdvertisingDeviceListRemoved">>,
    <<"PERIODIC_ADV_CLEAR_DEV", "period_adv_clear_dev",
        "PeriodicAdvertisingDeviceListCleared">>}

-----------------------------------------------------------------------------
(* The rows of each profile, and the variants its closure can hear. *)

RowsOf(p) ==
    CASE p = "gattc" -> GattcAttributes \union GattcConnection
      [] p = "gatts" -> GattsAttributes \union GattsConnection
      [] p = "gap" -> GapFrom
      [] p = "blegap" -> ScanResult \union BleGapAdvertising
                            \union BleGapConnection \union BleGapExtended
                            \union BleGapPeriodic
      [] p \in {"sink", "source", "duplex"} -> A2dpFrom \union A2dpData
      [] p = "avrc" -> AvrccFrom
      [] p = "hfp" -> HfpcFrom \union HfpcData

(* An event that from() does not list becomes an Other with the parameter  *)
(* of C as it is.                                                          *)
Rows(p) == RowsOf(p) \union {<<"OTHER", NoMember, "Other">>}

VariantsOf(p) ==
    CASE p = "gattc" -> GattcEvent
      [] p = "gatts" -> GattsEvent
      [] p = "gap" -> GapEvent
      [] p = "blegap" -> GapSearchEvent \union BleGapEvent
      [] p \in {"sink", "source", "duplex"} -> A2dpEvent
      [] p = "avrc" -> AvrccEvent
      [] p = "hfp" -> HfpcEvent

Variants(p) == VariantsOf(p) \union {"Other"}

(* The members that the header of the stack shares between events.         *)
SharedMember == {"read", "write", "buf", NoMember}

(* The two rows of events whose member is not their own: the header has no *)
(* member for UNREG, and a TODO of the enum asks about LISTEN (server.rs); *)
(* that of RMT_SRVC_REC is rmt_srvc_rec.                                   *)
Misread == {"ServiceUnregistered", "Listen", "RemoteServiceDetails"}
=============================================================================
