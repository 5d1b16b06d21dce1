SPECIFICATION FairSpec
CONSTANTS
  w1 = w1
  w2 = w2
  lan = lan
  vpn = vpn
  wanAddr = wanAddr
  Ifaces = {w1, w2, lan, vpn}
  NoIface = NoIface
  VpnIfaces = {vpn}
  Addrs = {wanAddr}
  Elsewhere = Elsewhere
  Packets <- MCPackets
  StartIfaces = {w1}
  IfaceChoices <- MCIfaceChoices
  AddrChoices <- MCAddrChoices
  MaxChanges = 2
  MaxFaults = 1
INVARIANT TypeOK
PROPERTIES  SettingsTakeEffect
