---------------------------- MODULE UsbChapter9 ----------------------------
(***************************************************************************)
(* What the stack takes from chapter 9 of the USB specification by way of  *)
(* ch9.h: the fields of a control request's type and the functions over    *)
(* endpoint descriptors.  A field of some bits of a byte is what its mask  *)
(* leaves of it, not shifted.                                              *)
(***************************************************************************)
EXTENDS Naturals

Byte == 0..255

USB_DIR_OUT == 0
USB_DIR_IN  == 128

\* The three fields of bRequestType, and their values.
USB_TYPE  == [STANDARD |-> 0, CLASS |-> 32, VENDOR |-> 64, RESERVED |-> 96]
USB_RECIP == [DEVICE |-> 0, INTERFACE |-> 1, ENDPOINT |-> 2, OTHER_ |-> 3,
              PORT |-> 4, RPIPE |-> 5]
DirOf(bits)          == 128 * (bits \div 128)
TypeOfRequest(bits)  == 32 * ((bits \div 32) % 4)
RecipOfRequest(bits) == bits % 32

\* The standard requests of USB 2.0.
USB_REQ ==
  [GET_STATUS |-> 0, CLEAR_FEATURE |-> 1, SET_FEATURE |-> 3, SET_ADDRESS |-> 5,
   GET_DESCRIPTOR |-> 6, SET_DESCRIPTOR |-> 7, GET_CONFIGURATION |-> 8,
   SET_CONFIGURATION |-> 9, GET_INTERFACE |-> 10, SET_INTERFACE |-> 11,
   SYNCH_FRAME |-> 12]

-----------------------------------------------------------------------------
(* struct usb_endpoint_descriptor: what the functions look at; a word is two *)
(* bytes, the low one first.                                               *)
Descriptor == [bEndpointAddress : Byte, bmAttributes : Byte,
               wMaxPacketSize : [low : Byte, high : Byte]]

USB_ENDPOINT_XFER == [CONTROL |-> 0, ISOC |-> 1, BULK |-> 2, INT |-> 3]
USB_ENDPOINT_INTR == [PERIODIC |-> 0, NOTIFICATION |-> 16]

usb_endpoint_num(epd)  == epd.bEndpointAddress % 16
usb_endpoint_type(epd) == epd.bmAttributes % 4

usb_endpoint_dir_in(epd)  == DirOf(epd.bEndpointAddress) = USB_DIR_IN
usb_endpoint_dir_out(epd) == DirOf(epd.bEndpointAddress) = USB_DIR_OUT

usb_endpoint_xfer_bulk(epd)    == epd.bmAttributes % 4 = USB_ENDPOINT_XFER.BULK
usb_endpoint_xfer_control(epd) == epd.bmAttributes % 4 = USB_ENDPOINT_XFER.CONTROL
usb_endpoint_xfer_int(epd)     == epd.bmAttributes % 4 = USB_ENDPOINT_XFER.INT
usb_endpoint_xfer_isoc(epd)    == epd.bmAttributes % 4 = USB_ENDPOINT_XFER.ISOC

usb_endpoint_is_bulk_in(epd)  == usb_endpoint_xfer_bulk(epd) /\ usb_endpoint_dir_in(epd)
usb_endpoint_is_bulk_out(epd) == usb_endpoint_xfer_bulk(epd) /\ usb_endpoint_dir_out(epd)
usb_endpoint_is_int_in(epd)   == usb_endpoint_xfer_int(epd) /\ usb_endpoint_dir_in(epd)
usb_endpoint_is_int_out(epd)  == usb_endpoint_xfer_int(epd) /\ usb_endpoint_dir_out(epd)
usb_endpoint_is_isoc_in(epd)  == usb_endpoint_xfer_isoc(epd) /\ usb_endpoint_dir_in(epd)
usb_endpoint_is_isoc_out(epd) == usb_endpoint_xfer_isoc(epd) /\ usb_endpoint_dir_out(epd)

usb_endpoint_maxp(epd) == epd.wMaxPacketSize.low + 256 * epd.wMaxPacketSize.high

usb_endpoint_interrupt_type(epd) == 16 * ((epd.bmAttributes \div 16) % 4)
=============================================================================
